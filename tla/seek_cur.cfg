SPECIFICATION FairSpec
CONSTANTS
  Threads = {a}
  Free = Free
  Size = 3
  BuffSize = 2
  MaxCount = 2
  Calls <- SeekCalls
CHECK_DEADLOCK FALSE
PROPERTY SeekReturns
