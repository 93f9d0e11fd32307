SPECIFICATION FairSpec
CONSTANTS
  Threads = {a, b}
  Free = Free
  Size = 3
  BuffSize = 2
  MaxCount = 2
  Calls <- AllCalls
CHECK_DEADLOCK FALSE
INVARIANTS ReaderTypeOK EndIsSeen SeekTargetFresh HarmNeedsOverlap
PROPERTIES StreamIsAtomic MutexReleased EofWasShort
