SPECIFICATION Spec
CONSTANTS
  t1 = t1
  t2 = t2
  p1 = p1
  p2 = p2
  Transfers = {t1, t2}
  Paths = {p1, p2}
  PathOf <- TwoPaths
  FileName <- NamesDiffer
  Draws <- OneDraw
  Faults <- ClosesAnswer
  Gateways = {g1, g2}
  Blocks = {b1}
  NoFile = NoFile
  NoGateway = NoGateway
  NoDraw = NoDraw
  Hole = Hole
  Mode = "rw"
  MaxLen = 2
  BufSize = 2
CHECK_DEADLOCK FALSE
INVARIANTS PublishedComplete FailedPutInvisible LeaseHasHolder
PROPERTIES PublishedFrozen PutIsAtomic
