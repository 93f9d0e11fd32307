SPECIFICATION FairSpec
CONSTANTS
  t1 = t1
  t2 = t2
  p1 = p1
  p2 = p2
  Transfers = {t1}
  Paths = {p1, p2}
  PathOf <- JustOne
  FileName <- NamesDiffer
  Draws <- OneDraw
  Faults <- AllFaults
  Gateways = {g1}
  Blocks = {b1, b2}
  NoFile = NoFile
  NoGateway = NoGateway
  NoDraw = NoDraw
  Hole = Hole
  Mode = "rw"
  MaxLen = 3
  BufSize = 2
CHECK_DEADLOCK FALSE
INVARIANTS TypeOK StoredAsWritten
PROPERTY CallsReturn
