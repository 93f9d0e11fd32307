SPECIFICATION Spec
CONSTANTS
  t1 = t1
  t2 = t2
  p1 = p1
  p2 = p2
  Transfers = {t1, t2}
  Paths = {p1, p2}
  PathOf <- TwoPaths
  FileName <- NamesEqual
  Draws <- OneDraw
  Faults <- NoFaults
  Gateways = {g1}
  Blocks = {b1, b2}
  NoFile = NoFile
  NoGateway = NoGateway
  NoDraw = NoDraw
  Hole = Hole
  Mode = "rw"
  MaxLen = 1
  BufSize = 1
CHECK_DEADLOCK FALSE
INVARIANT BufferHoldsWrites
