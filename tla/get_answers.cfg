SPECIFICATION Spec
CONSTANTS
  h1 = h1
  h2 = h2
  u1 = u1
  u2 = u2
  Users = {u1, u2}
  Addresses = {h1, h2}
  Address <- TwoAddress
  UseIp = TRUE
  Names = {n1}
  Sizes = {1}
  NGateways = 2
  Modes = {"rw", "wr", ""}
  FlagSets <- ReadAndUpdate
  Faults = {"exists", "stat"}
  Insecure = {TRUE, FALSE}
  TokenLife = 0
  MaxNow = 1
  None = None
SYMMETRY Clients
INVARIANTS GetTypeOK AnswerWasTrue WritersHavePut ConnectionsReturned
PROPERTY PublishedNotEmptied
