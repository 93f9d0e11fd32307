SPECIFICATION Spec
CONSTANTS
  Users = {u1}
  Readers = {r1}
  Entries = {1, 2, 3}
  Modes <- AnyMode
  Faults <- NoFaults
  NoEntry = NoEntry
INVARIANT NoEntrySkipped
