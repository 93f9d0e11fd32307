SPECIFICATION FairSpec
CONSTANTS
  Users = {u1, u2}
  Readers = {r1}
  Entries = {1, 2}
  Modes <- AnyMode
  Faults <- AllLookups
  NoEntry = NoEntry
INVARIANTS QuietListing OverrunNeedsRemoval
PROPERTIES ListingEnds CreateSparesOld
