SPECIFICATION Spec
CONSTANTS
  MaxSpace = 5
  Replication = 2
  Width = 4
  Statuses <- AllStatuses
INVARIANTS PoolTypeOK FreeWasTrue AvailabilityWasTrue
