SPECIFICATION LiveSpec
CONSTANTS
  MaxEntries = 3
  MaxFails = 2
  MaxUnsynced = 1
  MaxUntold = 1
  MaxCrashes = 1
  MaxLosses = 1
INVARIANTS TypeOK RecordHolds
PROPERTIES CalmIsTrue KeepsTheRecord DebtIsPaid
CHECK_DEADLOCK FALSE
