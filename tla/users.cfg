SPECIFICATION Spec
CONSTANTS
  Procs = {"server", "tool"}
  Requests <- TheRequests
  First <- TheAccounts
  MaxRequests = 3
  MaxTime = 3
  Crash = TRUE
  Broken = Broken
  None = None
INVARIANTS TypeOK Kept Blocks
PROPERTIES ActsAtOnce CreatedOnce
CHECK_DEADLOCK FALSE
