SPECIFICATION Spec
CONSTANTS
  Procs = {"server", "tool"}
  Requests <- TheRequests
  First <- TheAccounts
  MaxRequests = 2
  MaxTime = 2
  Crash = FALSE
  Broken = Broken
  None = None
INVARIANT Stored
CHECK_DEADLOCK FALSE
