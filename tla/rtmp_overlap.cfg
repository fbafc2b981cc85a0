CONSTANTS
  Threads = {t1, t2}
  Jobs = {j1, j2}
  Decoders = {d1, d2}
  Listeners = {l1, l2}
  Ipc = ipc
  Dog = dog
  None = none
  BindTries = 1
  AcceptTries = 0
  RecvTries = 0
  Overlap = TRUE
  Stall = TRUE
  Flaky = TRUE
  MaxSwitches = 2
SPECIFICATION Spec
SYMMETRY Sym
INVARIANTS
  TypeOK
  ServerOpen
  CurrentNotCancelled
CHECK_DEADLOCK FALSE
