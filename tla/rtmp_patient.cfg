CONSTANTS
  Threads = {t1, t2}
  Jobs = {j1}
  Decoders = {d1, d2}
  Listeners = {l1, l2}
  Ipc = ipc
  Dog = dog
  None = none
  BindTries = 2
  AcceptTries = 1
  RecvTries = 1
  Overlap = FALSE
  Stall = FALSE
  Flaky = FALSE
  MaxSwitches = 3
SPECIFICATION Spec
SYMMETRY Sym
INVARIANTS
  OneAcceptor
  OnServes
  DecoderOwned
  Phases
  OffQuiet
  SilentAfterOff
