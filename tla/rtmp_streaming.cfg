CONSTANTS
  Threads = {t1}
  Jobs = {j1}
  Decoders = {d1}
  Listeners = {l1}
  Ipc = ipc
  Dog = dog
  None = none
  BindTries = 2
  AcceptTries = 1
  RecvTries = 1
  Overlap = FALSE
  Stall = FALSE
  Flaky = FALSE
  MaxSwitches = 3
SPECIFICATION FairSpec
PROPERTIES
  Streams
  StopDrains
