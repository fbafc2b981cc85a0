CONSTANTS
  Cameras = {c1, c2}
  Rotations = {180}
  DedupMax = 3
  Spread = 2
  MaxShots = 4
  MaxFrames = 2
SPECIFICATION Spec
SYMMETRY Sym
INVARIANTS
  TypeOK
  Once
  Paired
PROPERTIES
  Agrees
CHECK_DEADLOCK FALSE
