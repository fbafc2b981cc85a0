CONSTANTS
  ParamSets = {a, b}
  None = none
  RingMax = 4
  MaxPts = 5
  Depth = 1
  Gap = 2
SPECIFICATION Spec
SYMMETRY Sym
INVARIANTS
  Retained
  RightParams
PROPERTIES
  DisplayOrder
