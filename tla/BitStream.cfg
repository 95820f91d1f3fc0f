CONSTANTS
  Widths = {2, 3}
  ValueBits = 3
  Size = 6
  Values <- ThreeValues
  Source <- MixedBits
SPECIFICATION Spec
INVARIANT ShiftsDefined
PROPERTY ImplementsBitTape
