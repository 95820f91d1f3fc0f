CONSTANTS
  BlockSize = 2
  SizeRange = 64
  Dims = {1, 2, 3, 4}
  Roots <- AlignedRoots
  MaxCount = 4
  MaxViews = 5
  MaxSize = 7
  MaxOffset = 2
SPECIFICATION Spec
INVARIANTS NoSharedBlock PiecesTile
