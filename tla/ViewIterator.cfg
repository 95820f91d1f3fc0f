CONSTANTS
  BlockSize = 2
  Views <- MCViews
SPECIFICATION Spec
INVARIANTS InOrder DistanceIsCount SameElement
