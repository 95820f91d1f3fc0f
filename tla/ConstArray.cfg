CONSTANTS
  ZFP_MAX_BITS = 7
  Shift = 2
  HiBits = 3
  LoBits = 5
  LBits = 2
  HbitsPerDim = 1
  Kinds = {"implicit", "verbatim", "hybrid4", "hybrid8"}
  Dims = {1, 2, 3, 4}
  Shapes <- MCShapes
  Rates = {3, 6}
  Ranges <- MCRanges
  ExpertFixed = {"verbatim", "hybrid4", "hybrid8"}
  SizesOf <- MCSizesOf
  DataSets = {"a"}
  WordBits = 4
  HeaderBits = 3
SPECIFICATION Spec
INVARIANTS ReadsLastSet BufferSuffices ElementsInPlace
