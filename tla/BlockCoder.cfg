SPECIFICATION Spec
CONSTANTS
  IntPrec = 4
  EBITS = 2
  PBITS = 2
  Few = 64
  Jobs <- MCJobs
  IntBlocks <- MCIntBlocks
  FloatBlocks <- MCFloatBlocks
  MoreInts <- MCMoreInts
  MoreFloats <- MCMoreFloats
  MaxBlocks = 2
INVARIANTS InStep Lossless TopPlanes VariantsAgree
