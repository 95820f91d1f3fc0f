CONSTANTS
  BlockSize = 2
  Sizes = {0, 1, 5}
  Value <- MCValue
  Zero = 0
  Undef = Undef
  Inputs <- MCInputs
  Noise <- MCNoise
  Rates = {1, 2}
  Codec <- MCCodec
  NoValue = NoValue
  TwoWay = FALSE
  Hash <- MCHash
  TagLimit = 8
  LineRequests = {0, 1}
  MaxLogLines = 2
VIEW MCView
SPECIFICATION Spec
INVARIANTS Placement NoStrayEncode ModifiedIsDirty
PROPERTY ImplementsLossyArray
