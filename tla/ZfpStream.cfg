SPECIFICATION Spec
CONSTANTS
  DimBits <- MCDimBits
  ReadBits <- MCReadBits
  WordBits = 64
  UintBits = 8
  WithOmp = TRUE
  Backends = {"none", "cuda", "metal"}
  ParamChoices <- MCParamChoices
  RateChoices = {2049}
  PrecChoices = {16}
  ExpChoices <- MCExpChoices
  FieldChoices <- MCFieldChoices
  DamagedWords <- MCDamagedWords
  Masks <- MCMasks
  MaxItems = 2
INVARIANTS HeaderFaithful ParamsUsable ExecParamsOwned
PROPERTIES PolicyKept FailedReadKeepsParams
