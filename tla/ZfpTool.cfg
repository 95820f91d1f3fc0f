SPECIFICATION Spec
CONSTANTS
  DimBits <- MCDimBits
  ReadBits <- MCReadBits
  WordBits = 64
  UintBits = 8
  WithOmp = TRUE
  Commands <- MCCommands
  Backends = {"none", "cuda"}
  FirstBuffer = 64
  MaxRuns = 2
INVARIANTS OutputFaithful BufferFits
PROPERTIES Terminates
