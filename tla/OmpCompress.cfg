CONSTANTS
  WordBits = 2
  HeaderMaxBits = 0
  MaxBlocks = 5
  MaxThreads = 3
  MaxChunkSize = 3
  Budgets <- MCBudgets
  Starts = {0, 1}
SPECIFICATION Spec
INVARIANTS ChunksPartition BufferFits SameAsSerial BuffersOwned
PROPERTY Returns
