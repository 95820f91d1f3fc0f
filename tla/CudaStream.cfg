SPECIFICATION Spec
CONSTANTS
  wsize = 4
  cuda_block_size = 1
  max_grid <- MCMaxGrid
  HeaderBits = 9
  Jobs <- MCJobs
INVARIANTS SerialStream ReadsBack WithinAllocation
