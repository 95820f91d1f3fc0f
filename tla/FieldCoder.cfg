SPECIFICATION Spec
CONSTANTS
  IntPrec = 28
  Jobs <- MCJobs
INVARIANTS BlocksHoldTheirElements RoundTrip OnDevice
