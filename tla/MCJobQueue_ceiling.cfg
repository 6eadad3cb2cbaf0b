SPECIFICATION Spec
CONSTANTS
  Jobs = {j1, j2}
  Agents = {a1}
  Legacy = {}
  NoAgent = NoAgent
  NoJob = NoJob
  MaxAttempts = 2
  Lease = 1
  IngestLease = 2
  CancelGrace = 1
  MaxScans = 1
  Overlap = FALSE
  MaxSends = 1
  MaxIngests = 1
CHECK_DEADLOCK FALSE
SYMMETRY IdSymmetry
INVARIANTS ConcurrencyCeiling
