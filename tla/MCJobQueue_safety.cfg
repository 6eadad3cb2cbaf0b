SPECIFICATION Spec
CONSTANTS
  Jobs = {j1}
  Agents = {a1, a2}
  Legacy = {}
  NoAgent = NoAgent
  NoJob = NoJob
  MaxAttempts = 2
  Lease = 1
  IngestLease = 2
  CancelGrace = 1
  MaxScans = 1
  Overlap = FALSE
  MaxSends = 2
  MaxIngests = 2
CHECK_DEADLOCK FALSE
SYMMETRY IdSymmetry
INVARIANTS OnePublicationPerJob IngestWindowKept
