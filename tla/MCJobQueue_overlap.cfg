SPECIFICATION Spec
CONSTANTS
  Jobs = {j1}
  Agents = {a1}
  Legacy = {}
  NoAgent = NoAgent
  NoJob = NoJob
  MaxAttempts = 2
  Lease = 1
  IngestLease = 2
  CancelGrace = 1
  MaxScans = 1
  Overlap = TRUE
  MaxSends = 1
  MaxIngests = 2
CHECK_DEADLOCK FALSE
INVARIANTS SuccessOwesItsRun
PROPERTIES OnlyTheCurrentAttemptPublishes DecisionStands
