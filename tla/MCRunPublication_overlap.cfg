SPECIFICATION Spec
CONSTANTS
  Files = {f1}
  Replicas = {r1, r2}
  Owner = r1
  Shared = FALSE
  MaxAttempts = 2
  Horizon = 1
  Backoff = 1
  Adoption = 1
  Orphan = 2
  Overlap = TRUE
  CrashAnywhere = TRUE
  MaxClaims = 3
  MaxRequeues = 1
CHECK_DEADLOCK FALSE
INVARIANTS FedExactlyOnce NoteIsTrue
