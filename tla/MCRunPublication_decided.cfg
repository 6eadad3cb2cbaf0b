SPECIFICATION FairSpec
CONSTANTS
  Files = {f1, f2}
  Replicas = {r1, r2}
  Owner = r1
  Shared = FALSE
  MaxAttempts = 2
  Horizon = 1
  Backoff = 1
  Adoption = 2
  Orphan = 4
  Overlap = FALSE
  CrashAnywhere = FALSE
  MaxClaims = 30
  MaxRequeues = 0
CHECK_DEADLOCK FALSE
INVARIANTS ClaimsBounded PublishedRunIsWhole
PROPERTY RunIsDecided
