SPECIFICATION LocalFairSpec
CONSTANTS
  r1 = r1
  Jobs = {1, 2}
  Replicas = {r1}
  OwnerOf <- OneReplica
  Free = Free
  Sensor = Sensor
  NoRun = NoRun
  MaxScans = 1
  Lease = 1
  Poll = 1
  MaxClaims = 1
  MaxTurns = 1
  MaxFaults = 1
CHECK_DEADLOCK FALSE
INVARIANTS LocalCeiling AttendedNeverLapses
PROPERTIES LocalOutcomeIsFinal WaitingScanIsAnswered
