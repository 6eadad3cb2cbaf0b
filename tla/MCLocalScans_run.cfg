SPECIFICATION LocalSpec
CONSTANTS
  r1 = r1
  Jobs = {1, 2}
  Replicas = {r1}
  OwnerOf <- OneReplica
  Free = Free
  Sensor = Sensor
  NoRun = NoRun
  MaxScans = 2
  Lease = 1
  Poll = 1
  MaxClaims = 0
  MaxTurns = 0
  MaxFaults = 0
CHECK_DEADLOCK FALSE
INVARIANT HandsOverTheRunItProduced
