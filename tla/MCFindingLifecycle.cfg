SPECIFICATION FindingFairSpec
CONSTANTS
  Runs = {1, 2}
  NoRun = 0
  People = {p1, p2}
  NoOne = NoOne
  Sla <- MCSla
  Suppress = 1
  Reach = 0
  Longest = 1
  Words = {"CLOSED"}
  MaxTime = 1
  MaxMoves = 3
CHECK_DEADLOCK FALSE
INVARIANTS ClosureIsWhole DeadlineIsOwed SignedByAnother RegisterIsTrue SomebodyIsLooking
PROPERTIES SeenIsNotFixed VerificationEnds LapseIsRecorded
