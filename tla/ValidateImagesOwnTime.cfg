\* --effective-time attestation with --workers 1: two goroutines.
CONSTANTS
  NumComponents = 2
  Workers = 1
  NumEvaluators = 1
  ChoosenTime = "attestation"
  Times <- MCTimes
  Clock = 3
  FixedTime = 2
  Worlds <- MCTimedWorlds
SPECIFICATION Spec
INVARIANT OwnTime
CHECK_DEADLOCK FALSE
