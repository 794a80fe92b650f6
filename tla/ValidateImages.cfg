\* Two components, two goroutines (--workers 1), two source groups, --effective-time now.
CONSTANTS
  NumComponents = 2
  Workers = 1
  NumEvaluators = 2
  ChoosenTime = "now"
  Times <- MCTimes
  Clock = 3
  FixedTime = 2
  Worlds <- MCWorlds
SPECIFICATION FairSpec
INVARIANTS IInv ReportExact ExitSound NothingInFlight UniformTime
PROPERTIES Terminates ImplementsSnapshotVerdict
CHECK_DEADLOCK FALSE
