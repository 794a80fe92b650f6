SPECIFICATION FairSpec
CONSTANTS
  f1 = f1
  f2 = f2
  f3 = f3
  NoFile = NoFile
  Files <- MCFiles
  Rank <- MCRank
  Givens <- MCGivens
  Outcomes <- MCOutcomes
  TargetLists <- MCTargetLists
  Unwritable = {"ro"}
  WorkerCounts = {0, 1, 2}
CHECK_DEADLOCK FALSE
INVARIANTS ReportTells FailuresTold
PROPERTY CommandEnds
