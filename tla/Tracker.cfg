\* Two terminals, three runs, a bundle and two git tasks of one repository.
CONSTANTS
  Procs = {p1, p2}
  Groups = {"clone", "lint", "scan", "base"}
  KindOf <- MCKinds
  RepoOf <- MCRepos
  Refs = {"a", "b"}
  Taskless = {"empty"}
  Commands <- MCCommands
  Never = Never
  MaxTime = 2
  MaxRuns = 3
  MaxPushes = 2
SYMMETRY MCSymmetry
SPECIFICATION Spec
INVARIANTS InEffectFirst NewestKept OneClone
PROPERTY HistoryKept
CHECK_DEADLOCK FALSE
