\* Two components or inputs; with and without symbolic links.
CONSTANTS
  Setups <- MCSetups
  Targets = {1, 2}
  MaxRev = 2
SPECIFICATION FairSpec
INVARIANTS OneDownload LoadsFinished NoDuplicateRules OneRevision
PROPERTY AllEnd
CHECK_DEADLOCK FALSE
