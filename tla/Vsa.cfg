\* Three reports with three sets of flags, and retrievals from four logs that grow.
CONSTANTS
  Setups <- MCSetups
  Children <- MCChildren
  IndexAliases <- MCAliases
  DigestOf <- MCDigestOf
  TagDigests = {"index", "moved"}
  EnvWorkers = 2
  MaxMissing = 1
SPECIFICATION FairSpec
INVARIANTS AttestsOwn UploadsSound AnswerLatest
PROPERTY RetrievalEnds
CHECK_DEADLOCK FALSE
