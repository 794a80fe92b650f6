SPECIFICATION FairSpec
CONSTANTS
  t1 = t1
  image1 = image1
  image2 = image2
  index1 = index1
  index2 = index2
  blob1 = blob1
  layer1 = layer1
  NoDigest = NoDigest
  Tags <- MCTags
  Digests <- MCDigests
  Store <- MCStore
  Policy <- MCPolicy
  Paths <- MCPaths
  Settings <- MCSettings
  MinInt <- MCMinInt
  MaxInt = 31
  RandomUnits = 1
  OnErrorSteps = 2
  Preamble = 1
  CacheOn = TRUE
  MaxCalls = 1
  MaxMoves = 1
INVARIANTS AnswersSound RetriesBounded
PROPERTY EveryCallAnswered
