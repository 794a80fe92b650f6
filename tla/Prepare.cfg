SPECIFICATION FairSpec
CONSTANTS
  image = image
  short = short
  tag = tag
  pin = pin
  moving = moving
  newpin = newpin
  child1 = child1
  child2 = child2
  lost = lost
  gone = gone
  dimage = dimage
  dindex = dindex
  dnew = dnew
  dchild1 = dchild1
  dchild2 = dchild2
  NoImage = NoImage
  NoDigest = NoDigest
  Images <- MCImages
  Names <- MCNames
  Rank <- MCRank
  Digests <- MCDigests
  Kind <- MCKind
  Manifests <- MCManifests
  Access <- MCAccess
  Pull <- MCPull
  RefName <- MCRefName
  Pinned <- MCPinned
  Inputs <- MCInputs
  Limits <- MCLimits
  Contexts <- MCContexts
  PolicyRefs <- MCPolicyRefs
  OptionSets <- MCOptionSets
  ExtraData <- MCExtraData
CHECK_DEADLOCK FALSE
INVARIANTS SnapshotComplete PolicyAsAsked
PROPERTY PreparationEnds
