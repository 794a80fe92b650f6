SPECIFICATION Spec
CONSTANTS
  Digests = {"d1", "d2"}
  Worlds <- MCWorlds
  Urls = {"d1", "tag", "unparsable"}
  Policies <- MCPolicies
  Material <- MCMaterial
  Pem <- MCPem
  RuleTerms <- MCRuleTerms
  MaxCalls = 1
CHECK_DEADLOCK FALSE
INVARIANTS OneImage ChecksSound BuiltinsSound
