SPECIFICATION Spec
CONSTANTS
  Policies <- MCPolicies
  Target <- MCTarget
  Keys = {"repo", "digest", "other"}
  Namespace = {}
  Now = 5
  EffectiveOnTimeout = 3
INVARIANTS FailuresExact AnsweredOnce SelectionSound MissingExact TrimLeavesCause NotVacuous FiltersAgree
CHECK_DEADLOCK FALSE
