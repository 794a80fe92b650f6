\* Two components share the evaluators of two groups with the same sources.
CONSTANTS
  Setups <- MCRace
  Targets = {1, 2}
  MaxRev = 2
SPECIFICATION Spec
INVARIANT NeverRefused
CHECK_DEADLOCK FALSE
