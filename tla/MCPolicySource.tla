--------------------------- MODULE MCPolicySource ---------------------------
(* Instances of PolicySource for TLC. *)
EXTENDS PolicySource

Source(g, k, r, v) == [group |-> g, kind |-> k, ref |-> r, rev |-> v]

\* Two groups with the same rules and the same rule data, as groups that differ in their
\* include and exclude lists have.
TwoGroups ==
  << Source(1, "policy", "rules", NotPinned), Source(1, "inline", "rule_data", NotPinned),
     Source(2, "policy", "rules", NotPinned), Source(2, "inline", "rule_data", NotPinned) >>

\* A policy and data that is pinned already and, in a second group, the same rules and a
\* source that cannot be pinned.
Mixed ==
  << Source(1, "policy", "rules", NotPinned), Source(1, "data", "lists", 1),
     Source(2, "policy", "rules", NotPinned), Source(2, "data", "odd", NotPinned) >>

Setup(command, config, unpinnable, symlinks) ==
  [command |-> command, config |-> config, unpinnable |-> unpinnable, symlinks |-> symlinks]

\* Components share the evaluators of two groups with the same sources.
Image == Setup("image", TwoGroups, {}, TRUE)

\* Inputs have evaluators of their own, with and without symbolic links.
Input == Setup("input", Mixed, {"odd"}, TRUE)
Memory == Setup("input", TwoGroups, {}, FALSE)

MCSetups == {Image, Input, Memory}
MCRace == {Image}
=============================================================================
