----------------------------- MODULE MCTracker -----------------------------
(* Instances of Tracker for TLC. *)
EXTENDS Tracker, TLC

MCSymmetry == Permutations(Procs)

MCKinds == [g \in Groups |-> IF g \in {"lint", "scan"} THEN "git" ELSE IF g = "clone" THEN "tag" ELSE "untagged"]
MCRepos == [g \in Groups |-> "tasks"]

Url(g, r) == [group |-> g, ref |-> r]
Command(input, list, prune, freshen, days, output, replace) ==
  [input |-> input, urls |-> list, prune |-> prune, freshen |-> freshen, days |-> days,
   output |-> output, replace |-> replace]

\* Track a bundle, freshen all, prune or not; two ways to write the file.
MCCommands ==
  { Command("main", <<Url("clone", Latest)>>, TRUE, FALSE, 1, "stdout", TRUE),
    Command("main", <<Url("lint", Latest), Url("scan", Latest)>>, TRUE, TRUE, 1, "main", FALSE),
    Command("main", << >>, FALSE, TRUE, 1, "stdout", TRUE),
    Command("none", <<Url("base", "a"), Url("base", "empty"), Url("base", "b")>>, TRUE, FALSE, 1, "other", FALSE),
    Command("other", << >>, FALSE, TRUE, 1, "stdout", FALSE) }
=============================================================================
