---------------------------- MODULE MCReporting ----------------------------
(* Instances of Reporting for TLC.                                        *)
EXTENDS Reporting

CONSTANTS f1, f2, f3

MCFiles == <<f1, f2, f3>>
MCRank == f1 :> 2 @@ f2 :> 3 @@ f3 :> 1
MCGivens == {f1 :> "json" @@ f2 :> "dir" @@ f3 :> "file",
             f1 :> "json" @@ f2 :> "emptydir" @@ f3 :> "file"}

R(code, msg) == [code |-> code, msg |-> msg]
Outcome(err, v, w, s) == [err |-> err, violations |-> v, warnings |-> w, successes |-> s]

MCOutcomes ==
    {Outcome(TRUE, <<>>, <<>>, <<>>),
     Outcome(FALSE, <<>>, <<>>, <<R("a", "1")>>),
     Outcome(FALSE, <<>>, <<>>, <<>>), Outcome(FALSE, <<>>, <<R("b", "1")>>, <<>>),
     Outcome(FALSE, <<R("a", "1"), R("a", "2"), R("", "3")>>, <<R("b", "1")>>, <<R("c", "1")>>)}

T(format, path, options) == [format |-> format, path |-> path, options |-> options]

MCTargetLists ==
    {<<>>,
     <<T("appstudio", "out", "none"), T("", "", "none")>>,
     <<T("summary", "", "bad"), T("yaml", "ro", "none"), T("json", "out", "none"),
       T("summary", "out2", "none")>>,
     <<T("junit", "", "none"), T("summary-markdown", "", "none"), T("text", "out", "none"),
       T("vsa", "out", "none")>>}
=============================================================================
