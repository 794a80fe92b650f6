----------------------------- MODULE Reporting -----------------------------
(***************************************************************************)
(* `ec validate input` from the queue of files to the exit status, and the *)
(* reports of both commands: the verdict, the formats it is written in     *)
(* and the targets of --output (cmd/validate/input.go, internal/input,     *)
(* internal/applicationsnapshot/report.go and junit.go, internal/output,   *)
(* internal/format). For kind "image" the components come validated: that  *)
(* part is ValidateImages.                                                 *)
(***************************************************************************)
EXTENDS Integers, FiniteSets, Sequences, SequencesExt, TLC

CONSTANTS
    Files,         \* the values of --file, in order
    Rank,          \* [Range(Files) -> Nat], their order as strings
    Givens,        \* what the values may be, functions on Range(Files)
    Outcomes,      \* what an evaluation may come to
    TargetLists,   \* values of --output
    Unwritable,    \* paths that cannot be created
    WorkerCounts,  \* values of --workers
    NoFile

ASSUME ReportingAssumption ==
    /\ NoFile \notin Range(Files)
    /\ Givens \subseteq [Range(Files) -> {"json", "yaml", "file", "dir", "emptydir", "missing"}]
    /\ WorkerCounts \subseteq Nat

VARIABLES
    kind,      \* the command: input or image
    flags,     \* --show-successes, --show-warnings, --strict, --output, --file
    busy,      \* [worker -> the file it validates]
    jobs,      \* the channel of files
    results,   \* the channel of results
    received,  \* results received by the command
    failed,    \* allErrors of the results
    comps,     \* the validated files or components
    outcome,   \* what each evaluation came to, to compare with
    phase,     \* validate, write, done
    target,    \* the next of the targets
    written,   \* [destination -> documents in it]
    bad,       \* targets that failed
    exit       \* the exit status

workVars == <<busy, jobs, results, received, failed, outcome>>
writeVars == <<target, written, bad, exit>>
vars == <<kind, flags, workVars, comps, phase, writeVars>>

-----------------------------------------------------------------------------
(* Validation of one file.                                                 *)

\* detectInput and fileLookup: a string of JSON or YAML is written to a file,
\* a directory must have files, anything else must exist
detectInput(f) == flags.given[f] \in {"json", "yaml", "file", "dir"}

\* The worker's input.Input, and the worker's Component for an image, whose
\* warnings are always kept
Component(k, f, o, fl) ==
    [file |-> f,
     violations |-> o.violations,
     warnings |-> IF k = "image" \/ fl.warnings THEN o.warnings ELSE <<>>,
     successes |-> IF fl.successes THEN o.successes ELSE <<>>,
     successCount |-> Len(o.successes),
     success |-> o.violations = <<>>]

-----------------------------------------------------------------------------
(* The report and its formats.                                             *)

\* NewReport
Success(cs) == \A i \in DOMAIN cs : cs[i].success

Verdict(b) == IF b THEN "pass" ELSE "fail"

Total(cs, F(_)) == FoldLeft(LAMBDA n, c : n + F(c), 0, cs)

\* toSummary: success-count, because successes are only there to be shown
Totals(cs) ==
    [violations |-> Total(cs, LAMBDA c : Len(c.violations)),
     warnings   |-> Total(cs, LAMBDA c : Len(c.warnings)),
     successes  |-> Total(cs, LAMBDA c : c.successCount)]

\* condensedMsg: the first message of a code, and how many more there are;
\* a result without a code is left out
condensedMsg(rs) ==
    LET coded == SelectSeq(rs, LAMBDA r : r.code # "")
        with(c) == SelectSeq(coded, LAMBDA r : r.code = c)
    IN  [c \in {r.code : r \in Range(coded)} |->
            [first |-> with(c)[1].msg, more |-> Len(with(c)) - 1]]

\* summary.Success is only ever set to false
toSummary(cs) ==
    [verdict |-> "fail", totals |-> Totals(cs),
     parts |-> [i \in DOMAIN cs |-> condensedMsg(cs[i].violations)]]

\* Mutant: warnings are looked at first
DeriveResultWarningsFirst(t, hasFailures) ==
    IF t.warnings > 0 THEN "WARNING"
    ELSE IF t.violations > 0 \/ hasFailures THEN "FAILURE"
    ELSE IF t.successes = 0 THEN "SKIPPED" ELSE "SUCCESS"

\* DeriveResult; a component may have failed without a violation
DeriveResult(t, hasFailures) ==
    IF t.violations > 0 \/ hasFailures THEN "FAILURE"
    ELSE IF t.warnings > 0 THEN "WARNING"
    ELSE IF t.successes = 0 THEN "SKIPPED" ELSE "SUCCESS"

toAppstudioReport(cs) == DeriveResult(Totals(cs), ~Success(cs))

\* toJUnit: a case per result, a suite per component that says its success
toJUnit(cs) ==
    [verdict |-> Verdict(\A i \in DOMAIN cs : cs[i].success),
     cases |-> [i \in DOMAIN cs |->
                  [failed |-> Len(cs[i].violations), skipped |-> Len(cs[i].warnings),
                   passed |-> Len(cs[i].successes)]]]

\* generateMarkdownSummary: the icons of the fields
Markdown(cs) ==
    [verdict |-> Verdict(Success(cs)),
     totals |-> Totals(cs),
     successIcon |-> Totals(cs).successes >= 1 /\ Totals(cs).violations = 0]

\* The cases of toFormat of the two reports; a format that says no more than
\* which evidence there was has no verdict
ImageFormats == {"json", "yaml", "text", "appstudio", "hacbs", "summary", "summary-markdown",
                 "junit", "attestation", "policy-input", "vsa"}
InputFormats == {"json", "yaml", "summary"}

Formats(k) == IF k = "image" THEN ImageFormats ELSE InputFormats

Document(f, verdict, result, totals) ==
    [format |-> f, verdict |-> verdict, result |-> result, totals |-> totals, parts |-> <<>>]

toFormat(f, cs) ==
    CASE f \in {"json", "yaml"}      -> Document(f, Verdict(Success(cs)), "none", <<>>)
      [] f = "text"                  -> Document(f, Verdict(Success(cs)), toAppstudioReport(cs), Totals(cs))
      [] f \in {"appstudio", "hacbs"} -> Document(f, "none", toAppstudioReport(cs), Totals(cs))
      [] f = "summary"               -> [Document(f, toSummary(cs).verdict, "none", toSummary(cs).totals)
                                            EXCEPT !.parts = toSummary(cs).parts]
      [] f = "summary-markdown"      -> Document(f, Markdown(cs).verdict, "none", Markdown(cs).totals)
      [] f = "junit"                 -> Document(f, toJUnit(cs).verdict, "none", <<>>)
      [] OTHER                       -> Document(f, "none", "none", <<>>)

-----------------------------------------------------------------------------
(* Targets.                                                                *)

\* TargetParser.Parse and Options.mutate: the query must parse, a target that
\* names no format has the default format of both commands
Parses(t) == t.options # "bad"
FormatOf(t) == IF t.format # "" THEN t.format ELSE "json"
Destination(t) == IF t.path = "" THEN "stdout" ELSE t.path

\* WriteAll: without --output there is one target
Targets ==
    IF flags.output # <<>> THEN flags.output
    ELSE <<[format |-> IF kind = "image" THEN "text" ELSE "json", path |-> "", options |-> "none"]>>

Usable(t) == Parses(t) /\ FormatOf(t) \in Formats(kind)

\* fileWriter.Write creates the file anew, stdout goes on
Put(w, d, doc) ==
    [w EXCEPT ![d] = IF d = "stdout" THEN Append(@, doc) ELSE <<doc>>]

Destinations == {"stdout"} \cup UNION {{Destination(ts[i]) : i \in DOMAIN ts} : ts \in TargetLists}

-----------------------------------------------------------------------------
FlagSets == [successes : BOOLEAN, warnings : BOOLEAN, strict : BOOLEAN, output : TargetLists,
             given : Givens]

Evaluated == {o \in Outcomes : ~o.err}

Init ==
    /\ flags \in FlagSets
    /\ jobs = <<>> /\ results = <<>> /\ received = 0 /\ failed = FALSE
    /\ target = 1 /\ bad = {} /\ exit = "none"
    /\ written = [d \in Destinations |-> <<>>]
    /\ \/ /\ kind = "input"
          /\ phase = "start"
          /\ comps = <<>> /\ outcome = <<>>
          /\ \E n \in WorkerCounts : busy = [w \in 1 .. n |-> NoFile]
       \/ /\ kind = "image"
          /\ phase = "write"
          /\ busy = <<>>
          /\ \E o1, o2 \in Evaluated :
               /\ outcome = (Files[1] :> o1) @@ (Files[2] :> o2)
               /\ comps = <<Component(kind, Files[1], o1, flags),
                            Component(kind, Files[2], o2, flags)>>

\* The pool is started and every file is queued: the channel holds them all
StartWorkers ==
    /\ phase = "start"
    /\ jobs' = Files
    /\ phase' = "validate"
    /\ UNCHANGED <<kind, flags, busy, results, received, failed, outcome, comps, writeVars>>

\* for fpath := range jobs
TakeJob(w) ==
    /\ phase = "validate" /\ busy[w] = NoFile /\ jobs # <<>>
    /\ busy' = [busy EXCEPT ![w] = Head(jobs)]
    /\ jobs' = Tail(jobs)
    /\ UNCHANGED <<kind, flags, results, received, failed, outcome, comps, phase, writeVars>>

\* Mutant: a file that fails has no result
ValidateInputUnlessError(w, o) ==
    /\ phase = "validate" /\ busy[w] # NoFile
    /\ ~detectInput(busy[w]) => o.err
    /\ results' = IF o.err THEN results
                  ELSE Append(results, [file |-> busy[w], outcome |-> o])
    /\ outcome' = outcome @@ (busy[w] :> o)
    /\ busy' = [busy EXCEPT ![w] = NoFile]
    /\ UNCHANGED <<kind, flags, jobs, received, failed, comps, phase, writeVars>>

\* ValidateInput: detectInput, NewInput and every evaluator; its result is sent
ValidateInput(w, o) ==
    /\ phase = "validate" /\ busy[w] # NoFile
    /\ ~detectInput(busy[w]) => o.err
    /\ results' = Append(results, [file |-> busy[w], outcome |-> o])
    /\ outcome' = outcome @@ (busy[w] :> o)
    /\ busy' = [busy EXCEPT ![w] = NoFile]
    /\ UNCHANGED <<kind, flags, jobs, received, failed, comps, phase, writeVars>>

\* r := <-results
Collect ==
    /\ phase = "validate" /\ results # <<>> /\ received < Len(Files)
    /\ LET r == Head(results)
       IN  /\ failed' = (failed \/ r.outcome.err)
           /\ comps' = IF r.outcome.err THEN comps
                       ELSE Append(comps, Component(kind, r.file, r.outcome, flags))
    /\ results' = Tail(results)
    /\ received' = received + 1
    /\ UNCHANGED <<kind, flags, busy, jobs, outcome, phase, writeVars>>

\* An error of any file ends the command, no report is written
ReturnErrors ==
    /\ phase = "validate" /\ received = Len(Files) /\ failed
    /\ exit' = "error" /\ phase' = "done"
    /\ UNCHANGED <<kind, flags, workVars, comps, target, written, bad>>

\* The inputs are sorted and the report is made
NewReport ==
    /\ phase = "validate" /\ received = Len(Files) /\ ~failed
    /\ comps' = SortSeq(comps, LAMBDA a, b : Rank[a.file] > Rank[b.file])
    /\ phase' = "write"
    /\ UNCHANGED <<kind, flags, workVars, writeVars>>

\* Mutant: the first target that fails ends the loop
WriteTargetOrStop ==
    /\ phase = "write" /\ target <= Len(Targets)
    /\ LET t == Targets[target]
           good == Usable(t) /\ Destination(t) \notin Unwritable
       IN  /\ written' = IF good THEN Put(written, Destination(t),
                                          toFormat(FormatOf(t), comps))
                         ELSE written
           /\ bad' = IF good THEN bad ELSE bad \cup {target}
           /\ target' = IF good THEN target + 1 ELSE Len(Targets) + 1
    /\ UNCHANGED <<kind, flags, workVars, comps, phase, exit>>

\* One round of WriteAll: a target that does not parse, a format the report
\* does not have, a file that cannot be written: the error is kept, the next
\* target follows
WriteTarget ==
    /\ phase = "write" /\ target <= Len(Targets)
    /\ LET t == Targets[target]
           good == Usable(t) /\ Destination(t) \notin Unwritable
       IN  /\ written' = IF good THEN Put(written, Destination(t),
                                          toFormat(FormatOf(t), comps))
                         ELSE written
           /\ bad' = IF good THEN bad ELSE bad \cup {target}
    /\ target' = target + 1
    /\ UNCHANGED <<kind, flags, workVars, comps, phase, exit>>

\* The errors of WriteAll, then the success criterion when --strict
Conclude ==
    /\ phase = "write" /\ target > Len(Targets)
    /\ exit' = IF bad # {} THEN "error"
               ELSE IF flags.strict /\ ~Success(comps) THEN "criteria" ELSE "ok"
    /\ phase' = "done"
    /\ UNCHANGED <<kind, flags, workVars, comps, target, written, bad>>

Next ==
    \/ StartWorkers
    \/ \E w \in DOMAIN busy : TakeJob(w) \/ \E o \in Outcomes : ValidateInput(w, o)
    \/ Collect \/ ReturnErrors \/ NewReport \/ WriteTarget \/ Conclude

Spec == Init /\ [][Next]_vars

\* Goroutines are scheduled, evaluations end (under --timeout)
FairSpec == Spec /\ WF_vars(Next)

-----------------------------------------------------------------------------
(* Properties.                                                             *)

Docs == UNION {Range(written[d]) : d \in Destinations}

\* Types of the state.
TypeOK ==
    /\ kind \in {"input", "image"} /\ flags \in FlagSets
    /\ phase \in {"start", "validate", "write", "done"}
    /\ received \in 0 .. Len(Files) /\ Len(comps) <= Len(Files)
    /\ Len(jobs) + Len(results) + received
         + Cardinality({w \in DOMAIN busy : busy[w] # NoFile})
         \in {0, Len(Files)}
    /\ target \in 1 .. Len(Targets) + 1
    /\ bad \subseteq DOMAIN Targets
    /\ exit \in {"none", "ok", "error", "criteria"}

\* A report is about every file exactly once, in one order whatever worker was
\* first (cmd/validate/input.go:206), and there is none when the validation of any file failed.
WholeReport ==
    phase \in {"write", "done"} /\ kind = "input" /\ Docs # {} =>
        /\ ~\E f \in DOMAIN outcome : outcome[f].err
        /\ {comps[i].file : i \in DOMAIN comps} = Range(Files)
        /\ \A i, j \in DOMAIN comps : i < j => Rank[comps[i].file] > Rank[comps[j].file]

\* The documents written in different formats tell the same verdict, the one
\* of the evaluations: text, JSON, Markdown and JUnit, and the result of the
\* TEST_OUTPUT (FAILURE exactly when something was violated). The summary, where
\* messages of a code are condensed, leaves no violated code out.
FormatsAgree ==
    \A doc \in Docs :
        LET ok == \A f \in DOMAIN outcome : outcome[f].violations = <<>>
        IN  /\ doc.format # "summary" /\ doc.verdict # "none" => doc.verdict = Verdict(ok)
            /\ doc.result # "none" => (doc.result = "FAILURE") = ~ok
            /\ \A i \in DOMAIN doc.parts :
                 LET all == Range(outcome[comps[i].file].violations)
                 IN  /\ DOMAIN doc.parts[i] = {r.code : r \in all} \ {""}
                     /\ \A c \in DOMAIN doc.parts[i] :
                          doc.parts[i][c].more = Cardinality({r \in all : r.code = c}) - 1

\* The totals of a report do not depend on --show-successes: successes are
\* counted even when they are not kept (report.go:249), so that TEST_OUTPUT is
\* not SKIPPED for want of a display flag.
TotalsKept ==
    \A doc \in Docs : doc.totals # <<>> =>
        /\ doc.totals.successes =
             Total(Files, LAMBDA f : IF f \in DOMAIN outcome THEN Len(outcome[f].successes) ELSE 0)
        /\ doc.result = "SKIPPED" => \A f \in DOMAIN outcome : outcome[f].successes = <<>>

\* One target that fails takes nothing from the others (report.go:174): when
\* the command has written its reports, stdout has the documents of all usable
\* targets without a path, in order, a file that of its last usable target, and
\* a failed target is told by the exit status even if everything passed.
OthersWritten ==
    phase = "done" /\ target > 1 =>
        /\ \A d \in Destinations \ Unwritable :
             LET mine == SelectSeq(Targets, LAMBDA t : Destination(t) = d /\ Usable(t))
                 from == IF d = "stdout" \/ mine = <<>> THEN 1 ELSE Len(mine)
             IN  [k \in DOMAIN written[d] |-> written[d][k].format] =
                 [k \in 1 .. Len(mine) - from + 1 |-> FormatOf(mine[from + k - 1])]
        /\ \A t \in Range(Targets) :
             ~Usable(t) \/ Destination(t) \in Unwritable => exit = "error"

\* The exit status is success only if nothing was violated, or --strict is off,
\* and every report asked for was written.
ExitAgrees ==
    phase = "done" =>
        /\ exit = "ok" => /\ \A f \in DOMAIN outcome : ~outcome[f].err
                          /\ bad = {}
                          /\ flags.strict => Success(comps)
        /\ exit = "criteria" => flags.strict /\ ~Success(comps)

\* The command ends, with any number of workers but 0, also when some files
\* cannot be validated: every job gets its result (cmd/validate/input.go:168). With
\* --workers 0 it waits for ever (cmd/validate/input.go:174).
CommandEnds == (kind = "image" \/ DOMAIN busy # {}) ~> phase = "done"

\* Every document tells what the evaluations came to: all files, the totals, and, but for
\* the summary format, one verdict.
ReportTells == WholeReport /\ FormatsAgree /\ TotalsKept

\* A target or file that fails is told by the exit status and takes nothing from the others.
FailuresTold == OthersWritten /\ ExitAgrees
=============================================================================
