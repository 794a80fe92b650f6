------------------------------ MODULE Evaluator ------------------------------
(***************************************************************************)
(* One evaluator and one call of its Evaluate, once the sources are in its *)
(* work directory: which include and exclude criteria are in force         *)
(* (internal/evaluator/criteria.go), which packages conftest is asked to   *)
(* evaluate, and what becomes of the results that it returns               *)
(* (internal/evaluator/filters.go, conftest_evaluator.go).                 *)
(*                                                                         *)
(* The rules are selected twice: by package before conftest runs and by    *)
(* result afterwards. Both selections score the same criteria, but not     *)
(* with the same matchers.                                                 *)
(*                                                                         *)
(* A dotted name is the sequence of its parts. A list of results is a set: *)
(* Rego rules return sets, and the code only asks which results there are. *)
(* The resolver is IncludeExcludePolicyResolver, the one that              *)
(* NewConftestEvaluatorWithNamespace installs.                             *)
(***************************************************************************)
EXTENDS Integers, SequencesExt

CONSTANTS
  Policies,            \* the policies to consider, see PolicyType
  Target,              \* repository and digest of the image, NoKey where it has none
  Keys,                \* repositories and digests that a criterion may be for
  Namespace,           \* the namespaces that the command asks for
  Now,                 \* the policy's effective time
  EffectiveOnTimeout   \* how long effective_on is kept in the results

NoKey  == "none"  \* a criterion that is for every image
NoTime == 0       \* a time that is absent or that cannot be parsed
Unset  == ""      \* an empty string
NoCode == << >>   \* a result without a code in its metadata

\* The items of include and exclude lists: "*", "@c", "p", "p.*", "p.r", and ":t" after
\* those that name a package.
Name(parts)      == [col |-> Unset, parts |-> parts, term |-> Unset]
Collection(c)    == [col |-> c, parts |-> << >>, term |-> Unset]
WithTerm(n, t)   == [n EXCEPT !.term = t]
Wildcard         == Name(<<"*">>)
NoName           == Name(<< >>)

\* The types of what a policy consists of. A result of a rule has no criterion: that is
\* for the warnings that Evaluate adds.
Items == [col : STRING, parts : Seq(STRING), term : STRING] \ {NoName}
VolatileItem == [value : Items, key : Keys \cup {NoKey}, from : Nat, until : Nat]
Rule == [code : Seq(STRING), collections : SUBSET STRING, dependsOn : SUBSET Seq(STRING),
         effectiveOn : Nat, pipelineIntention : SUBSET STRING]
RawResult == [code : Seq(STRING), message : STRING, terms : SUBSET STRING, severity : STRING,
              effectiveOn : Nat, collections : SUBSET STRING, dependsOn : SUBSET Seq(STRING),
              criterion : {NoName}]
Answer == [Warnings : SUBSET RawResult, Failures : SUBSET RawResult,
           Exceptions : SUBSET RawResult, Skipped : SUBSET RawResult]

ASSUME EvaluatorAssumption ==
  /\ Now \in Nat \ {0} /\ EffectiveOnTimeout \in Nat /\ {Unset, "*"} \subseteq STRING
  /\ NoKey \notin Keys /\ {Target.repository, Target.digest} \subseteq Keys \cup {NoKey}

ASSUME PolicyAssumption ==
  \A p \in Policies :
    /\ p.include \in Seq(Items) /\ p.exclude \in Seq(Items)
    /\ p.volatileInclude \in Seq(VolatileItem) /\ p.volatileExclude \in Seq(VolatileItem)
    /\ p.global.include \in Seq(Items) /\ p.global.exclude \in Seq(Items)
    /\ p.global.collections \in Seq(STRING \ {Unset})
    /\ p.annotated \in Seq(Rule) /\ \A i \in DOMAIN p.annotated : Len(p.annotated[i].code) >= 2
    /\ p.bare \subseteq Seq(STRING) /\ \A c \in p.bare : Len(c) >= 2
    /\ \A ns \in DOMAIN p.answers : ns \in Seq(STRING) /\ p.answers[ns] \in Answer

VARIABLES
  policy,      \* input: criteria, rules, and what each package returns for the target
  pc,          \* where NewConftestEvaluatorWithNamespace or Evaluate is
  include,     \* the evaluator's include criteria
  exclude,     \* the evaluator's exclude criteria
  rules,       \* policyRules, by code
  pending,     \* runResults that are not processed yet
  missing,     \* missingIncludes
  total,       \* totalRules is not 0
  results,     \* the outcomes so far
  untrimmed    \* history: the outcomes before trim

vars == <<policy, pc, include, exclude, rules, pending, missing, total, results, untrimmed>>

-----------------------------------------------------------------------------
(* Criteria *)

\* Whether a volatile criterion is in force; a bound that is missing is Now.
InForce(v) ==
  /\ (IF v.from = NoTime THEN Now ELSE v.from) <= Now
  /\ (IF v.until = NoTime THEN Now ELSE v.until) >= Now

VolatileItems(volatile, key) ==
  LET items[k \in 0..Len(volatile)] ==
        IF k = 0 THEN << >>
        ELSE IF InForce(volatile[k]) /\ volatile[k].key = key
             THEN Append(items[k - 1], volatile[k].value) ELSE items[k - 1]
  IN  items[Len(volatile)]

\* The items of a source's config and the volatile ones.
CollectItems(items, volatile) ==
  [defaultItems |-> items \o VolatileItems(volatile, NoKey),
   digestItems |-> [k \in Keys |-> VolatileItems(volatile, k)]]

NoItems(c) == c.defaultItems = << >> /\ \A k \in Keys : c.digestItems[k] = << >>

AddItems(c, items) == [c EXCEPT !.defaultItems = @ \o items]

\* The criteria of the source, else those of the whole policy, else everything.
computeIncludeExclude(p) ==
  LET inc  == CollectItems(p.include, p.volatileInclude)
      exc  == CollectItems(p.exclude, p.volatileExclude)
      none == NoItems(inc) /\ NoItems(exc)
      cols == [i \in DOMAIN p.global.collections |-> Collection(p.global.collections[i])]
      inc2 == IF none THEN AddItems(inc, p.global.include \o cols) ELSE inc
      exc2 == IF none THEN AddItems(exc, p.global.exclude) ELSE exc
  IN  [include |-> IF NoItems(inc2) THEN AddItems(inc2, <<Wildcard>>) ELSE inc2,
       exclude |-> exc2]

\* Criteria.get: the items for the target's repository and digest, then the general ones.
ItemsFor(c, key) == IF key \in Keys THEN c.digestItems[key] ELSE << >>
Get(c) == ItemsFor(c, Target.repository) \o ItemsFor(c, Target.digest) \o c.defaultItems

AllItems(c) == ToSet(c.defaultItems) \cup UNION {ToSet(c.digestItems[k]) : k \in Keys}

-----------------------------------------------------------------------------
(* Scores *)

\* The dotted name of an item: the package and its depth, and the rule.
ScoreOfParts(parts) ==
  LET len == Len(parts) IN
  CASE parts = <<"*">>              -> 1
    [] len = 1 /\ parts # <<"*">>   -> 10
    [] len > 1                      -> (IF Front(parts) = <<"*">> THEN 1 ELSE 10 * (len - 1))
                                       + (IF Last(parts) \in {"*", Unset} THEN 0 ELSE 100)
    [] OTHER                        -> 0

LegacyScore(n) ==
  IF n.col # Unset THEN 10 ELSE (IF n.term # Unset THEN 100 ELSE 0) + ScoreOfParts(n.parts)

\* An item counts as often as it is listed.
LegacyScoreMatches(needles, haystack) ==
  LET score[k \in 0..Len(haystack)] ==
        IF k = 0 THEN 0
        ELSE score[k - 1] + IF haystack[k] \in needles THEN LegacyScore(haystack[k]) ELSE 0
  IN  score[Len(haystack)]

\* The package is the last but one part of the code, whatever is before it.
PackageMatchers(code) ==
  IF Len(code) < 2 THEN {}
  ELSE LET pkg == code[Len(code) - 1]
       IN  {Name(<<pkg>>), Name(<<pkg, "*">>), Name(<<pkg, Last(code)>>)}

\* Mutant: a rule is not matched by its collections.
createRuleMatchersByName(info) == PackageMatchers(info.code) \cup {Wildcard}

createRuleMatchers(info) ==
  PackageMatchers(info.code) \cup {Wildcard} \cup {Collection(c) : c \in info.collections}

LegacyMakeMatchers(r) ==
  PackageMatchers(r.code)
    \cup {WithTerm(n, t) : n \in PackageMatchers(r.code), t \in r.terms}
    \cup {Wildcard} \cup {Collection(c) : c \in r.collections}

LegacyIsResultIncluded(r) ==
  LegacyScoreMatches(LegacyMakeMatchers(r), Get(include))
    > LegacyScoreMatches(LegacyMakeMatchers(r), Get(exclude))

-----------------------------------------------------------------------------
(* The selection of packages *)

\* The rules without annotations are known by code only.
BareRule(code) ==
  [code |-> code, collections |-> {}, dependsOn |-> {}, effectiveOn |-> NoTime, pipelineIntention |-> {}]
AllRules == {rules[c] : c \in DOMAIN rules \ policy.bare} \cup {BareRule(c) : c \in policy.bare}

\* Mutant: the include list wins a tie.
IncludedRuleOnTie(info) ==
  LegacyScoreMatches(createRuleMatchers(info), Get(include))
    >= LegacyScoreMatches(createRuleMatchers(info), Get(exclude))

\* baseEvaluateRuleInclusion
IncludedRule(info) ==
  LET inc == LegacyScoreMatches(createRuleMatchers(info), Get(include))
      exc == LegacyScoreMatches(createRuleMatchers(info), Get(exclude))
  IN  \/ inc > exc
      \/ exc <= 0 /\ Get(include) \in {<< >>, <<Wildcard>>}

\* The first part of the code names the package here.
IncludedPackages == {<<info.code[1]>> : info \in {i \in AllRules : IncludedRule(i)}}

\* The namespaces that conftest evaluates; none selected and none asked for means all.
NamespacesToUse ==
  CASE IncludedPackages # {}                    -> IncludedPackages
    [] IncludedPackages = {} /\ Namespace # {}  -> Namespace
    [] OTHER                                    -> DOMAIN policy.answers

\* External: conftest returns what the rules of exactly the package `ns` return.
NoResults == [Warnings |-> {}, Failures |-> {}, Exceptions |-> {}, Skipped |-> {}]
Conftest(ns) ==
  LET a == IF ns \in DOMAIN policy.answers THEN policy.answers[ns] ELSE NoResults
  IN  [Namespace |-> ns, Warnings |-> a.Warnings, Failures |-> a.Failures,
       Exceptions |-> a.Exceptions, Skipped |-> a.Skipped, Successes |-> {}]

-----------------------------------------------------------------------------
(* The selection and the categories of results *)

\* What the rule's annotations add to a result that has a code.
addRuleMetadata(r) ==
  LET info == IF r.code \in DOMAIN rules THEN rules[r.code] ELSE BareRule(r.code)
      on   == IF info.effectiveOn # NoTime THEN info.effectiveOn ELSE r.effectiveOn
  IN  IF r.code = NoCode THEN r
      ELSE [r EXCEPT
              !.effectiveOn = IF on < Now - EffectiveOnTimeout THEN NoTime ELSE on,
              !.collections = IF info.collections # {} THEN info.collections ELSE @,
              !.dependsOn   = IF info.dependsOn # {} THEN info.dependsOn ELSE @]

WithMetadata(rs) == {addRuleMetadata(r) : r \in rs}

\* Mutant: only items that are for this very image are seen to match.
PrunedForImage(rs) ==
  UNION {LegacyMakeMatchers(r) \cap ToSet(ItemsFor(include, Target.digest)) : r \in rs}

\* FilterResults: the results that stay, and the include items that are seen to match.
KeptResults(rs) == {r \in rs : r.code = NoCode \/ LegacyIsResultIncluded(r)}
Pruned(rs) ==
  (UNION {LegacyMakeMatchers(r) \cap ToSet(Get(include)) : r \in {q \in rs : q.code # NoCode}})
    \cup (UNION {LegacyMakeMatchers(r) : r \in KeptResults(rs)})

getSeverity(r) == IF r.severity \in {"warning", "failure"} THEN r.severity ELSE Unset

isResultEffective(r) == r.effectiveOn = NoTime \/ r.effectiveOn < Now

\* The first category with a result like r, by code, else by message.
Categories == {"Warnings", "Failures", "Exceptions", "Skipped"}
FirstOf(cs) ==
  CASE "Warnings" \in cs -> "Warnings"
    [] "Failures" \in cs /\ "Warnings" \notin cs -> "Failures"
    [] "Exceptions" \in cs /\ cs \cap {"Warnings", "Failures"} = {} -> "Exceptions"
    [] OTHER -> "Skipped"
determineOriginalType(r, o) ==
  LET byCode    == {c \in Categories : r.code # NoCode /\ \E q \in o[c] : q.code = r.code}
      byMessage == {c \in Categories : \E q \in o[c] : q.message = r.message}
  IN  CASE byCode # {}                     -> FirstOf(byCode)
        [] byCode = {} /\ byMessage # {}   -> FirstOf(byMessage)
        [] OTHER -> IF r.effectiveOn # NoTime THEN "Failures" ELSE "unknown"

\* The category in which a result of the given type is reported.
Category(r, type) ==
  CASE type = "Warnings" -> IF getSeverity(r) = "failure" THEN "Failures" ELSE "Warnings"
    [] type = "Failures" -> IF getSeverity(r) = "warning" \/ ~isResultEffective(r)
                            THEN "Warnings" ELSE "Failures"
    [] type \in {"Exceptions", "Skipped"} -> type
    [] OTHER -> "Warnings"

\* Exceptions and skipped results are added once more, filtered or not.
CategorizeResults(kept, o) ==
  LET In(c) == {r \in kept : Category(r, determineOriginalType(r, o)) = c}
  IN  [o EXCEPT !.Warnings = In("Warnings"), !.Failures = In("Failures"),
                !.Exceptions = @ \cup In("Exceptions"), !.Skipped = @ \cup In("Skipped")]

Reported(o) == o.Failures \cup o.Warnings \cup o.Skipped \cup o.Exceptions
Codes(rs) == {r.code : r \in rs} \ {NoCode}

\* The rules of the outcome's package that no result is reported of.
SuccessResult(info) ==
  [code |-> info.code, message |-> "Pass", terms |-> {}, severity |-> Unset,
   effectiveOn |-> NoTime, collections |-> info.collections, dependsOn |-> info.dependsOn,
   criterion |-> NoName]
\* Mutant: skipped rules and exceptions are not seen.
UnseenFailing(o) ==
  {SuccessResult(rules[c]) : c \in {d \in DOMAIN rules \ Codes(o.Failures \cup o.Warnings) :
                                      Front(d) = o.Namespace}}
Unseen(o) == {SuccessResult(rules[c]) : c \in {d \in DOMAIN rules \ Codes(Reported(o)) :
                                                  Front(d) = o.Namespace}}
computeSuccesses(o) ==
  {[s EXCEPT !.effectiveOn = rules[s.code].effectiveOn] : s \in KeptResults(Unseen(o))}

\* trim: what only depends on reported rules goes.  The code appends a result once for
\* each dependency that is not reported; the sets here hold it once.
ReportedCodes(os) == UNION {Codes(o.Failures \cup o.Warnings \cup o.Skipped) : o \in os}
\* Mutant: the lookup is the wrong way round.
TrimmedUnreported(rs, reported) == {r \in rs : r.dependsOn = {} \/ r.dependsOn \cap reported # {}}
Trimmed(rs, reported) == {r \in rs : r.dependsOn = {} \/ ~(r.dependsOn \subseteq reported)}
trim(os) ==
  {[o EXCEPT !.Failures  = Trimmed(@, ReportedCodes(os)),
             !.Warnings  = Trimmed(@, ReportedCodes(os)),
             !.Skipped   = Trimmed(@, ReportedCodes(os)),
             !.Successes = Trimmed(@, ReportedCodes(os))] : o \in os}

-----------------------------------------------------------------------------
(* The steps of the evaluator *)

Init ==
  /\ policy \in Policies
  /\ pc = "new"
  /\ include = [defaultItems |-> << >>, digestItems |-> [k \in Keys |-> << >>]]
  /\ exclude = include
  /\ rules = << >>
  /\ pending = {} /\ missing = {} /\ total = FALSE
  /\ results = {} /\ untrimmed = {}

NewConftestEvaluator ==
  /\ pc = "new"
  /\ include' = computeIncludeExclude(policy).include
  /\ exclude' = computeIncludeExclude(policy).exclude
  /\ pc' = "collect"
  /\ UNCHANGED <<policy, rules, pending, missing, total, results, untrimmed>>

\* policyRules.collect for every annotated rule that has a short name.
Named == {i \in DOMAIN policy.annotated : Last(policy.annotated[i].code) # Unset}
SameCode == \E i, j \in Named : i # j /\ policy.annotated[i].code = policy.annotated[j].code

CollectRules ==
  /\ pc = "collect" /\ ~SameCode
  /\ rules' = [c \in {policy.annotated[i].code : i \in Named} |->
                 policy.annotated[CHOOSE i \in Named : policy.annotated[i].code = c]]
  /\ pc' = "run"
  /\ UNCHANGED <<policy, include, exclude, pending, missing, total, results, untrimmed>>

CollectFails ==
  /\ pc = "collect" /\ SameCode
  /\ pc' = "error"
  /\ UNCHANGED <<policy, include, exclude, rules, pending, missing, total, results, untrimmed>>

\* ResolvePolicy and the run of conftest on the packages that it selects.
Run ==
  /\ pc = "run"
  /\ pending' = {Conftest(ns) : ns \in NamespacesToUse}
  /\ missing' = AllItems(include)
  /\ pc' = "results"
  /\ UNCHANGED <<policy, include, exclude, rules, total, results, untrimmed>>

RunFails ==
  /\ pc = "run"
  /\ pc' = "error"
  /\ UNCHANGED <<policy, include, exclude, rules, pending, missing, total, results, untrimmed>>

\* What becomes of the results of one package: metadata, filter, categories, successes.
WithRuleMetadata(raw) ==
  [raw EXCEPT !.Warnings = WithMetadata(@), !.Failures = WithMetadata(@),
              !.Exceptions = WithMetadata(@), !.Skipped = WithMetadata(@)]
Filtered(raw) ==
  LET o == WithRuleMetadata(raw) IN CategorizeResults(KeptResults(Reported(o)), o)
Processed(raw) ==
  LET o == Filtered(raw) IN [o EXCEPT !.Successes = computeSuccesses(o)]
PrunedBy(raw) == Pruned(Reported(WithRuleMetadata(raw))) \cup Pruned(Unseen(Filtered(raw)))
Counted(o) == o.Warnings \cup o.Failures \cup o.Successes # {}

\* One turn of the loop over runResults; the order comes from a Go map.
ProcessResult(raw) ==
  /\ pc = "results" /\ raw \in pending
  /\ pending' = pending \ {raw}
  /\ missing' = missing \ PrunedBy(raw)
  /\ total' = (total \/ Counted(Processed(raw)))
  /\ results' = results \cup {Processed(raw)}
  /\ UNCHANGED <<policy, pc, include, exclude, rules, untrimmed>>

\* The warning that an include item matches nothing.
MissingInclude(n) ==
  [Namespace |-> << >>, Failures |-> {}, Exceptions |-> {}, Skipped |-> {}, Successes |-> {},
   Warnings |-> {[SuccessResult(BareRule(NoCode)) EXCEPT !.message = "missing", !.criterion = n]}]

ReportMissing ==
  /\ pc = "results" /\ pending = {}
  /\ results' = results \cup {MissingInclude(n) : n \in missing}
  /\ pc' = "trim"
  /\ UNCHANGED <<policy, include, exclude, rules, pending, missing, total, untrimmed>>

\* Mutant: nothing evaluated is as good as everything passed.
TrimWithoutCount ==
  /\ pc = "trim"
  /\ untrimmed' = results
  /\ results' = trim(results)
  /\ pc' = "done"
  /\ UNCHANGED <<policy, include, exclude, rules, pending, missing, total>>

Trim ==
  /\ pc = "trim"
  /\ untrimmed' = results
  /\ results' = trim(results)
  /\ pc' = IF total THEN "done" ELSE "error"
  /\ UNCHANGED <<policy, include, exclude, rules, pending, missing, total>>

Next ==
  \/ NewConftestEvaluator \/ CollectRules \/ CollectFails \/ Run \/ RunFails
  \/ \E raw \in pending : ProcessResult(raw)
  \/ ReportMissing \/ Trim

Spec == Init /\ [][Next]_vars

-----------------------------------------------------------------------------
(* Properties *)

TypeOK ==
  /\ pc \in {"new", "collect", "run", "results", "trim", "done", "error"}
  /\ \A c \in {include, exclude} :
       c \in [defaultItems : Seq(Items), digestItems : [Keys -> Seq(Items)]]
  /\ \A c \in DOMAIN rules : rules[c] \in Rule /\ rules[c].code = c /\ Last(c) # Unset
  /\ missing \subseteq AllItems(include)
  /\ total \in BOOLEAN
  /\ \A o \in pending \cup results \cup untrimmed : DOMAIN o = {"Namespace", "Successes"} \cup Categories

Coded(rs) == {r \in rs : r.code # NoCode}
All(c) == UNION {o[c] : o \in results}
AllReported == UNION {Reported(o) : o \in results}

\* What the rules of all packages return, evaluated or not, and what of it is a failure.
Raw(c) == UNION {policy.answers[ns][c] : ns \in DOMAIN policy.answers}
Returned(c) == WithMetadata(Raw(c))
FailuresOf(c) == {r \in Returned(c) : Category(r, c) = "Failures"}

(* What the code relies on and does not check. *)

\* Every rule is known by a code of its own, a package of one name and a short name.
PlainCodes ==
  /\ \A c \in DOMAIN rules \cup policy.bare : Len(c) = 2 /\ "*" \notin ToSet(c)
  /\ DOMAIN rules \cap policy.bare = {}

\* The results of a package have the codes of its rules.
OwnCodes ==
  \A ns \in DOMAIN policy.answers : \A c \in Categories : \A r \in Coded(policy.answers[ns][c]) :
    Front(r.code) = ns

\* They are results of rules that OPA's inspection found, and only annotations say what
\* the collections of a rule are.
KnownResults ==
  \A c \in Categories : \A r \in Coded(Raw(c)) :
    r.code \in DOMAIN rules \cup policy.bare /\ r.collections = {}

\* All results of a rule are of one category.
OneCategory ==
  \A ns \in DOMAIN policy.answers : \A c, d \in Categories :
    c # d => Codes(policy.answers[ns][c]) \cap Codes(policy.answers[ns][d]) = {}

\* An include item without a term; the package of a result that only such an item
\* includes is not evaluated.
NoIncludeTerms == \A n \in ToSet(Get(include)) : n.term = Unset

\* Only annotations say what a rule depends on, and no rule depends on itself, directly or
\* not: rules that do trim each other away.
Acyclic ==
  /\ \A c \in Categories : \A r \in Raw(c) : r.dependsOn = {}
  /\ \E rank \in [DOMAIN rules -> 0..Len(policy.annotated)] :
       \A c \in DOMAIN rules : \A d \in rules[c].dependsOn \cap DOMAIN rules : rank[d] < rank[c]

\* The failures that Evaluate reports are those that the rules return and that the
\* criteria include by their score: no package with such a failure was left out of the
\* run, none got another category, and nothing else became a failure.
FailuresExact ==
  pc = "trim" /\ PlainCodes /\ OwnCodes /\ KnownResults /\ OneCategory /\ NoIncludeTerms =>
    Coded(All("Failures"))
      = {r \in Coded(FailuresOf("Failures") \cup FailuresOf("Warnings")) : LegacyIsResultIncluded(r)}

\* Every annotated rule that the criteria include is answered for: it is reported, or it
\* is a success, and never both; a rule that they exclude is no success.
AnsweredOnce ==
  pc = "trim" /\ PlainCodes /\ OwnCodes =>
    \A c \in DOMAIN rules :
      LET success == c \in Codes(All("Successes"))
      IN  IF LegacyIsResultIncluded(SuccessResult(rules[c]))
          THEN success <=> c \notin Codes(AllReported)
          ELSE ~success

\* The selection before the run and the selection after it agree on every rule: its
\* package is selected for it if and only if its success would be kept. They do not where
\* all include items are for other images: then every package is evaluated by default,
\* and nothing that it returns is kept.
SameSelection ==
  pc \notin {"new", "collect"} /\ Get(include) # << >> =>
    \A c \in DOMAIN rules \ policy.bare :
      IncludedRule(rules[c]) <=> LegacyIsResultIncluded(SuccessResult(rules[c]))

\* A rule that the include list names is answered for whatever the exclude list says of
\* its package, its collections or all packages, as long as these are fewer than eleven.
RuleBeatsPackage ==
  pc = "trim" /\ PlainCodes =>
    \A c \in DOMAIN rules :
      LET named == Name(<<c[1], c[2]>>)
      IN  (/\ named \in ToSet(Get(include))
           /\ named \notin ToSet(Get(exclude))
           /\ Len(Get(exclude)) < 11)
          => c \in Codes(All("Successes") \cup AllReported)

\* An include item that matches something in the results is never reported as missing,
\* unless it is for another image and matches no more than an exception or a skipped rule
\* that the criteria exclude; one that matches no rule and nothing that the rules return
\* always is.
MissingExact ==
  pc = "trim" =>
    LET kept  == Coded(All("Failures") \cup All("Warnings") \cup All("Successes"))
        shown == (UNION {LegacyMakeMatchers(r) : r \in kept})
                   \cup (UNION {LegacyMakeMatchers(r) \cap ToSet(Get(include)) : r \in Coded(AllReported)})
        noted == {r.criterion : r \in All("Warnings")} \ {NoName}
        some  == (UNION {createRuleMatchers(rules[c]) : c \in DOMAIN rules})
                   \cup (UNION {LegacyMakeMatchers(r) : r \in UNION {Returned(c) : c \in Categories}})
    IN  shown \cap noted = {} /\ AllItems(include) \ some \subseteq noted

\* The reported code of a result that trim removed is explained: going from dependency
\* to dependency one comes to a code that is still reported.
TrimLeavesCause ==
  pc = "done" /\ Acyclic =>
    LET codes == DOMAIN rules \cup ReportedCodes(untrimmed)
        DependsOn(c) == IF c \in DOMAIN rules THEN rules[c].dependsOn ELSE {}
    IN  \A r \in (UNION {Reported(o) : o \in untrimmed}) \ AllReported :
          \A closed \in SUBSET codes :
            (r.dependsOn \subseteq closed /\ \A c \in closed : DependsOn(c) \cap codes \subseteq closed)
            => closed \cap ReportedCodes(results) # {}

\* Evaluate returns without an error only if something that the policy selects was
\* evaluated, and that, or a rule it depends on, is still in its results.
NotVacuous ==
  pc = "done" /\ Acyclic =>
    \E r \in UNION {All(c) : c \in {"Failures", "Warnings", "Skipped", "Successes"}} :
      r.criterion = NoName

\* What the include and exclude lists select is one thing, whichever of the two
\* selections is asked, and a rule's own name decides over that of its package.
SelectionSound == SameSelection /\ RuleBeatsPackage
==============================================================================
