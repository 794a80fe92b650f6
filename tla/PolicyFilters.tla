---------------------------- MODULE PolicyFilters ----------------------------
(***************************************************************************)
(* The other implementations of the interfaces of                          *)
(* internal/evaluator/filters.go that exported constructors offer beside   *)
(* the two that Evaluate uses: ECPolicyResolver, which looks at pipeline   *)
(* intentions, the package filters with their factories, the branch of     *)
(* UnifiedPostEvaluationFilter for an ECPolicyResolver, and                *)
(* LegacyPostEvaluationFilter.                                             *)
(*                                                                         *)
(* They are functions of the criteria, the rules and the results that an   *)
(* evaluator holds, so they are operators over the state of Evaluator, and *)
(* the properties compare them with each other where both are in use.      *)
(***************************************************************************)
EXTENDS Evaluator

\* The strings at pipeline_intention in the source's ruleData.
extractStringArrayFromRuleData(data) ==
  IF data.kind \in {"string", "list"}
  THEN {i.value : i \in {j \in data.items : j.type = "string"}} ELSE {}
Intentions == extractStringArrayFromRuleData(policy.ruleData)

\* The rules by the first part of their code.
Packages == {info.code[1] : info \in AllRules}
RulesOf(pkg) == {info \in AllRules : info.code[1] = pkg}

-----------------------------------------------------------------------------
(* ECPolicyResolver *)

\* Without an intention no rule of the package may have one; else one must have it.
matchesPipelineIntention(infos) ==
  IF Intentions = {} THEN \A i \in infos : i.pipelineIntention = {}
  ELSE \E i \in infos : i.pipelineIntention \cap Intentions # {}

\* Mutant: a rule is judged by its own intentions, not by those of its package.
ECRulesOfOwnIntention(pkg) ==
  {i \in RulesOf(pkg) : matchesPipelineIntention({i}) /\ IncludedRule(i)}

\* processPackage: IncludedRules of one package.
ECRulesOf(pkg) ==
  {i \in RulesOf(pkg) : matchesPipelineIntention(RulesOf(pkg)) /\ IncludedRule(i)}

\* ResolvePolicy: the codes in IncludedRules, IncludedPackages and MissingIncludes.
ECIncludedRules == UNION {{i.code : i \in ECRulesOf(pkg)} : pkg \in Packages}
ECIncludedPackages == {pkg \in Packages : ECRulesOf(pkg) # {}}
ECMissingIncludes ==
  ToSet(Get(include)) \ UNION {createRuleMatchers(i) :
    i \in UNION {RulesOf(pkg) : pkg \in {q \in Packages : matchesPipelineIntention(RulesOf(q))}}}

-----------------------------------------------------------------------------
(* Filters of packages *)

\* PipelineIntentionFilter.Include
PipelineIntentionFilter(pkg) ==
  LET named == UNION {i.pipelineIntention : i \in RulesOf(pkg)}
  IN  IF Intentions = {} THEN named = {} ELSE named \cap Intentions # {}

\* IncludeListFilter.Include: the package itself, a collection of one of its rules, or
\* a name whose first of several parts it is.
IncludeListFilter(pkg) ==
  \E entry \in ToSet(policy.include) :
    \/ entry = Name(<<pkg>>)
    \/ \E i \in RulesOf(pkg) : entry.col \in i.collections
    \/ Len(entry.parts) > 1 /\ entry.parts[1] = pkg

\* CreateFilters of the two factories: the filters that apply to a source.
IncludeFilterFactory(pkg) == policy.include # << >> => IncludeListFilter(pkg)
DefaultFilterFactory(pkg) == PipelineIntentionFilter(pkg) /\ IncludeFilterFactory(pkg)

\* NamespaceFilter.Filter: the packages that all filters of a factory let through.
DefaultNamespaceFilter == {pkg \in Packages : DefaultFilterFactory(pkg)}
IncludeNamespaceFilter == {pkg \in Packages : IncludeFilterFactory(pkg)}

-----------------------------------------------------------------------------
(* Filters of results *)

\* UnifiedPostEvaluationFilter.FilterResults with an ECPolicyResolver.
ECKeptResults(rs) == {r \in rs : r.code = NoCode \/ r.code \in ECIncludedRules}

\* LegacyPostEvaluationFilter.FilterResults: also results without a code are scored.
LegacyKeptResults(rs) == {r \in rs : LegacyIsResultIncluded(r)}

\* LegacyPostEvaluationFilter.CategorizeResults: a failure with the code wins over a
\* warning with it, exceptions and skipped results become warnings as well.
LegacyOriginalType(r, o) ==
  CASE \E q \in o.Failures : q.code = r.code -> "Failures"
    [] /\ \E q \in o.Warnings : q.code = r.code
       /\ \A q \in o.Failures : q.code # r.code -> "Warnings"
    [] OTHER -> "unknown"
LegacyCategorizeResults(kept, o) ==
  LET In(c) == {r \in kept : Category(r, LegacyOriginalType(r, o)) = c}
  IN  [o EXCEPT !.Warnings = In("Warnings"), !.Failures = In("Failures")]

-----------------------------------------------------------------------------
(* Properties *)

NoTerms == \A n \in ToSet(Get(include)) \cup ToSet(Get(exclude)) : n.term = Unset

\* The results of the run that are not processed yet, with their metadata.
Unprocessed == {WithRuleMetadata(raw) : raw \in pending}

\* Pipeline intentions only take whole packages away: as long as no criterion has a term
\* and one of the include items is for the image, ECPolicyResolver keeps a result of a
\* known rule exactly if the evaluator's own filter keeps it and the package of the rule is
\* meant for the pipeline; and it calls no include item missing that a result it keeps
\* matches.
IntentionsNarrow ==
  PlainCodes /\ KnownResults /\ NoTerms /\ Get(include) # << >> =>
    \A o \in Unprocessed : \A r \in Coded(Reported(o)) :
      /\ r \in ECKeptResults({r}) <=> r \in KeptResults({r}) /\ PipelineIntentionFilter(r.code[1])
      /\ r \in ECKeptResults({r}) => LegacyMakeMatchers(r) \cap ECMissingIncludes = {}

\* No package that a resolver selects by the source's include list is lost by the package
\* filters made for that source, unless the list has the wildcard, which they do not know.
FiltersKeepSelected ==
  (pc \notin {"new", "collect"} /\ policy.volatileInclude = << >>
    /\ Wildcard \notin ToSet(policy.include) /\ (\A i \in AllRules : Len(i.code) = 2))
  => /\ ECIncludedPackages \subseteq DefaultNamespaceFilter
     /\ IncludedPackages \subseteq {<<pkg>> : pkg \in IncludeNamespaceFilter}

\* The legacy filter and the unified one report the same failures of rules with a code,
\* as long as no code is both a failure and a warning.
LegacySameFailures ==
  \A o \in Unprocessed :
    Codes(o.Failures) \cap Codes(o.Warnings) = {} =>
      Coded(LegacyCategorizeResults(LegacyKeptResults(Reported(o)), o).Failures)
        = Coded(CategorizeResults(KeptResults(Reported(o)), o).Failures)

\* The resolvers and filters that exported constructors offer beside those that Evaluate
\* uses (filters.go) differ from them only in the pipeline intentions.
FiltersAgree == IntentionsNarrow /\ FiltersKeepSelected /\ LegacySameFailures
==============================================================================
