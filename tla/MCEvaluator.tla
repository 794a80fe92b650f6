----------------------------- MODULE MCEvaluator -----------------------------
(* Instances of Evaluator for TLC. *)
EXTENDS PolicyFilters

MCTarget == [repository |-> "repo", digest |-> "digest"]

Info(code, cols, deps, on) ==
  [code |-> code, collections |-> cols, dependsOn |-> deps, effectiveOn |-> on, pipelineIntention |-> {}]

RawOf(code, message, terms, severity) ==
  [code |-> code, message |-> message, terms |-> terms, severity |-> severity,
   effectiveOn |-> NoTime, collections |-> {}, dependsOn |-> {}, criterion |-> NoName]

R1 == <<"p", "r1">>
R2 == <<"p", "r2">>
R3 == <<"q", "r3">>
P  == Name(<<"p">>)
Q  == Name(<<"q">>)
C  == Collection("c")

Volatile(n, key, from, until) == [value |-> n, key |-> key, from |-> from, until |-> until]

NoGlobal == [include |-> << >>, exclude |-> << >>, collections |-> << >>]

Policy(inc, exc, vinc, vexc, global, annotated, bare, answers) ==
  [include |-> inc, exclude |-> exc, volatileInclude |-> vinc, volatileExclude |-> vexc,
   global |-> global, annotated |-> annotated, bare |-> bare, answers |-> answers,
   ruleData |-> [kind |-> "none", items |-> {}]]

\* r1 denies, r2 warns and depends on r1, r3 denies from some day on and depends on r2.
RuleList(on) == <<Info(R1, {"c"}, {}, NoTime), Info(R2, {}, {R1}, NoTime), Info(R3, {"c"}, {R2}, on)>>

AnswersP ==
  {NoResults,
   [NoResults EXCEPT !.Failures = {RawOf(R1, "a", {"t"}, ""), RawOf(R1, "b", {}, "")}],
   [NoResults EXCEPT !.Failures = {RawOf(R1, "a", {"t"}, "warning")},
                     !.Warnings = {RawOf(R2, "c", {}, "failure"), RawOf(R2, "d", {"t"}, "other")}],
   [NoResults EXCEPT !.Warnings = {RawOf(R2, "c", {}, "")}, !.Skipped = {RawOf(R1, "a", {}, "")}]}

AnswersQ ==
  {NoResults,
   [NoResults EXCEPT !.Failures = {RawOf(R3, "e", {}, ""), RawOf(NoCode, "f", {}, "")}],
   [NoResults EXCEPT !.Exceptions = {RawOf(R3, "e", {}, "")}]}

PQ == {[ns \in {<<"p">>, <<"q">>} |-> IF ns = <<"p">> THEN a ELSE b] : a \in AnswersP, b \in AnswersQ}

Includes ==
  {<< >>, <<Wildcard>>, <<P>>, <<C>>, <<C, Q>>, <<Name(R1)>>, <<Wildcard, Name(R2)>>,
   <<P, Name(<<"p", "*">>), Name(<<"x">>)>>}
Excludes ==
  {<< >>, <<P>>, <<Wildcard>>, <<C>>, <<Name(<<"p", "*">>), P>>, <<Name(R1)>>,
   <<WithTerm(Name(R1), "t")>>, <<Name(<<"q", "*">>), WithTerm(P, "t")>>}

\* Criteria, with one list of rules.
ByCriteria ==
  {Policy(inc, exc, << >>, << >>, NoGlobal, RuleList(Now), {<<"q", "deny">>}, a) :
     inc \in Includes, exc \in Excludes, a \in PQ}

\* The volatile criteria around their bounds, and the criteria of the whole policy.
Times == {NoTime, Now - 1, Now, Now + 1}
ByTime ==
  {Policy(<< >>, << >>, vinc, <<Volatile(P, key, from, until)>>,
          [include |-> <<Q>>, exclude |-> << >>, collections |-> <<"c">>], RuleList(on),
          {<<"q", "deny">>}, a) :
     vinc \in {<< >>, <<Volatile(Wildcard, NoKey, NoTime, NoTime)>>, <<Volatile(P, "other", NoTime, NoTime)>>},
     key \in {NoKey, "repo", "digest", "other"}, from \in Times, until \in Times,
     on \in {Now - 1, Now + 1}, a \in {b \in PQ : b[<<"p">>] # NoResults /\ b[<<"q">>].Failures # {}}}

SecondRule == {Policy(<< >>, << >>, << >>, << >>, NoGlobal, Append(RuleList(Now), Info(R1, {}, {}, NoTime)),
                      {}, a) : a \in PQ}

\* Rules for some pipelines only, and what a source may say of its pipeline: nothing, a
\* name, names among other values, nothing but other values.
Intended(info, names) == [info EXCEPT !.pipelineIntention = names]
IntendedRules ==
  {<<Intended(Info(R1, {"c"}, {}, NoTime), one), Intended(Info(R2, {}, {R1}, NoTime), two),
     Info(R3, {"c"}, {R2}, NoTime)>> : one \in {{}, {"release"}}, two \in {{"release", "build"}, {"build"}}}
Datum(type, value) == [type |-> type, value |-> value]
RuleData ==
  {[kind |-> "malformed", items |-> {}], [kind |-> "string", items |-> {Datum("string", "release")}],
   [kind |-> "list", items |-> {Datum("string", "build"), Datum("number", "1")}],
   [kind |-> "list", items |-> {Datum("number", "1")}],
   [kind |-> "number", items |-> {Datum("number", "1")}]}
ByIntention ==
  {[Policy(inc, exc, << >>, << >>, NoGlobal, annotated, {<<"q", "deny">>}, a) EXCEPT !.ruleData = data] :
     inc \in Includes, exc \in {<< >>, <<C>>, <<Name(R1)>>, <<WithTerm(Name(R1), "t")>>},
     annotated \in IntendedRules, data \in RuleData,
     a \in {b \in PQ : b[<<"p">>].Failures # {} /\ b[<<"q">>] # NoResults}}

\* r3 depends on two rules, of which one, both or none is reported.
TwoDependencies ==
  {Policy(inc, << >>, << >>, << >>, NoGlobal,
          <<Info(R1, {"c"}, {}, NoTime), Info(R2, {}, {}, NoTime), Info(R3, {"c"}, {R1, R2}, Now)>>, {}, a) :
     inc \in {<< >>, <<Wildcard>>, <<C>>}, a \in PQ}

MCPolicies == ByCriteria \cup ByTime \cup SecondRule \cup ByIntention \cup TwoDependencies
==============================================================================
