-------------------------- MODULE MCValidateImages --------------------------
(* Instances of ValidateImages for TLC. *)
EXTENDS ValidateImages

\* Everything is in order, and no rule fails at any time.
Clean == [ref |-> TRUE, access |-> TRUE, resolve |-> TRUE, sig |-> TRUE,
          attSig |-> TRUE, syntax |-> TRUE, atts |-> {1, NoTime}, input |-> TRUE,
          errs |-> {}, fails |-> {}]

\* One component for each way out of the pipeline, and two that differ in when
\* the rules of an evaluator fail.
MCWorlds ==
  { Clean,
    [Clean EXCEPT !.ref = FALSE],
    [Clean EXCEPT !.access = FALSE],
    [Clean EXCEPT !.resolve = FALSE],
    [Clean EXCEPT !.sig = FALSE],
    [Clean EXCEPT !.attSig = FALSE],
    [Clean EXCEPT !.syntax = FALSE],
    [Clean EXCEPT !.atts = {}],
    [Clean EXCEPT !.input = FALSE],
    [Clean EXCEPT !.errs = {2}],
    [Clean EXCEPT !.atts = {NoTime}, !.fails = {<<1, 3>>}],
    [Clean EXCEPT !.atts = {1, 2}, !.fails = {<<2, 1>>}] }

\* Components that differ in the times of their attestations, for the runs about time.
MCTimedWorlds ==
  { [Clean EXCEPT !.atts = {1, 2}], [Clean EXCEPT !.atts = {1}], [Clean EXCEPT !.attSig = FALSE],
    [Clean EXCEPT !.atts = {NoTime}], [Clean EXCEPT !.errs = {1}] }

MCTimes == 1..3
=============================================================================
