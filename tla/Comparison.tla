----------------------------- MODULE Comparison -----------------------------
(***************************************************************************)
(* compare_runs and evaluate_gate.  A run is the sequence of its case      *)
(* results [id, slice, passed, forbidden]: hidden_success, and whether the *)
(* forbidden_file_modification evaluator failed.  The code computes rates  *)
(* and deltas as floats; here they are the fractions                       *)
(* <<numerator, denominator>> that those round, and what rounding can do   *)
(* to a comparison with a limit is in Exceeds.  The bootstrap interval and *)
(* the explanations decide nothing and are left out.                       *)
(***************************************************************************)
EXTENDS Integers, Sequences, FiniteSets, SequencesExt

CONSTANTS
    Null,           \* None
    Resolution      \* floats order two fractions that are 1/Resolution apart

ASSUME ResolutionAssumption == Resolution \in Nat \ {0}

Less(a, b) == a[1] * b[2] < b[1] * a[2]
Minus(a, b) == <<a[1] * b[2] - b[1] * a[2], a[2] * b[2]>>
Negative(a) == <<-a[1], a[2]>>
Rate(n, d) == IF d = 0 THEN <<0, 1>> ELSE <<n, d>>

Ids(run) == {run[i].id : i \in DOMAIN run}

(* The dictionary by case_id: the last of several results stays. *)
ById(run, id) == run[CHOOSE i \in DOMAIN run :
    run[i].id = id /\ \A k \in DOMAIN run : run[k].id = id => k <= i]

(* ClassifyByBaseline forgets to look at the candidate of a passing case.  *)
ClassifyByBaseline(base, cand) ==
    IF base THEN "unchanged_pass" ELSE IF cand THEN "improved" ELSE "unchanged_fail"
Classify(base, cand) ==
    CASE cand /\ ~base -> "improved"
      [] base /\ ~cand -> "regressed"
      [] base /\ cand -> "unchanged_pass"
      [] OTHER -> "unchanged_fail"

(* _slice_comparisons and the aggregate: pass rates over a set of pairs. *)
PassRate(run, ids) ==
    Rate(Cardinality({id \in ids : ById(run, id).passed}), Cardinality(ids))

ForbiddenRate(run) ==
    Rate(Cardinality({i \in DOMAIN run : run[i].forbidden}), Len(run))

CompareRuns(baseline, candidate) ==
    LET paired == Ids(baseline) \cap Ids(candidate)
        class(id) == Classify(ById(baseline, id).passed, ById(candidate, id).passed)
        classed(c) == {id \in paired : class(id) = c}
        slices == {ById(baseline, id).slice : id \in paired}
        members(s) == {id \in paired : ById(baseline, id).slice = s}
        delta(ids) == Minus(PassRate(candidate, ids), PassRate(baseline, ids))
    IN [paired |-> Cardinality(paired),
        missing |-> (Ids(baseline) \cup Ids(candidate)) \ paired,
        delta |-> Rate(Cardinality(classed("improved")) - Cardinality(classed("regressed")),
                       Cardinality(paired)),
        improved |-> classed("improved"), regressed |-> classed("regressed"),
        unchangedPasses |-> Cardinality(classed("unchanged_pass")),
        unchangedFailures |-> Cardinality(classed("unchanged_fail")),
        slices |-> [s \in slices |->
                      [paired |-> Cardinality(members(s)), delta |-> delta(members(s))]],
        forbidden |-> Minus(ForbiddenRate(candidate), ForbiddenRate(baseline)),
        limited |-> Cardinality(paired) < 30]

-----------------------------------------------------------------------------
(* A policy: [minimum, hidden, forbidden, slices]; a rule is Null or        *)
(* [limit, severity].                                                       *)

Verdict(rule) == IF rule.severity = "blocking" THEN "BLOCK" ELSE "WARN"

(* The strict comparison of a float with a limit.  Two fractions that are   *)
(* not Apart may come out either way, rounded: 0.7 - 0.8 < -0.1, for one.   *)
(* Division and parsing round to the nearest float and so keep the order of *)
(* what they round, which is all there is in an exact comparison.           *)
Apart(a, b) ==
    LET d == Minus(a, b) IN d[2] < d[1] * Resolution \/ d[2] < (-d[1]) * Resolution
(* ExceedsOrMeets takes a value at the limit for one beyond it. *)
ExceedsOrMeets(a, limit, exact, rounded) == ~Less(a, limit)
Exceeds(a, limit, exact, rounded) ==
    IF Apart(a, limit) THEN Less(limit, a) ELSE rounded /\ (exact => Less(limit, a))

(* The aggregate delta is one division.  The others subtract two rates; a   *)
(* limit of zero compares the rates themselves.                             *)
HiddenDropped(c, policy, rounded) ==
    /\ policy.hidden # Null
    /\ Exceeds(Negative(c.delta), policy.hidden.limit, TRUE,
               <<"run", "hidden">> \in rounded)
ForbiddenRose(c, policy, rounded) ==
    /\ policy.forbidden # Null
    /\ Exceeds(c.forbidden, policy.forbidden.limit, policy.forbidden.limit[1] = 0,
               <<"run", "forbidden">> \in rounded)
SliceDropped(c, policy, rounded, s) ==
    LET rule == policy.slices[s] IN
    /\ rule # Null
    /\ Exceeds(Negative(c.slices[s].delta), rule.limit, rule.limit[1] = 0,
               <<"slice", s>> \in rounded)

(* compare_runs always reports forbidden_modification_rate, so the finding  *)
(* for a comparison without it does not arise.                              *)
Findings(c, policy, rounded) ==
    (IF c.paired < policy.minimum THEN {"INCONCLUSIVE"} ELSE {})
    \cup (IF HiddenDropped(c, policy, rounded) THEN {Verdict(policy.hidden)} ELSE {})
    \cup (IF ForbiddenRose(c, policy, rounded) THEN {Verdict(policy.forbidden)} ELSE {})
    \cup {"INCONCLUSIVE" : s \in DOMAIN policy.slices \ DOMAIN c.slices}
    \cup {Verdict(policy.slices[s]) : s \in
            {s \in DOMAIN policy.slices \cap DOMAIN c.slices :
                SliceDropped(c, policy, rounded, s)}}

(* OutcomeInconclusiveFirst lets thin evidence hide a blocking finding. *)
OutcomeInconclusiveFirst(findings) ==
    CASE "INCONCLUSIVE" \in findings -> "INCONCLUSIVE"
      [] "BLOCK" \in findings -> "BLOCK"
      [] "WARN" \in findings -> "WARN"
      [] OTHER -> "PASS"
Outcome(findings) ==
    CASE "BLOCK" \in findings -> "BLOCK"
      [] "BLOCK" \notin findings /\ "INCONCLUSIVE" \in findings -> "INCONCLUSIVE"
      [] findings = {"WARN"} -> "WARN"
      [] OTHER -> "PASS"

EvaluateGate(c, policy, rounded) == Outcome(Findings(c, policy, rounded))

(* The gate command: the exit status a release pipeline sees. *)
GateExit(decision) == IF decision \in {"BLOCK", "INCONCLUSIVE"} THEN 1 ELSE 0
=============================================================================
