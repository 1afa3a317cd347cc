---------------------------- MODULE MCEvaluation ----------------------------
(***************************************************************************)
(* A small instance of Evaluation, and compare_runs and evaluate_gate on   *)
(* every pair of small runs and every policy of a small set.  A release    *)
(* question is asked of the initial state: it shares nothing with a run    *)
(* that is under way.                                                      *)
(***************************************************************************)
EXTENDS Evaluation, Comparison, TLC

CONSTANT NoQuestion

VARIABLES question, decision

decisionVars == <<question, decision>>

-----------------------------------------------------------------------------
(* The evaluation instance. *)

Plain == [expectedTools |-> {"read_file", "apply_patch", "run_tests"},
          forbiddenTools |-> {}, expectedFiles |-> {"app.py"},
          forbiddenFiles |-> {"test_app.py"}]
Strict == [Plain EXCEPT !.forbiddenTools = {"search_code"},
                        !.forbiddenFiles = {"app.py"}]
ThreeCases == <<Plain, Strict, Plain>>

AllEvaluators ==
    {"public_test_success", "hidden_test_success", "expected_tool_usage",
     "forbidden_tool_usage", "expected_file_modification",
     "forbidden_file_modification", "patch_scope_score",
     "test_weakening_detection", "execution_success", "execution_duration",
     "composite_score"}

(* Every pair of test executions, and one trial of every other kind. *)
Timely == {e \in Executions : ~e.timeout}
Late == [exit |-> 1, printed |-> FALSE, timeout |-> TRUE]
Tested(public, hidden, changed, slow) ==
    [kind |-> "tested", public |-> public, hidden |-> hidden,
     changed |-> changed, slow |-> slow]
Clean == [exit |-> 0, printed |-> FALSE, timeout |-> FALSE]
SmallTrials ==
    {Tested(e, f, TRUE, FALSE) : e \in Timely, f \in Timely}
    \cup {Tested(Clean, Late, TRUE, TRUE), Tested(Clean, Clean, FALSE, FALSE),
          Rejected, ModelError}

-----------------------------------------------------------------------------
(* The release questions: baselines of up to two results, candidates of up  *)
(* to three, with repeated, missing and added case ids.                     *)

CaseIds == {"x", "y", "z"}
SliceOf(id) == IF id = "z" THEN "critical" ELSE "general"
CaseResult(id, passed, forbidden) ==
    [id |-> id, slice |-> SliceOf(id), passed |-> passed, forbidden |-> forbidden]
Baselines ==
    {<<>>} \cup UNION {[1..n -> {CaseResult(id, b, FALSE) : id \in CaseIds, b \in BOOLEAN}]
                       : n \in 1..2}
Candidates ==
    UNION {{[i \in 1..n |-> CaseResult(ids[i], i \in good, i \in bad)] :
              ids \in [1..n -> CaseIds], good \in SUBSET (1..n), bad \in {{}, {1}}}
           : n \in 0..3}

Rule(n, d, severity) == [limit |-> <<n, d>>, severity |-> severity]
Policies ==
    {[minimum |-> m, hidden |-> h, forbidden |-> Rule(0, 1, "blocking"), slices |-> s] :
        m \in {0, 2},
        h \in {Null, Rule(1, 2, "warning"), Rule(1, 2, "blocking")},
        s \in {<<>>, "critical" :> Rule(0, 1, "blocking"),
               "general" :> Rule(1, 2, "blocking")}}

(* The comparisons of a policy, and which of them rounding may decide. *)
Scopes(p) ==
    {<<"run", "hidden">>, <<"run", "forbidden">>} \cup {<<"slice", s>> : s \in DOMAIN p.slices}
Roundings(p) == {{}, {<<"run", "hidden">>}, Scopes(p)}

Ask ==
    /\ question = NoQuestion
    /\ \E b \in Baselines, c \in Candidates, p \in Policies :
         \E rounded \in Roundings(p) :
         /\ question' = [baseline |-> b, candidate |-> c, policy |-> p]
         /\ decision' = LET cmp == CompareRuns(b, c) IN
                        [comparison |-> cmp, outcome |-> EvaluateGate(cmp, p, rounded)]

ReleaseInit == Init /\ question = NoQuestion /\ decision = NoQuestion

EngineStep == question = NoQuestion /\ Next /\ UNCHANGED decisionVars
ReleaseStep == Init /\ Ask /\ UNCHANGED vars

ReleaseSpec ==
    /\ ReleaseInit
    /\ [][EngineStep \/ ReleaseStep]_<<vars, decisionVars>>
    /\ WF_vars(Gather /\ EngineStep)
    /\ \A p \in Positions :
         /\ WF_vars(StartCase(p) /\ EngineStep)
         /\ WF_vars((FinishCase(p) \/ RaiseCase(p)) /\ EngineStep)

-----------------------------------------------------------------------------
(* What the question says, straight from the two runs. *)

Asked == question # NoQuestion

(* The result that counts for a case id: its last one. *)
LastOf(run, id) ==
    LET mine == {i \in DOMAIN run : run[i].id = id}
    IN run[CHOOSE i \in mine : \A k \in mine : k <= i]
Paired == Ids(question.baseline) \cap Ids(question.candidate)
Passing(run, ids) == Cardinality({id \in ids : LastOf(run, id).passed})
Lost(ids) == Passing(question.baseline, ids) - Passing(question.candidate, ids)
SliceIn(id) == LastOf(question.baseline, id).slice
InSlice(s) == {id \in Paired : SliceIn(id) = s}

(* The drop over a set of pairs and the growth of the share of results with *)
(* a forbidden modification, as fractions.  No cases at all count as one    *)
(* that did not change.                                                     *)
Drop(ids) == <<Lost(ids), IF ids = {} THEN 1 ELSE Cardinality(ids)>>
Growth ==
    LET bad(run) == Cardinality({i \in DOMAIN run : run[i].forbidden})
        size(run) == IF run = <<>> THEN 1 ELSE Len(run)
        b == question.baseline
        c == question.candidate
    IN <<bad(c) * size(b) - bad(b) * size(c), size(c) * size(b)>>

(* Does a fraction x go over the limit of a rule: at all, by more than      *)
(* 1/Resolution, or with less than that to go?                              *)
Over(x, rule) == rule # Null /\ x[1] * rule.limit[2] > rule.limit[1] * x[2]
WellOver(x, rule) ==
    /\ rule # Null
    /\ (x[1] * rule.limit[2] - rule.limit[1] * x[2]) * Resolution > x[2] * rule.limit[2]
NearlyOver(x, rule) ==
    /\ rule # Null
    /\ (rule.limit[1] * x[2] - x[1] * rule.limit[2]) * Resolution <= x[2] * rule.limit[2]
MayBeOver(x, rule) ==
    IF rule # Null /\ rule.limit[1] = 0 THEN Over(x, rule) ELSE NearlyOver(x, rule)

(* The comparison accounts for every case id once: the four classes add up  *)
(* to the pairs, pairs and missing ids to all ids, and the slice deltas,    *)
(* weighted by their pairs, to the aggregate delta (as fractions: the       *)
(* floats of the report round them).                                        *)
ComparisonAddsUp ==
    LET c == decision.comparison IN
    /\ c.paired = Cardinality(c.improved) + Cardinality(c.regressed)
                    + c.unchangedPasses + c.unchangedFailures
    /\ c.missing \cup Paired = Ids(question.baseline) \cup Ids(question.candidate)
    /\ c.missing \cap Paired = {}
    /\ c.delta[1] * Cardinality(Paired) = -Lost(Paired) * c.delta[2]
    /\ DOMAIN c.slices = {SliceIn(id) : id \in Paired}
    /\ \A s \in DOMAIN c.slices :
         c.slices[s].delta[1] * c.slices[s].paired = -Lost(InSlice(s)) * c.slices[s].delta[2]

(* The gate blocks when a blocking rule is broken by more than rounding can *)
(* hide, however thin the evidence is.  It never blocks unless some         *)
(* blocking rule is broken, or, for a slice or the forbidden share with a   *)
(* limit other than zero, kept by no more than rounding: a drop of just the *)
(* limit may go either way there.  The command lets a release through only  *)
(* when there is also evidence for every rule, and PASS says that no rule   *)
(* is broken.                                                               *)
GateDecides ==
    LET p == question.policy
        seen == {s \in DOMAIN p.slices : InSlice(s) # {}}
        thin == Cardinality(Paired) < p.minimum \/ seen # DOMAIN p.slices
        broken == {r \in {p.hidden} : WellOver(Drop(Paired), r)}
                  \cup {r \in {p.forbidden} : WellOver(Growth, r)}
                  \cup {p.slices[s] : s \in
                          {s \in seen : WellOver(Drop(InSlice(s)), p.slices[s])}}
        doubtful == {r \in {p.hidden} : Over(Drop(Paired), r)}
                    \cup {r \in {p.forbidden} : MayBeOver(Growth, r)}
                    \cup {p.slices[s] : s \in
                            {s \in seen : MayBeOver(Drop(InSlice(s)), p.slices[s])}}
        blocking(rules) == \E r \in rules : r.severity = "blocking"
        exit == GateExit(decision.outcome)
    IN /\ blocking(broken) => decision.outcome = "BLOCK"
       /\ decision.outcome = "BLOCK" => blocking(doubtful)
       /\ blocking(broken) \/ thin => exit = 1
       /\ exit = 1 => blocking(doubtful) \/ thin
       /\ thin \/ broken # {} => decision.outcome # "PASS"
       /\ decision.outcome # "PASS" => thin \/ doubtful # {}

(* compare_runs and evaluate_gate decide a release as the two runs, counted *)
(* case by case, deserve, up to the rounding of floats at a limit.          *)
ReleaseDecided == Asked => ComparisonAddsUp /\ GateDecides
=============================================================================
