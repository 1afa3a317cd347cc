-------------------------- MODULE EvaluationProofs --------------------------
(***************************************************************************)
(* What a returned run says of its cases, for any dataset, evaluators,     *)
(* concurrency and trials, and what compare_runs and evaluate_gate make of *)
(* any two runs under any policy.                                          *)
(***************************************************************************)
EXTENDS MCEvaluation, FiniteSetTheorems, TLAPS

(* A task that is done stays done, so a run that was gathered is complete. *)
EngineInv ==
    /\ stage \in [Positions -> {"waiting", "executing", "done", "raised"}]
    /\ trial \in [Positions -> AllTrials]
    /\ outcome = "returned" => In("done") = Positions

(* A result says "passed" exactly when both test files passed. *)
LEMMA StatusIsTests ==
  ASSUME NEW t \in AllTrials
  PROVE  Execute(t).status = "passed" <=> TestsPassed(t)
<1>1. CASE t \in Sandboxed
  <2>1. t.kind = "tested" /\ t.public \in Executions /\ t.hidden \in Executions
    BY <1>1 DEF Sandboxed
  <2>2. SandboxRun(t).public = RunTest(t.public) /\ SandboxRun(t).hidden = RunTest(t.hidden)
    BY <2>1 DEF SandboxRun
  <2>3. Execute(t).status = ExecutionStatus(SandboxRun(t))
    BY <2>1 DEF Execute
  <2>4. \A e \in Executions : RunTest(e).passed <=> (e.exit = 0 /\ ~e.timeout)
    BY DEF RunTest, Executions
  <2> QED BY <2>1, <2>2, <2>3, <2>4 DEF ExecutionStatus, TestsPassed
<1>2. CASE t = Rejected
  <2>1. Execute(t).status = ExecutionStatus(SandboxRun(t)) /\ SandboxRun(t).public.passed = FALSE
    BY <1>2 DEF Rejected, Execute, SandboxRun
  <2> QED BY <1>2, <2>1 DEF ExecutionStatus, TestsPassed, Rejected
<1>3. CASE t = ModelError
  BY <1>3 DEF ModelError, Execute, TestsPassed
<1> QED BY <1>1, <1>2, <1>3 DEF AllTrials

(* Only hidden tests that ended in time report "ok". *)
LEMMA HiddenOkExecuted ==
  ASSUME NEW t \in AllTrials, Execute(t).hidden = "ok"
  PROVE  t.kind = "tested" /\ ~t.hidden.timeout
<1>1. CASE t \in Sandboxed
  <2>1. t.kind = "tested" /\ t.hidden \in Executions
    BY <1>1 DEF Sandboxed
  <2>2. SandboxRun(t).hidden = RunTest(t.hidden)
    BY <2>1 DEF SandboxRun
  <2>3. Execute(t).hidden = SandboxRun(t).hidden.output
    BY <2>1 DEF Execute
  <2>4. RunTest(t.hidden).output = "ok" => ~t.hidden.timeout
    BY DEF RunTest
  <2> QED BY <2>1, <2>2, <2>3, <2>4
<1>2. CASE t = Rejected
  BY <1>2 DEF Rejected, Execute, SandboxRun
<1>3. CASE t = ModelError
  BY <1>3 DEF ModelError, Execute
<1> QED BY <1>1, <1>2, <1>3 DEF AllTrials

(* A step of the event loop. *)
LEMMA EngineStepKeeps == EngineInv /\ [Next]_vars => EngineInv'
<1> SUFFICES ASSUME EngineInv, [Next]_vars PROVE EngineInv'
  OBVIOUS
<1> USE SuiteAssumption DEF EngineInv, In
<1>1. CASE LoadFails
  BY <1>1 DEF LoadFails
<1>2. CASE Gather
  BY <1>2 DEF Gather
<1>3. ASSUME NEW p \in Positions, StartCase(p) PROVE EngineInv'
  BY <1>3 DEF StartCase
<1>4. ASSUME NEW p \in Positions, FinishCase(p) PROVE EngineInv'
  BY <1>4 DEF FinishCase
<1>5. ASSUME NEW p \in Positions, RaiseCase(p) PROVE EngineInv'
  BY <1>5 DEF RaiseCase
<1>6. CASE CancelTasks
  BY <1>6 DEF CancelTasks
<1>7. CASE UNCHANGED vars
  BY <1>7 DEF vars
<1> QED BY <1>1, <1>2, <1>3, <1>4, <1>5, <1>6, <1>7 DEF Next

(* The results that EvaluationEngine.run returns cover the dataset, their   *)
(* statuses are those of the executed tests, and hidden_test_success is     *)
(* credited only for hidden tests that were started and did not reach the   *)
(* timeout of run_test.                                                     *)
THEOREM ReturnedRunsSound == Spec => []ReturnedRunSound
<1>1. Init => EngineInv
  BY DEF Init, EngineInv, AllTrials
<1>2. EngineInv => ReturnedRunSound
  <2> SUFFICES ASSUME EngineInv, NEW p \in Positions
               PROVE  /\ CaseResults[p].status = "passed" <=> TestsPassed(trial[p])
                      /\ HiddenSuccess(CaseResults[p]) =>
                            trial[p].kind = "tested" /\ ~trial[p].hidden.timeout
    BY DEF EngineInv, ReturnedRunSound
  <2>1. trial[p] \in AllTrials
    BY DEF EngineInv
  <2>2. /\ CaseResults[p].status = Execute(trial[p]).status
        /\ CaseResults[p].passed =
             {name \in Evaluators : Passes(name, Dataset[p], Execute(trial[p]))}
    BY DEF CaseResults, Result
  <2>3. Passes("hidden_test_success", Dataset[p], Execute(trial[p])) =>
          Execute(trial[p]).hidden = "ok"
    BY DEF Passes
  <2> QED BY <2>1, <2>2, <2>3, StatusIsTests, HiddenOkExecuted DEF HiddenSuccess
<1> QED BY <1>1, <1>2, EngineStepKeeps, PTL DEF Spec

-----------------------------------------------------------------------------
(* compare_runs and evaluate_gate, for any two runs and any policy.        *)

(* The records and policies that the schemas admit. *)
CaseRecords(I, S) == [id : I, slice : S, passed : BOOLEAN, forbidden : BOOLEAN]
RuleWellFormed(rule) ==
    rule = Null \/ (rule.limit[1] \in Int /\ rule.limit[2] \in Nat \ {0})
PolicyWellFormed(p) ==
    /\ p.minimum \in Int
    /\ RuleWellFormed(p.hidden) /\ RuleWellFormed(p.forbidden)
    /\ \A s \in DOMAIN p.slices : RuleWellFormed(p.slices[s])

(* A nonempty set of natural numbers has a least one. *)
LEMMA LeastNumber ==
  ASSUME NEW T \in SUBSET Nat, T # {}
  PROVE  \E n \in T : \A m \in T : n <= m
<1> DEFINE U == {1..n : n \in T}
<1>1. U \subseteq FiniteSubsetsOf(Nat) /\ U # {}
  <2> SUFFICES ASSUME NEW n \in T PROVE 1..n \in FiniteSubsetsOf(Nat)
    OBVIOUS
  <2>1. IsFiniteSet(1..n) /\ 1..n \subseteq Nat
    BY FS_Interval
  <2> QED BY <2>1 DEF FiniteSubsetsOf
<1>2. \E x \in U : \A y \in U : ~(<<y, x>> \in StrictSubsetOrdering(Nat))
  <2> HIDE DEF U
  <2> QED BY <1>1, WFMin, FS_StrictSubsetOrderingWellFounded
<1>3. PICK n \in T : \A m \in T : ~(<<1..m, 1..n>> \in StrictSubsetOrdering(Nat))
  BY <1>2
<1>4. ASSUME NEW m \in T, m < n PROVE FALSE
  <2>1. 1..m \subseteq 1..n /\ 1..m # 1..n
    <3>1. n \in 1..n /\ n \notin 1..m
      BY <1>4
    <3> QED BY <1>4, <3>1
  <2>2. 1..m \in SUBSET Nat /\ 1..n \in SUBSET Nat
    OBVIOUS
  <2>3. <<1..m, 1..n>> \in StrictSubsetOrdering(Nat)
    BY <2>1, <2>2 DEF StrictSubsetOrdering
  <2> QED BY <1>3, <2>3
<1> QED BY <1>4

(* A case that is in a run has a last result in it. *)
LEMMA LastResult ==
  ASSUME NEW R, NEW run \in Seq(R), NEW id \in Ids(run)
  PROVE  \E i \in 1..Len(run) :
            /\ run[i].id = id
            /\ \A k \in 1..Len(run) : run[k].id = id => k <= i
<1>0. \A m \in Nat : \A k \in 1..m : m - k \in Nat
  OBVIOUS
<1>1. Len(run) \in Nat /\ DOMAIN run = 1..Len(run)
  OBVIOUS
<1> DEFINE T == {n \in Nat : \E i \in 1..Len(run) : run[i].id = id /\ n = Len(run) - i}
<1>2. PICK j \in 1..Len(run) : run[j].id = id
  BY <1>1 DEF Ids
<1>3. Len(run) - j \in T
  BY <1>1, <1>2
<1>4. PICK n \in T : \A m \in T : n <= m
  <2>1. T \in SUBSET Nat /\ T # {}
    BY <1>3
  <2> HIDE DEF T
  <2> QED BY <2>1, LeastNumber
<1>5. PICK i \in 1..Len(run) : run[i].id = id /\ n = Len(run) - i
  BY <1>4
<1>6. ASSUME NEW k \in 1..Len(run), run[k].id = id PROVE k <= i
  <2>1. Len(run) - k \in T
    <3>1. Len(run) - k \in Nat
      BY <1>0, <1>1
    <3> QED BY <3>1, <1>6
  <2>2. n <= Len(run) - k
    BY <1>4, <2>1
  <2> QED BY <1>1, <1>5, <2>2
<1> QED BY <1>5, <1>6

(* The dictionary of compare_runs holds the last result of each case. *)
LEMMA DictionaryHoldsLast ==
  ASSUME NEW R, NEW run \in Seq(R), NEW id \in Ids(run)
  PROVE  ById(run, id) = LastOf(run, id) /\ LastOf(run, id) \in R
<1>1. DOMAIN run = 1..Len(run) /\ Len(run) \in Nat
  OBVIOUS
<1>2. PICK i \in 1..Len(run) :
            /\ run[i].id = id
            /\ \A k \in 1..Len(run) : run[k].id = id => k <= i
  BY LastResult
<1> DEFINE D == DOMAIN run
           first == CHOOSE j \in D : run[j].id = id /\ \A k \in D : run[k].id = id => k <= j
           mine == {j \in D : run[j].id = id}
           second == CHOOSE j \in mine : \A k \in mine : k <= j
<1>3. first \in D /\ run[first].id = id /\ \A k \in D : run[k].id = id => k <= first
  BY <1>1, <1>2
<1>4. second \in mine /\ \A k \in mine : k <= second
  BY <1>1, <1>2
<1>5. first \in 1..Len(run) /\ second \in 1..Len(run) /\ first <= second /\ second <= first
  BY <1>1, <1>3, <1>4
<1>6. first = second
  <2> HIDE DEF first, second
  <2> QED BY <1>1, <1>5
<1>7. ById(run, id) = run[first] /\ LastOf(run, id) = run[second]
  BY DEF ById, LastOf
<1>8. run[second] \in R
  <2> HIDE DEF second
  <2> QED BY <1>5
<1> QED BY <1>6, <1>7, <1>8

(* A run has finitely many cases. *)
LEMMA FinitelyManyIds ==
  ASSUME NEW R, NEW run \in Seq(R)
  PROVE  IsFiniteSet(Ids(run))
<1>1. DOMAIN run = 1..Len(run) /\ Len(run) \in Nat
  OBVIOUS
<1>2. IsFiniteSet(DOMAIN run)
  BY <1>1, FS_Interval
<1> DEFINE f == [i \in DOMAIN run |-> run[i].id]
<1>3. f \in Surjection(DOMAIN run, Ids(run))
  BY DEF Surjection, Ids
<1> QED BY <1>2, <1>3, FS_Surjection

(* The comparison of the two runs that were asked about. *)
Compared == CompareRuns(question.baseline, question.candidate)

(* What compare_runs and evaluate_gate answered, to a question about runs  *)
(* with the case ids I and slices S.                                       *)
Answered(I, S) ==
    /\ question.baseline \in Seq(CaseRecords(I, S))
    /\ question.candidate \in Seq(CaseRecords(I, S))
    /\ PolicyWellFormed(question.policy)
    /\ decision.comparison = Compared
    /\ \E rounded : decision.outcome = EvaluateGate(Compared, question.policy, rounded)

(* Two disjoint sets of cases add up. *)
LEMMA PartsAddUp ==
  ASSUME NEW A, IsFiniteSet(A), NEW B, IsFiniteSet(B), A \cap B = {}
  PROVE  Cardinality(A \cup B) = Cardinality(A) + Cardinality(B)
<1>1. Cardinality(A \cup B) = Cardinality(A) + Cardinality(B) - Cardinality(A \cap B)
  BY FS_Union
<1>2. Cardinality(A) \in Nat /\ Cardinality(B) \in Nat /\ Cardinality({}) = 0
  BY FS_CardinalityType, FS_EmptySet
<1>3. Cardinality(A \cup B) = Cardinality(A) + Cardinality(B) - 0
  BY <1>1, <1>2
<1> QED BY <1>2, <1>3

(* The four classes divide the pairs; what improved less what regressed is *)
(* what the candidate passes more than the baseline.                       *)
LEMMA ClassesAddUp ==
  ASSUME NEW imp, NEW reg, NEW up, NEW uf,
         IsFiniteSet(imp), IsFiniteSet(reg), IsFiniteSet(up), IsFiniteSet(uf),
         imp \cap reg = {}, imp \cap up = {}, reg \cap up = {},
         uf \cap ((imp \cup reg) \cup up) = {}
  PROVE  /\ Cardinality(((imp \cup reg) \cup up) \cup uf) =
              Cardinality(imp) + Cardinality(reg) + Cardinality(up) + Cardinality(uf)
         /\ Cardinality(imp) - Cardinality(reg) =
              Cardinality(imp \cup up) - Cardinality(reg \cup up)
         /\ Cardinality(imp \cup up) \in Nat /\ Cardinality(reg \cup up) \in Nat
<1>1. /\ Cardinality(imp) \in Nat /\ Cardinality(reg) \in Nat
      /\ Cardinality(up) \in Nat /\ Cardinality(uf) \in Nat
  BY FS_CardinalityType
<1>2. IsFiniteSet(imp \cup reg) /\ IsFiniteSet((imp \cup reg) \cup up)
  BY FS_Union
<1>3. Cardinality(imp \cup reg) = Cardinality(imp) + Cardinality(reg)
  BY PartsAddUp
<1>4. (imp \cup reg) \cap up = {}
  OBVIOUS
<1>5. Cardinality((imp \cup reg) \cup up) = Cardinality(imp \cup reg) + Cardinality(up)
  BY <1>2, <1>4, PartsAddUp
<1>6. ((imp \cup reg) \cup up) \cap uf = {}
  OBVIOUS
<1>7. Cardinality(((imp \cup reg) \cup up) \cup uf) =
        Cardinality((imp \cup reg) \cup up) + Cardinality(uf)
  BY <1>2, <1>6, PartsAddUp
<1>8. Cardinality(imp \cup up) = Cardinality(imp) + Cardinality(up)
  BY PartsAddUp
<1>9. Cardinality(reg \cup up) = Cardinality(reg) + Cardinality(up)
  BY PartsAddUp
<1> QED BY <1>1, <1>3, <1>5, <1>7, <1>8, <1>9

(* A positive factor does not change an order. *)
LEMMA CancelFactor ==
  ASSUME NEW a \in Int, NEW b \in Int, NEW n \in Nat \ {0}
  PROVE  a * n < b * n <=> a < b
OBVIOUS

(* The parts of the comparison that the gate reads. *)
LEMMA ComparedParts ==
  ASSUME NEW I, NEW S, Answered(I, S)
  PROVE  /\ IsFiniteSet(Paired)
         /\ \A id \in Paired :
               /\ ById(question.baseline, id) = LastOf(question.baseline, id)
               /\ ById(question.candidate, id) = LastOf(question.candidate, id)
               /\ LastOf(question.baseline, id) \in CaseRecords(I, S)
               /\ LastOf(question.candidate, id) \in CaseRecords(I, S)
<1>1. Paired \subseteq Ids(question.baseline) /\ Paired \subseteq Ids(question.candidate)
  BY DEF Paired
<1>2. IsFiniteSet(Paired)
  BY <1>1, FinitelyManyIds, FS_Subset DEF Answered
<1> QED BY <1>1, <1>2, DictionaryHoldsLast DEF Answered

(* The fields of the comparison, from the last results of the pairs. *)
LEMMA ComparedFields ==
  ASSUME NEW I, NEW S, Answered(I, S)
  PROVE  LET b == question.baseline
             c == question.candidate
             class(id) == Classify(LastOf(b, id).passed, LastOf(c, id).passed)
             classed(k) == {id \in Paired : class(id) = k}
             n(ids) == Cardinality(ids)
         IN /\ Compared.paired = n(Paired)
            /\ Compared.missing = (Ids(b) \cup Ids(c)) \ Paired
            /\ Compared.delta = Rate(n(classed("improved")) - n(classed("regressed")), n(Paired))
            /\ Compared.improved = classed("improved")
            /\ Compared.regressed = classed("regressed")
            /\ Compared.unchangedPasses = n(classed("unchanged_pass"))
            /\ Compared.unchangedFailures = n(classed("unchanged_fail"))
            /\ DOMAIN Compared.slices = {SliceIn(id) : id \in Paired}
            /\ \A s \in DOMAIN Compared.slices :
                  /\ Compared.slices[s].paired = n(InSlice(s))
                  /\ Compared.slices[s].delta =
                       Minus(Rate(Passing(c, InSlice(s)), n(InSlice(s))),
                             Rate(Passing(b, InSlice(s)), n(InSlice(s))))
            /\ Compared.forbidden = Minus(ForbiddenRate(c), ForbiddenRate(b))
<1> DEFINE b == question.baseline
           c == question.candidate
           paired == Ids(b) \cap Ids(c)
           classA(id) == Classify(ById(b, id).passed, ById(c, id).passed)
           classL(id) == Classify(LastOf(b, id).passed, LastOf(c, id).passed)
           classedA(k) == {id \in paired : classA(id) = k}
           classedL(k) == {id \in paired : classL(id) = k}
           members(s) == {id \in paired : ById(b, id).slice = s}
<1>1. \A id \in paired : ById(b, id) = LastOf(b, id) /\ ById(c, id) = LastOf(c, id)
  BY ComparedParts DEF Paired
<1>2. \A k : classedA(k) = classedL(k)
  BY <1>1
<1>3. \A s : members(s) = InSlice(s) /\ InSlice(s) \subseteq paired
  BY <1>1 DEF InSlice, SliceIn, Paired
<1>4. {ById(b, id).slice : id \in paired} = {SliceIn(id) : id \in Paired}
  BY <1>1 DEF SliceIn, Paired
<1>5. ASSUME NEW ids \in SUBSET paired
      PROVE  /\ PassRate(c, ids) = Rate(Passing(c, ids), Cardinality(ids))
             /\ PassRate(b, ids) = Rate(Passing(b, ids), Cardinality(ids))
  <2>1. /\ {id \in ids : ById(b, id).passed} = {id \in ids : LastOf(b, id).passed}
        /\ {id \in ids : ById(c, id).passed} = {id \in ids : LastOf(c, id).passed}
    BY <1>1
  <2> QED BY <2>1 DEF PassRate, Passing
<1>6. /\ Compared.paired = Cardinality(paired)
      /\ Compared.missing = (Ids(b) \cup Ids(c)) \ paired
      /\ Compared.delta = Rate(Cardinality(classedA("improved"))
                                 - Cardinality(classedA("regressed")), Cardinality(paired))
      /\ Compared.improved = classedA("improved")
      /\ Compared.regressed = classedA("regressed")
      /\ Compared.unchangedPasses = Cardinality(classedA("unchanged_pass"))
      /\ Compared.unchangedFailures = Cardinality(classedA("unchanged_fail"))
      /\ Compared.forbidden = Minus(ForbiddenRate(c), ForbiddenRate(b))
  BY DEF Compared, CompareRuns
<1>7. Compared.slices = [s \in {ById(b, id).slice : id \in paired} |->
          [paired |-> Cardinality(members(s)),
           delta |-> Minus(PassRate(c, members(s)), PassRate(b, members(s)))]]
  BY DEF Compared, CompareRuns
<1>8. DOMAIN Compared.slices = {SliceIn(id) : id \in Paired}
  BY <1>4, <1>7
<1>9. ASSUME NEW s \in DOMAIN Compared.slices
      PROVE  /\ Compared.slices[s].paired = Cardinality(InSlice(s))
             /\ Compared.slices[s].delta =
                  Minus(Rate(Passing(c, InSlice(s)), Cardinality(InSlice(s))),
                        Rate(Passing(b, InSlice(s)), Cardinality(InSlice(s))))
  <2>1. /\ Compared.slices[s].paired = Cardinality(members(s))
        /\ Compared.slices[s].delta = Minus(PassRate(c, members(s)), PassRate(b, members(s)))
    BY <1>7
  <2> QED BY <1>3, <1>5, <2>1
<1> QED BY <1>2, <1>6, <1>8, <1>9 DEF Paired

(* Counting the passing cases of a finite set of cases. *)
LEMMA PassingCounts ==
  ASSUME NEW ids, IsFiniteSet(ids)
  PROVE  /\ Cardinality(ids) \in Nat /\ (Cardinality(ids) = 0 <=> ids = {})
         /\ \A run : Passing(run, ids) \in Nat /\ (ids = {} => Passing(run, ids) = 0)
<1>1. Cardinality(ids) \in Nat /\ (Cardinality(ids) = 0 <=> ids = {})
  BY FS_CardinalityType, FS_EmptySet
<1>2. ASSUME NEW run
      PROVE  Passing(run, ids) \in Nat /\ (ids = {} => Passing(run, ids) = 0)
  <2> DEFINE good == {id \in ids : LastOf(run, id).passed}
  <2>1. good \in SUBSET ids
    OBVIOUS
  <2>2. Passing(run, ids) = Cardinality(good)
    BY DEF Passing
  <2> HIDE DEF good
  <2>3. IsFiniteSet(good)
    BY <2>1, FS_Subset
  <2>4. ids = {} => good = {}
    BY <2>1
  <2> QED BY <2>2, <2>3, <2>4, FS_CardinalityType, FS_EmptySet
<1> QED BY <1>1, <1>2

(* The four classes add up to the pairs, and the aggregate delta counts    *)
(* the cases that were lost.                                               *)
LEMMA AggregateAddsUp ==
  ASSUME NEW I, NEW S, Answered(I, S)
  PROVE  /\ Compared.paired = Cardinality(Compared.improved) + Cardinality(Compared.regressed)
                                + Compared.unchangedPasses + Compared.unchangedFailures
         /\ Lost(Paired) \in Int
         /\ Compared.delta = Rate(-Lost(Paired), Cardinality(Paired))
<1> DEFINE b == question.baseline
           c == question.candidate
           class(id) == Classify(LastOf(b, id).passed, LastOf(c, id).passed)
           classed(k) == {id \in Paired : class(id) = k}
           passB == {id \in Paired : LastOf(b, id).passed}
           passC == {id \in Paired : LastOf(c, id).passed}
           imp == classed("improved")
           reg == classed("regressed")
           up == classed("unchanged_pass")
           uf == classed("unchanged_fail")
<1>1. \A id \in Paired : LastOf(b, id).passed \in BOOLEAN /\ LastOf(c, id).passed \in BOOLEAN
  BY ComparedParts DEF CaseRecords
<1>2. IsFiniteSet(Paired)
  BY ComparedParts
<1>3. \A id \in Paired :
         /\ id \in imp <=> (id \in passC /\ id \notin passB)
         /\ id \in reg <=> (id \in passB /\ id \notin passC)
         /\ id \in up <=> (id \in passB /\ id \in passC)
         /\ id \in uf <=> (id \notin passB /\ id \notin passC)
  BY <1>1 DEF Classify
<1>4. /\ imp \in SUBSET Paired /\ reg \in SUBSET Paired /\ up \in SUBSET Paired
      /\ uf \in SUBSET Paired /\ passB \in SUBSET Paired /\ passC \in SUBSET Paired
  OBVIOUS
<1>5. /\ Compared.paired = Cardinality(Paired)
      /\ Compared.delta = Rate(Cardinality(imp) - Cardinality(reg), Cardinality(Paired))
      /\ Compared.improved = imp /\ Compared.regressed = reg
      /\ Compared.unchangedPasses = Cardinality(up)
      /\ Compared.unchangedFailures = Cardinality(uf)
  BY ComparedFields
<1>6. Passing(b, Paired) = Cardinality(passB) /\ Passing(c, Paired) = Cardinality(passC)
  BY DEF Passing
<1> HIDE DEF classed, imp, reg, up, uf, passB, passC
<1>7. IsFiniteSet(imp) /\ IsFiniteSet(reg) /\ IsFiniteSet(up) /\ IsFiniteSet(uf)
  BY <1>2, <1>4, FS_Subset
<1>8. /\ imp \cap reg = {} /\ imp \cap up = {} /\ reg \cap up = {}
      /\ uf \cap ((imp \cup reg) \cup up) = {}
  BY <1>3, <1>4
<1>9. /\ ((imp \cup reg) \cup up) \cup uf = Paired
      /\ imp \cup up = passC /\ reg \cup up = passB
  BY <1>3, <1>4
<1>10. /\ Cardinality(((imp \cup reg) \cup up) \cup uf) =
            Cardinality(imp) + Cardinality(reg) + Cardinality(up) + Cardinality(uf)
       /\ Cardinality(imp) - Cardinality(reg) =
            Cardinality(imp \cup up) - Cardinality(reg \cup up)
       /\ Cardinality(imp \cup up) \in Nat /\ Cardinality(reg \cup up) \in Nat
  BY <1>7, <1>8, ClassesAddUp
<1>11. Lost(Paired) = Cardinality(passB) - Cardinality(passC)
  BY <1>6 DEF Lost
<1>12. Cardinality(passC) \in Nat /\ Cardinality(passB) \in Nat
  BY <1>9, <1>10
<1>13. /\ Lost(Paired) \in Int
       /\ Cardinality(imp) - Cardinality(reg) = Cardinality(passC) - Cardinality(passB)
       /\ Cardinality(passC) - Cardinality(passB) = -Lost(Paired)
  <2>1. Lost(Paired) \in Int /\ Cardinality(passC) - Cardinality(passB) = -Lost(Paired)
    BY <1>11, <1>12
  <2> QED BY <2>1, <1>9, <1>10
<1> QED BY <1>5, <1>9, <1>10, <1>13

(* The delta of a slice that has pairs counts the cases that it lost. *)
LEMMA SliceAddsUp ==
  ASSUME NEW I, NEW S, Answered(I, S), NEW s \in DOMAIN Compared.slices
  PROVE  LET n == Cardinality(InSlice(s)) IN
         /\ InSlice(s) # {} /\ n \in Nat \ {0} /\ Lost(InSlice(s)) \in Int
         /\ Compared.slices[s].paired = n
         /\ Compared.slices[s].delta = <<(-Lost(InSlice(s))) * n, n * n>>
<1> DEFINE n == Cardinality(InSlice(s))
           pb == Passing(question.baseline, InSlice(s))
           pc_ == Passing(question.candidate, InSlice(s))
<1>1. InSlice(s) # {}
  <2>1. DOMAIN Compared.slices = {SliceIn(id) : id \in Paired}
    BY ComparedFields
  <2>2. PICK id \in Paired : s = SliceIn(id)
    BY <2>1
  <2> QED BY <2>2 DEF InSlice
<1>2. IsFiniteSet(InSlice(s))
  <2>1. InSlice(s) \in SUBSET Paired
    BY DEF InSlice
  <2> QED BY <2>1, ComparedParts, FS_Subset
<1>3. n \in Nat \ {0} /\ pb \in Nat /\ pc_ \in Nat
  BY <1>1, <1>2, PassingCounts
<1>4. Lost(InSlice(s)) = pb - pc_
  BY DEF Lost
<1>5. /\ Compared.slices[s].paired = n
      /\ Compared.slices[s].delta = Minus(Rate(pc_, n), Rate(pb, n))
  BY ComparedFields
<1> HIDE DEF n, pb, pc_
<1>6. Minus(Rate(pc_, n), Rate(pb, n)) = <<pc_ * n - pb * n, n * n>>
  BY <1>3 DEF Rate, Minus
<1>7. pc_ * n - pb * n = (-(pb - pc_)) * n
  BY <1>3
<1>8. Lost(InSlice(s)) \in Int
  BY <1>3, <1>4
<1>9. Compared.slices[s].delta = <<(-Lost(InSlice(s))) * n, n * n>>
  BY <1>4, <1>5, <1>6, <1>7
<1> QED BY <1>1, <1>3, <1>5, <1>8, <1>9 DEF n

(* The report of compare_runs adds up. *)
LEMMA ReportAddsUp ==
  ASSUME NEW I, NEW S, Answered(I, S)
  PROVE  ComparisonAddsUp
<1>1. decision.comparison = Compared
  BY DEF Answered
<1>2. /\ Compared.missing \cup Paired = Ids(question.baseline) \cup Ids(question.candidate)
      /\ Compared.missing \cap Paired = {}
  <2>1. Compared.missing = (Ids(question.baseline) \cup Ids(question.candidate)) \ Paired
    BY ComparedFields
  <2> QED BY <2>1 DEF Paired
<1>3. Compared.delta[1] * Cardinality(Paired) = -Lost(Paired) * Compared.delta[2]
  <2> DEFINE n == Cardinality(Paired)
             l == Lost(Paired)
  <2>1. n \in Nat /\ l \in Int /\ Compared.delta = Rate(-l, n)
    BY AggregateAddsUp, ComparedParts, PassingCounts
  <2>2. CASE n = 0
    <3>1. Paired = {}
      BY <2>2, ComparedParts, PassingCounts
    <3>2. Passing(question.baseline, Paired) = 0 /\ Passing(question.candidate, Paired) = 0
      BY <3>1, ComparedParts, PassingCounts
    <3>3. l = 0
      BY <3>2 DEF Lost
    <3> HIDE DEF n, l
    <3>4. Compared.delta[1] = 0 /\ Compared.delta[2] = 1
      BY <2>1, <2>2 DEF Rate
    <3>5. Compared.delta[1] * n = -l * Compared.delta[2]
      BY <2>1, <2>2, <3>3, <3>4
    <3> QED BY <3>5 DEF n, l
  <2>3. CASE n # 0
    <3> HIDE DEF n, l
    <3>1. Compared.delta[1] = -l /\ Compared.delta[2] = n
      BY <2>1, <2>3 DEF Rate
    <3>2. Compared.delta[1] * n = -l * Compared.delta[2]
      BY <2>1, <3>1
    <3> QED BY <3>2 DEF n, l
  <2> QED BY <2>2, <2>3
<1>4. DOMAIN Compared.slices = {SliceIn(id) : id \in Paired}
  BY ComparedFields
<1>5. ASSUME NEW s \in DOMAIN Compared.slices
      PROVE  Compared.slices[s].delta[1] * Compared.slices[s].paired
               = -Lost(InSlice(s)) * Compared.slices[s].delta[2]
  <2> DEFINE n == Cardinality(InSlice(s))
             l == Lost(InSlice(s))
             d == Compared.slices[s].delta
  <2>1. /\ n \in Nat \ {0} /\ l \in Int /\ Compared.slices[s].paired = n
        /\ d = <<(-l) * n, n * n>>
    BY SliceAddsUp
  <2> HIDE DEF n, l, d
  <2>2. d[1] = (-l) * n /\ d[2] = n * n
    BY <2>1
  <2>3. ((-l) * n) * n = -l * (n * n)
    BY <2>1
  <2> QED BY <2>1, <2>2, <2>3 DEF d, l
<1> QED BY <1>1, <1>2, <1>3, <1>4, <1>5, AggregateAddsUp DEF ComparisonAddsUp

(* What Exceeds compares when its value is the fraction x, not reduced:    *)
(* beyond the limit by more than 1/Resolution it is apart from it and      *)
(* greater, and when it is greater or too near to tell, x is nearly over.  *)
LEMMA LimitCompared ==
  ASSUME NEW x, x[1] \in Int, x[2] \in Nat \ {0}, NEW k \in Nat \ {0},
         NEW a, a[1] = x[1] * k, a[2] = x[2] * k,
         NEW rule, rule # Null, RuleWellFormed(rule)
  PROVE  /\ WellOver(x, rule) => Apart(a, rule.limit) /\ Less(rule.limit, a)
         /\ Less(rule.limit, a) <=> Over(x, rule)
         /\ Less(rule.limit, a) \/ ~Apart(a, rule.limit) => NearlyOver(x, rule)
<1> DEFINE l1 == rule.limit[1]
           l2 == rule.limit[2]
           x1 == x[1]
           x2 == x[2]
           e == x1 * l2 - l1 * x2
           z == x2 * l2
           R == Resolution
<1>1. l1 \in Int /\ l2 \in Nat \ {0} /\ x1 \in Int /\ x2 \in Nat \ {0} /\ R \in Nat \ {0}
  BY ResolutionAssumption DEF RuleWellFormed
<1>2. /\ Less(rule.limit, a) <=> l1 * (x2 * k) < (x1 * k) * l2
      /\ Over(x, rule) <=> x1 * l2 > l1 * x2
      /\ WellOver(x, rule) <=> (x1 * l2 - l1 * x2) * R > x2 * l2
      /\ NearlyOver(x, rule) <=> (l1 * x2 - x1 * l2) * R <= x2 * l2
  BY DEF Less, Over, WellOver, NearlyOver
<1>3. Apart(a, rule.limit) <=>
        \/ (x2 * k) * l2 < ((x1 * k) * l2 - l1 * (x2 * k)) * R
        \/ (x2 * k) * l2 < (-((x1 * k) * l2 - l1 * (x2 * k))) * R
  BY DEF Apart, Minus
<1> HIDE DEF l1, l2, x1, x2, R
<1>4. e \in Int /\ z \in Nat \ {0} /\ x1 * l2 \in Int /\ l1 * x2 \in Int
  BY <1>1
<1>5. l1 * (x2 * k) = (l1 * x2) * k /\ (x1 * k) * l2 = (x1 * l2) * k /\ (x2 * k) * l2 = z * k
  BY <1>1
<1>6. (x1 * k) * l2 - l1 * (x2 * k) = e * k
  <2>1. (x1 * l2) * k - (l1 * x2) * k = (x1 * l2 - l1 * x2) * k
    <3> DEFINE u == x1 * l2
               v == l1 * x2
    <3> HIDE DEF u, v
    <3>1. u \in Int /\ v \in Int
      BY <1>4 DEF u, v
    <3>2. u * k - v * k = (u - v) * k
      BY <3>1
    <3> QED BY <3>2 DEF u, v
  <2> QED BY <1>5, <2>1
<1>7. /\ Less(rule.limit, a) <=> l1 * x2 < x1 * l2
      /\ Over(x, rule) <=> l1 * x2 < x1 * l2
  BY <1>2, <1>4, <1>5, CancelFactor
<1>8. /\ l1 * x2 < x1 * l2 <=> e > 0
      /\ l1 * x2 - x1 * l2 = -e
  BY <1>4
<1>9. /\ WellOver(x, rule) <=> e * R > z
      /\ NearlyOver(x, rule) <=> (-e) * R <= z
  BY <1>2, <1>8
<1> HIDE DEF e, z
<1>10. Apart(a, rule.limit) <=> z < e * R \/ z < (-e) * R
  <2>1. (e * k) * R = (e * R) * k /\ (-(e * k)) * R = ((-e) * R) * k
    BY <1>1, <1>4
  <2>2. e * R \in Int /\ (-e) * R \in Int
    BY <1>1, <1>4
  <2>3. z * k < (e * R) * k <=> z < e * R
    BY <1>4, <2>2, CancelFactor
  <2>4. z * k < ((-e) * R) * k <=> z < (-e) * R
    BY <1>4, <2>2, CancelFactor
  <2> QED BY <1>3, <1>5, <1>6, <2>1, <2>3, <2>4
<1>11. /\ e * R > z => e > 0
       /\ e > 0 => (-e) * R <= z
  BY <1>1, <1>4
<1>12. ~(z < (-e) * R) => (-e) * R <= z
  BY <1>1, <1>4
<1> QED BY <1>7, <1>8, <1>9, <1>10, <1>11, <1>12

(* The rule on the aggregate: broken when too many cases were lost. *)
LEMMA HiddenRule ==
  ASSUME NEW I, NEW S, Answered(I, S), NEW rounded
  PROVE  LET p == question.policy IN
         /\ WellOver(Drop(Paired), p.hidden) => HiddenDropped(Compared, p, rounded)
         /\ HiddenDropped(Compared, p, rounded) => Over(Drop(Paired), p.hidden)
<1> DEFINE p == question.policy
           n == Cardinality(Paired)
           l == Lost(Paired)
           size == IF Paired = {} THEN 1 ELSE n
           x == Drop(Paired)
           a == Negative(Compared.delta)
<1>1. /\ n \in Nat /\ l \in Int /\ Compared.delta = Rate(-l, n)
      /\ n = 0 <=> Paired = {}
      /\ Paired = {} => Passing(question.baseline, Paired) = 0
      /\ Paired = {} => Passing(question.candidate, Paired) = 0
  BY AggregateAddsUp, ComparedParts, PassingCounts
<1>2. Paired = {} => l = 0
  BY <1>1 DEF Lost
<1>3. x[1] = l /\ x[2] = size /\ a[1] = -Compared.delta[1] /\ a[2] = Compared.delta[2]
  BY DEF Drop, Negative
<1>4. size \in Nat \ {0} /\ a[1] = l /\ a[2] = size
  <2>1. CASE n = 0
    <3>1. size = 1 /\ l = 0
      BY <1>1, <1>2, <2>1
    <3>2. Compared.delta[1] = 0 /\ Compared.delta[2] = 1
      BY <1>1, <2>1 DEF Rate
    <3>3. -Compared.delta[1] = 0
      <4>1. Compared.delta[1] \in Int => -Compared.delta[1] = 0 - Compared.delta[1]
        OBVIOUS
      <4> QED BY <3>2, <4>1
    <3> QED BY <1>3, <3>1, <3>2, <3>3
  <2>2. CASE n # 0
    <3>1. size = n
      BY <1>1, <2>2
    <3>2. Compared.delta[1] = -l /\ Compared.delta[2] = n
      BY <1>1, <2>2 DEF Rate
    <3>3. -(-l) = l
      BY <1>1
    <3> QED BY <1>1, <1>3, <2>2, <3>1, <3>2, <3>3
  <2> QED BY <2>1, <2>2
<1>5. x[1] \in Int /\ x[2] \in Nat \ {0} /\ a[1] = x[1] * 1 /\ a[2] = x[2] * 1
  BY <1>1, <1>3, <1>4
<1>6. RuleWellFormed(p.hidden)
  BY DEF Answered, PolicyWellFormed
<1>7. p.hidden # Null =>
        /\ WellOver(x, p.hidden) => Apart(a, p.hidden.limit) /\ Less(p.hidden.limit, a)
        /\ Less(p.hidden.limit, a) <=> Over(x, p.hidden)
  <2> HIDE DEF x, a, p
  <2> QED BY <1>5, <1>6, LimitCompared
<1>8. HiddenDropped(Compared, p, rounded) <=>
        /\ p.hidden # Null
        /\ IF Apart(a, p.hidden.limit) THEN Less(p.hidden.limit, a)
           ELSE <<"run", "hidden">> \in rounded /\ Less(p.hidden.limit, a)
  BY DEF HiddenDropped, Exceeds
<1>9. WellOver(x, p.hidden) => p.hidden # Null
  BY DEF WellOver
<1> HIDE DEF x, a, p
<1>10. /\ WellOver(x, p.hidden) => HiddenDropped(Compared, p, rounded)
       /\ HiddenDropped(Compared, p, rounded) => Over(x, p.hidden)
  BY <1>7, <1>8, <1>9
<1> QED BY <1>10 DEF x, p

(* The other two rules, where the value is a difference of two rates. *)
LEMMA DifferenceRule ==
  ASSUME NEW x, x[1] \in Int, x[2] \in Nat \ {0}, NEW k \in Nat \ {0},
         NEW a, a[1] = x[1] * k, a[2] = x[2] * k,
         NEW rule, RuleWellFormed(rule), NEW scope, NEW rounded
  PROVE  LET fires == rule # Null
                        /\ Exceeds(a, rule.limit, rule.limit[1] = 0, scope \in rounded)
         IN (WellOver(x, rule) => fires) /\ (fires => MayBeOver(x, rule))
<1>1. CASE rule = Null
  BY <1>1 DEF WellOver
<1>2. CASE rule # Null
  <2>1. /\ WellOver(x, rule) => Apart(a, rule.limit) /\ Less(rule.limit, a)
        /\ Less(rule.limit, a) <=> Over(x, rule)
        /\ Less(rule.limit, a) \/ ~Apart(a, rule.limit) => NearlyOver(x, rule)
    BY <1>2, LimitCompared
  <2>2. Exceeds(a, rule.limit, rule.limit[1] = 0, scope \in rounded) <=>
          IF Apart(a, rule.limit) THEN Less(rule.limit, a)
          ELSE scope \in rounded /\ (rule.limit[1] = 0 => Less(rule.limit, a))
    BY DEF Exceeds
  <2>3. MayBeOver(x, rule) <=>
          IF rule.limit[1] = 0 THEN Over(x, rule) ELSE NearlyOver(x, rule)
    BY <1>2 DEF MayBeOver
  <2> QED BY <1>2, <2>1, <2>2, <2>3
<1> QED BY <1>1, <1>2

(* The rule of a slice that has pairs. *)
LEMMA SliceRule ==
  ASSUME NEW I, NEW S, Answered(I, S), NEW rounded, NEW s \in DOMAIN Compared.slices,
         s \in DOMAIN question.policy.slices
  PROVE  LET p == question.policy IN
         /\ WellOver(Drop(InSlice(s)), p.slices[s]) => SliceDropped(Compared, p, rounded, s)
         /\ SliceDropped(Compared, p, rounded, s) => MayBeOver(Drop(InSlice(s)), p.slices[s])
<1> DEFINE p == question.policy
           rule == p.slices[s]
           n == Cardinality(InSlice(s))
           l == Lost(InSlice(s))
           d == Compared.slices[s].delta
           x == Drop(InSlice(s))
           a == Negative(d)
           scope == <<"slice", s>>
<1>1. InSlice(s) # {} /\ n \in Nat \ {0} /\ l \in Int /\ d = <<(-l) * n, n * n>>
  BY SliceAddsUp
<1>2. x[1] = l /\ x[2] = n /\ a[1] = -d[1] /\ a[2] = d[2]
  BY <1>1 DEF Drop, Negative
<1>3. d[1] = (-l) * n /\ d[2] = n * n
  BY <1>1
<1>4. SliceDropped(Compared, p, rounded, s) <=>
        rule # Null /\ Exceeds(a, rule.limit, rule.limit[1] = 0, scope \in rounded)
  BY DEF SliceDropped
<1>5. RuleWellFormed(rule)
  BY DEF Answered, PolicyWellFormed
<1> HIDE DEF n, l, d, x, a, p, rule, scope
<1>6. -((-l) * n) = l * n
  BY <1>1
<1>7. x[1] \in Int /\ x[2] \in Nat \ {0} /\ a[1] = x[1] * n /\ a[2] = x[2] * n
  BY <1>1, <1>2, <1>3, <1>6
<1>8. /\ WellOver(x, rule) => SliceDropped(Compared, p, rounded, s)
      /\ SliceDropped(Compared, p, rounded, s) => MayBeOver(x, rule)
  BY <1>1, <1>4, <1>5, <1>7, DifferenceRule
<1> QED BY <1>8 DEF x, rule, p

(* The rule on forbidden modifications compares the shares of all results. *)
LEMMA ForbiddenRule ==
  ASSUME NEW I, NEW S, Answered(I, S), NEW rounded
  PROVE  LET p == question.policy IN
         /\ WellOver(Growth, p.forbidden) => ForbiddenRose(Compared, p, rounded)
         /\ ForbiddenRose(Compared, p, rounded) => MayBeOver(Growth, p.forbidden)
<1> DEFINE b == question.baseline
           c == question.candidate
           bad(run) == Cardinality({i \in DOMAIN run : run[i].forbidden})
           size(run) == IF run = <<>> THEN 1 ELSE Len(run)
<1>1. ASSUME NEW run \in Seq(CaseRecords(I, S))
      PROVE  ForbiddenRate(run) = <<bad(run), size(run)>>
  <2>1. CASE run = <<>>
    <3>1. {i \in DOMAIN run : run[i].forbidden} = {}
      BY <2>1
    <3>2. bad(run) = 0 /\ size(run) = 1 /\ Len(run) = 0
      BY <2>1, <3>1, FS_EmptySet
    <3> QED BY <3>2 DEF ForbiddenRate, Rate
  <2>2. CASE run # <<>>
    <3>1. Len(run) # 0 /\ size(run) = Len(run)
      BY <2>2
    <3> QED BY <3>1 DEF ForbiddenRate, Rate
  <2> QED BY <2>1, <2>2
<1>2. Compared.forbidden = Minus(ForbiddenRate(c), ForbiddenRate(b))
  BY ComparedFields
<1>3. ForbiddenRate(c) = <<bad(c), size(c)>> /\ ForbiddenRate(b) = <<bad(b), size(b)>>
  BY <1>1 DEF Answered
<1> HIDE DEF bad, size
<1>4. Compared.forbidden = <<bad(c) * size(b) - bad(b) * size(c), size(c) * size(b)>>
  BY <1>2, <1>3 DEF Minus
<1>45. Growth = Compared.forbidden
  BY <1>4 DEF Growth, bad, size
<1>5. bad(b) \in Nat /\ bad(c) \in Nat /\ size(b) \in Nat \ {0} /\ size(c) \in Nat \ {0}
  <2> SUFFICES ASSUME NEW run \in Seq(CaseRecords(I, S))
               PROVE  bad(run) \in Nat /\ size(run) \in Nat \ {0}
    BY DEF Answered
  <2>1. size(run) \in Nat \ {0}
    BY DEF size
  <2> DEFINE B == {i \in DOMAIN run : run[i].forbidden}
  <2>2. B \in SUBSET (1..Len(run)) /\ Len(run) \in Nat
    OBVIOUS
  <2>3. bad(run) = Cardinality(B)
    BY DEF bad
  <2> HIDE DEF B
  <2>4. IsFiniteSet(B)
    <3>1. IsFiniteSet(1..Len(run))
      BY <2>2, FS_Interval
    <3> QED BY <2>2, <3>1, FS_Subset
  <2> QED BY <2>1, <2>3, <2>4, FS_CardinalityType
<1> DEFINE p == question.policy
           x == Growth
           a == Compared.forbidden
           scope == <<"run", "forbidden">>
<1>6. x[1] = bad(c) * size(b) - bad(b) * size(c) /\ x[2] = size(c) * size(b) /\ a = x
  BY <1>4, <1>45
<1>7. ForbiddenRose(Compared, p, rounded) <=>
        p.forbidden # Null /\ Exceeds(a, p.forbidden.limit, p.forbidden.limit[1] = 0,
                                      scope \in rounded)
  BY DEF ForbiddenRose
<1>8. RuleWellFormed(p.forbidden)
  BY DEF Answered, PolicyWellFormed
<1> HIDE DEF p, x, a, scope
<1>9. x[1] \in Int /\ x[2] \in Nat \ {0}
  BY <1>5, <1>6
<1>10. a[1] = x[1] * 1 /\ a[2] = x[2] * 1 /\ 1 \in Nat \ {0}
  BY <1>6, <1>9
<1>11. /\ WellOver(x, p.forbidden) => ForbiddenRose(Compared, p, rounded)
       /\ ForbiddenRose(Compared, p, rounded) => MayBeOver(x, p.forbidden)
  BY <1>7, <1>8, <1>9, <1>10, DifferenceRule
<1> QED BY <1>11 DEF x, p

(* The gate's precedence: a blocking finding first, then missing evidence, *)
(* then warnings.                                                          *)
LEMMA OutcomePrecedence ==
  ASSUME NEW F, F \subseteq {"INCONCLUSIVE", "BLOCK", "WARN"}
  PROVE  /\ Outcome(F) = "BLOCK" <=> "BLOCK" \in F
         /\ GateExit(Outcome(F)) = 0 <=> "BLOCK" \notin F /\ "INCONCLUSIVE" \notin F
         /\ Outcome(F) = "PASS" <=> F = {}
<1>1. CASE "BLOCK" \in F
  BY <1>1 DEF Outcome, GateExit
<1>2. CASE "BLOCK" \notin F /\ "INCONCLUSIVE" \in F
  BY <1>2 DEF Outcome, GateExit
<1>3. CASE "BLOCK" \notin F /\ "INCONCLUSIVE" \notin F /\ "WARN" \in F
  <2>1. F = {"WARN"}
    BY <1>3
  <2> QED BY <1>3, <2>1 DEF Outcome, GateExit
<1>4. CASE F = {}
  BY <1>4 DEF Outcome, GateExit
<1> QED BY <1>1, <1>2, <1>3, <1>4

(* compare_runs and evaluate_gate decide a release as its two runs,        *)
(* counted case by case, deserve, up to the rounding of floats at a limit: *)
(* for runs of any length with repeated, missing and added cases, for any  *)
(* policy and however the comparisons that are too close to call come out. *)
THEOREM ReleasesDecided ==
  ASSUME NEW I, NEW S, Asked => Answered(I, S)
  PROVE  ReleaseDecided
<1> SUFFICES ASSUME Answered(I, S) PROVE GateDecides
  BY ReportAddsUp DEF ReleaseDecided
<1>0. PICK rounded : decision.outcome = EvaluateGate(Compared, question.policy, rounded)
  BY DEF Answered
<1> DEFINE p == question.policy
           F == Findings(Compared, p, rounded)
           seen == {s \in DOMAIN p.slices : InSlice(s) # {}}
           thin == Cardinality(Paired) < p.minimum \/ seen # DOMAIN p.slices
           lossy == {s \in seen : WellOver(Drop(InSlice(s)), p.slices[s])}
           dropped == {s \in seen : SliceDropped(Compared, p, rounded, s)}
           near == {s \in seen : MayBeOver(Drop(InSlice(s)), p.slices[s])}
           broken == {r \in {p.hidden} : WellOver(Drop(Paired), r)}
                     \cup {r \in {p.forbidden} : WellOver(Growth, r)}
                     \cup {p.slices[s] : s \in lossy}
           fired == {r \in {p.hidden} : HiddenDropped(Compared, p, rounded)}
                    \cup {r \in {p.forbidden} : ForbiddenRose(Compared, p, rounded)}
                    \cup {p.slices[s] : s \in dropped}
           doubtful == {r \in {p.hidden} : Over(Drop(Paired), r)}
                       \cup {r \in {p.forbidden} : MayBeOver(Growth, r)}
                       \cup {p.slices[s] : s \in near}
           blocking(rules) == \E r \in rules : r.severity = "blocking"
<1>1. \A s : s \in DOMAIN Compared.slices <=> InSlice(s) # {}
  <2>1. DOMAIN Compared.slices = {SliceIn(id) : id \in Paired}
    BY ComparedFields
  <2> QED BY <2>1 DEF InSlice
<1>2. lossy \subseteq dropped /\ dropped \subseteq near
  <2> SUFFICES ASSUME NEW s \in seen
               PROVE  /\ WellOver(Drop(InSlice(s)), p.slices[s])
                            => SliceDropped(Compared, p, rounded, s)
                      /\ SliceDropped(Compared, p, rounded, s)
                            => MayBeOver(Drop(InSlice(s)), p.slices[s])
    OBVIOUS
  <2>1. s \in DOMAIN Compared.slices /\ s \in DOMAIN question.policy.slices
    BY <1>1
  <2> QED BY <2>1, SliceRule
<1>3. /\ WellOver(Drop(Paired), p.hidden) => HiddenDropped(Compared, p, rounded)
      /\ HiddenDropped(Compared, p, rounded) => Over(Drop(Paired), p.hidden)
  BY HiddenRule
<1>4. /\ WellOver(Growth, p.forbidden) => ForbiddenRose(Compared, p, rounded)
      /\ ForbiddenRose(Compared, p, rounded) => MayBeOver(Growth, p.forbidden)
  BY ForbiddenRule
<1>5. broken \subseteq fired /\ fired \subseteq doubtful
  <2> HIDE DEF lossy, dropped, near
  <2> QED BY <1>2, <1>3, <1>4
<1>6. Compared.paired = Cardinality(Paired)
  BY ComparedFields
<1> DEFINE few == IF Cardinality(Paired) < p.minimum THEN {"INCONCLUSIVE"} ELSE {}
           unseen == {"INCONCLUSIVE" : s \in DOMAIN p.slices \ DOMAIN Compared.slices}
           verdicts == {Verdict(r) : r \in fired}
<1>7. F = few \cup unseen \cup verdicts
  <2> DEFINE h == IF HiddenDropped(Compared, p, rounded) THEN {Verdict(p.hidden)} ELSE {}
             g == IF ForbiddenRose(Compared, p, rounded) THEN {Verdict(p.forbidden)} ELSE {}
             w == {Verdict(p.slices[s]) : s \in dropped}
  <2>1. {s \in DOMAIN p.slices \cap DOMAIN Compared.slices :
            SliceDropped(Compared, p, rounded, s)} = dropped
    BY <1>1
  <2>2. F = few \cup h \cup g \cup unseen \cup w
    BY <1>6, <2>1 DEF Findings
  <2>3. verdicts = h \cup g \cup w
    <3> HIDE DEF dropped
    <3> QED OBVIOUS
  <2> HIDE DEF F, few, unseen, verdicts, h, g, w
  <2> QED BY <2>2, <2>3
<1>8. few \cup unseen = IF thin THEN {"INCONCLUSIVE"} ELSE {}
  <2>1. DOMAIN p.slices \ DOMAIN Compared.slices = DOMAIN p.slices \ seen
    BY <1>1
  <2>2. seen # DOMAIN p.slices <=> DOMAIN p.slices \ seen # {}
    OBVIOUS
  <2> HIDE DEF seen
  <2> QED BY <2>1, <2>2
<1>9. \A r : Verdict(r) = "BLOCK" <=> r.severity = "blocking"
  BY DEF Verdict
<1>10. \A r : Verdict(r) \in {"BLOCK", "WARN"}
  BY DEF Verdict
<1> HIDE DEF F, few, unseen, thin, broken, fired, doubtful
<1>11. /\ F \subseteq {"INCONCLUSIVE", "BLOCK", "WARN"}
       /\ "INCONCLUSIVE" \in F <=> thin
       /\ "BLOCK" \in F <=> blocking(fired)
       /\ F = {} <=> ~(thin \/ fired # {})
  <2>1. \A x \in verdicts : x \in {"BLOCK", "WARN"}
    BY <1>10
  <2>2. "BLOCK" \in verdicts <=> blocking(fired)
    BY <1>9
  <2>3. verdicts = {} <=> fired = {}
    OBVIOUS
  <2> HIDE DEF verdicts, blocking
  <2>4. CASE thin
    BY <1>7, <1>8, <2>1, <2>2, <2>4
  <2>5. CASE ~thin
    BY <1>7, <1>8, <2>1, <2>2, <2>3, <2>5
  <2> QED BY <2>4, <2>5
<1>12. decision.outcome = Outcome(F)
  BY <1>0 DEF EvaluateGate, F
<1>13. /\ decision.outcome = "BLOCK" <=> blocking(fired)
       /\ GateExit(decision.outcome) = 1 <=> blocking(fired) \/ thin
       /\ decision.outcome = "PASS" <=> ~(thin \/ fired # {})
  <2> HIDE DEF blocking
  <2>1. GateExit(decision.outcome) = 1 <=> ~(GateExit(decision.outcome) = 0)
    BY DEF GateExit
  <2>2. /\ Outcome(F) = "BLOCK" <=> "BLOCK" \in F
        /\ GateExit(Outcome(F)) = 0 <=> "BLOCK" \notin F /\ "INCONCLUSIVE" \notin F
        /\ Outcome(F) = "PASS" <=> F = {}
    BY <1>11, OutcomePrecedence
  <2> QED BY <1>11, <1>12, <2>1, <2>2, Zenon
<1>14. /\ blocking(broken) => blocking(fired)
       /\ blocking(fired) => blocking(doubtful)
       /\ broken # {} => fired # {}
       /\ fired # {} => doubtful # {}
  BY <1>5
<1>15. /\ blocking(broken) => decision.outcome = "BLOCK"
       /\ decision.outcome = "BLOCK" => blocking(doubtful)
       /\ blocking(broken) \/ thin => GateExit(decision.outcome) = 1
       /\ GateExit(decision.outcome) = 1 => blocking(doubtful) \/ thin
       /\ thin \/ broken # {} => decision.outcome # "PASS"
       /\ decision.outcome # "PASS" => thin \/ doubtful # {}
  <2> HIDE DEF blocking
  <2> QED BY <1>13, <1>14
<1> QED BY <1>15 DEF GateDecides, thin, broken, doubtful
=============================================================================
