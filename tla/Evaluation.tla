----------------------------- MODULE Evaluation -----------------------------
(***************************************************************************)
(* One call of EvaluationEngine.run: the cases of a dataset are run as     *)
(* tasks of one event loop under a semaphore, each through the runtime     *)
(* adapter (a model call that awaits, then the coding sandbox, which does  *)
(* not) and the evaluators of the suite, and gathered in dataset order.    *)
(*                                                                         *)
(* What one executed test file does is an exit status, whether it printed  *)
(* anything, and whether it outlived the timeout.  Exit 1 is any status    *)
(* but 0, the kill by a resource limit (RLIMIT_CPU, memory) included: such *)
(* a test did not end by itself and may have printed nothing.  A test      *)
(* output is the string "ok" or some other "text": no evaluator looks      *)
(* further.                                                                *)
(***************************************************************************)
EXTENDS Integers, Sequences, FiniteSets

CONSTANTS
    Dataset,        \* the cases, in file order
    Evaluators,     \* suite.evaluators
    Concurrency,    \* suite.concurrency
    Trials          \* what may become of a case, see AllTrials

VARIABLES
    stage,          \* position -> waiting, executing, done or raised
    trial,          \* position -> what became of it, once done
    outcome         \* of run(): running, returned or raised

vars == <<stage, trial, outcome>>

Positions == DOMAIN Dataset

(* The process or container of one test file. *)
Executions == [exit : {0, 1}, printed : BOOLEAN, timeout : BOOLEAN]

(* A case ends in the sandbox, in a source it refused, or in a model error. *)
Sandboxed == [kind : {"tested"}, public : Executions, hidden : Executions,
              changed : BOOLEAN, slow : BOOLEAN]
Rejected == [kind |-> "rejected", slow |-> FALSE]
ModelError == [kind |-> "error", slow |-> FALSE]
AllTrials == Sandboxed \cup {Rejected, ModelError}

ASSUME SuiteAssumption == Trials \subseteq AllTrials /\ Concurrency \in 1..32

-----------------------------------------------------------------------------
(* RunTestLenient gives a late test the output of a silent one. *)
RunTestLenient(e) ==
    [passed |-> e.exit = 0 /\ ~e.timeout, output |-> IF e.printed THEN "text" ELSE "ok"]
(* TestExecutor.run_test of the process and podman backends: a non-zero     *)
(* exit, a kill by a resource limit among them, fails, and an empty output  *)
(* is reported as "ok" whatever the status.                                 *)
RunTest(e) ==
    IF e.timeout THEN [passed |-> FALSE, output |-> "text"]
    ELSE [passed |-> e.exit = 0, output |-> IF e.printed THEN "text" ELSE "ok"]

SandboxTools == {"read_file", "search_code", "apply_patch", "run_tests"}

(* CodingSandbox.run: a rejected source is never executed. *)
SandboxRun(t) ==
    IF t.kind = "rejected"
    THEN [public |-> [passed |-> FALSE, output |-> "text"],
          hidden |-> [passed |-> FALSE, output |-> "text"],
          modified |-> {}, tools |-> {}]
    ELSE [public |-> RunTest(t.public), hidden |-> RunTest(t.hidden),
          modified |-> IF t.changed THEN {"app.py"} ELSE {},
          tools |-> SandboxTools]

(* DeterministicCodingRuntime.execute.  StatusFromPublic is the status that *)
(* forgets the hidden tests.                                                *)
StatusFromPublic(r) == IF r.public.passed THEN "passed" ELSE "failed"
ExecutionStatus(r) ==
    IF r.public.passed /\ r.hidden.passed THEN "passed" ELSE "failed"

Execute(t) ==
    IF t.kind = "error"
    THEN [status |-> "error", public |-> "text", hidden |-> "text",
          modified |-> {}, tools |-> {"model_generate"}, slow |-> t.slow]
    ELSE LET r == SandboxRun(t) IN
         [status |-> ExecutionStatus(r),
          public |-> r.public.output, hidden |-> r.hidden.output,
          modified |-> r.modified, tools |-> r.tools \cup {"model_generate"},
          slow |-> t.slow]

(* The evaluators: does the output of a case pass? *)
TestFiles == {"test_app.py"}
Passes(name, case, out) ==
    CASE name = "public_test_success" -> out.public = "ok"
      [] name = "hidden_test_success" -> out.hidden = "ok"
      [] name = "expected_tool_usage" -> case.expectedTools \subseteq out.tools
      [] name = "forbidden_tool_usage" -> case.forbiddenTools \cap out.tools = {}
      [] name = "expected_file_modification" -> case.expectedFiles \subseteq out.modified
      [] name = "forbidden_file_modification" -> case.forbiddenFiles \cap out.modified = {}
      [] name = "patch_scope_score" ->
           Cardinality(out.modified) <= Cardinality(case.expectedFiles)
      [] name = "test_weakening_detection" -> out.modified \cap TestFiles = {}
      [] name = "execution_success" -> out.status = "passed"
      [] name = "execution_duration" -> ~out.slow
      [] name = "composite_score" -> out.status = "passed" /\ out.modified # {}

(* The CaseResult of a position, and CaseResult.hidden_success. *)
Result(p) ==
    LET out == Execute(trial[p]) IN
    [case |-> Dataset[p], status |-> out.status,
     passed |-> {name \in Evaluators : Passes(name, Dataset[p], out)}]

HiddenSuccess(result) == "hidden_test_success" \in result.passed

(* case_results, in dataset order. *)
CaseResults == [p \in Positions |-> Result(p)]

-----------------------------------------------------------------------------
Init ==
    /\ stage = [p \in Positions |-> "waiting"]
    /\ trial = [p \in Positions |-> ModelError]
    /\ outcome = "running"

In(s) == {p \in Positions : stage[p] = s}

(* load_suite or load_jsonl_dataset fails before any task exists. *)
LoadFails ==
    /\ outcome = "running" /\ In("waiting") = Positions
    /\ outcome' = "raised"
    /\ stage' = [p \in Positions |-> "raised"]
    /\ UNCHANGED trial

(* StartCaseLeaking is a semaphore that an exception does not release. *)
StartCaseLeaking(p) ==
    /\ stage[p] = "waiting" /\ \A q \in In("waiting") : p <= q
    /\ Cardinality(In("executing") \cup In("raised")) < Concurrency
    /\ stage' = [stage EXCEPT ![p] = "executing"]
    /\ UNCHANGED <<trial, outcome>>
(* The semaphore lets tasks in first come, first served; the request goes   *)
(* to the model and the task awaits.                                        *)
StartCase(p) ==
    /\ stage[p] = "waiting" /\ \A q \in In("waiting") : p <= q
    /\ Cardinality(In("executing")) < Concurrency
    /\ stage' = [stage EXCEPT ![p] = "executing"]
    /\ UNCHANGED <<trial, outcome>>

(* The model answered or failed: the sandbox and the evaluators run to the  *)
(* end without an await, and the semaphore is released.                     *)
FinishCase(p) ==
    /\ stage[p] = "executing"
    /\ \E t \in Trials : trial' = [trial EXCEPT ![p] = t]
    /\ stage' = [stage EXCEPT ![p] = "done"]
    /\ UNCHANGED outcome

(* An unknown agent or bug kind, a sandbox that cannot be created: the      *)
(* exception leaves the task.  gather raises the first one at once and does *)
(* not cancel the other tasks, which go on in the loop of the API and of    *)
(* the polling worker.                                                      *)
RaiseCase(p) ==
    /\ stage[p] = "executing"
    /\ stage' = [stage EXCEPT ![p] = "raised"]
    /\ outcome' = IF outcome = "running" THEN "raised" ELSE outcome
    /\ UNCHANGED trial

(* The commands that run one evaluation do so in asyncio.run, which cancels *)
(* the tasks that are left once run() has raised: they end where they wait, *)
(* for the semaphore or for the model.                                      *)
CancelTasks ==
    /\ outcome = "raised"
    /\ In("waiting") \cup In("executing") # {}
    /\ stage' = [p \in Positions |-> IF stage[p] = "done" THEN "done" ELSE "raised"]
    /\ UNCHANGED <<trial, outcome>>

(* gather has every result. *)
Gather ==
    /\ outcome = "running" /\ In("done") = Positions
    /\ outcome' = "returned"
    /\ UNCHANGED <<stage, trial>>

Next ==
    \/ LoadFails \/ CancelTasks \/ Gather
    \/ \E p \in Positions : StartCase(p) \/ FinishCase(p) \/ RaiseCase(p)

(* The loop runs ready tasks, and a model client answers or times out.      *)
(* Nothing is assumed of CancelTasks: the other loops never cancel.         *)
Fairness ==
    /\ WF_vars(Gather)
    /\ \A p \in Positions : WF_vars(StartCase(p)) /\ WF_vars(FinishCase(p) \/ RaiseCase(p))

Spec == Init /\ [][Next]_vars /\ Fairness

-----------------------------------------------------------------------------
(* The tests of a case, as they went: a rejected source and a failed model  *)
(* call have none.                                                          *)
TestsPassed(t) ==
    /\ t.kind = "tested"
    /\ \A e \in {t.public, t.hidden} : e.exit = 0 /\ ~e.timeout

(* A returned run holds one finished result for every case of the dataset,  *)
(* no task of it is left in the loop, a result says "passed" exactly when   *)
(* both test files of that case exited with 0 in time, and no hidden test   *)
(* is credited that was refused, that was never started, or that RunTest    *)
(* stopped at its timeout.  One that a resource limit killed silently is    *)
(* credited: CreditEarned is about that.                                    *)
ReturnedRunSound ==
    outcome = "returned" =>
        /\ In("done") = Positions
        /\ \A p \in Positions :
              /\ CaseResults[p].status = "passed" <=> TestsPassed(trial[p])
              /\ HiddenSuccess(CaseResults[p]) =>
                    trial[p].kind = "tested" /\ ~trial[p].hidden.timeout

(* Hidden tests are release-quality evidence: a case is credited with       *)
(* hidden_test_success only when its hidden tests passed.                   *)
CreditEarned ==
    outcome = "returned" =>
        \A p \in Positions :
            HiddenSuccess(CaseResults[p]) =>
                trial[p].kind = "tested" /\ RunTest(trial[p].hidden).passed

(* Once a case has started, every case comes to an end, also when another   *)
(* case raised and the run is already given up: with a result or an         *)
(* exception of its own, or cancelled with the loop.                        *)
CasesSettle == (In("executing") # {}) ~> (In("waiting") \cup In("executing") = {})
=============================================================================
