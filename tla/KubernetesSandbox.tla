------------------------- MODULE KubernetesSandbox --------------------------
(***************************************************************************)
(* One candidate test as a Kubernetes Job (kubernetes_sandbox.py):         *)
(* run_test creates a ConfigMap, a NetworkPolicy and a Job, polls          *)
(* job_outcome, and cleans up whatever it attempted to create, over calls  *)
(* that may fail before or after they took effect.  The Job controller and *)
(* the kubelet are the environment.  Names are fresh UUIDs, so runs do not *)
(* share objects; each is one member of Runs.                              *)
(***************************************************************************)
EXTENDS FiniteSets

CONSTANT Runs

Kinds == {"config_map", "network_policy", "job"}

VARIABLES
    pc,            \* the call each run makes next
    attempted,     \* the objects whose creation was attempted
    objects,       \* the objects that exist
    job,           \* status of the Job: "active", "complete", "failed", "deadline"
    deleting,      \* the Job is being deleted in the foreground
    pod,           \* the candidate's pod
    exit,          \* how the candidate's container ended, if it did
    jobFailed,     \* status.failed as job_outcome read it
    verdict,       \* the outcome found: "none", "passed" or "failed"
    cleanupFailed  \* _cleanup collected an error

clusterVars == <<objects, job, deleting, pod, exit>>
vars == <<pc, attempted, clusterVars, jobFailed, verdict, cleanupFailed>>

Over == {"returned", "raised", "crashed"}
Calls == {"create_config_map", "create_network_policy", "create_job",
          "read_job", "read_pod", "delete_job", "confirm_job",
          "delete_network_policy", "delete_config_map"}

Init ==
    /\ pc = [r \in Runs |-> "create_config_map"]
    /\ attempted = [r \in Runs |-> {}]
    /\ objects = [r \in Runs |-> {}]
    /\ job = [r \in Runs |-> "active"]
    /\ deleting = [r \in Runs |-> FALSE]
    /\ pod = [r \in Runs |-> "none"]
    /\ exit = [r \in Runs |-> "none"]
    /\ jobFailed = [r \in Runs |-> FALSE]
    /\ verdict = [r \in Runs |-> "none"]
    /\ cleanupFailed = [r \in Runs |-> FALSE]

Goto(r, call) == pc' = [pc EXCEPT ![r] = call]

-----------------------------------------------------------------------------
(* Mutant: the object is noted only once its creation was confirmed. *)
NoteConfirmed(r, kind, confirmed) ==
    attempted' = [attempted EXCEPT ![r] = IF confirmed THEN @ \cup {kind} ELSE @]

(* attempted.append comes before the call. *)
Note(r, kind, confirmed) ==
    attempted' = [attempted EXCEPT ![r] = @ \cup {kind}]

(* A create call: confirmed, or an exception with or without an effect,    *)
(* which the finally clause turns into the cleanup.                        *)
Create(r, kind, call, then) ==
    /\ pc[r] = call
    /\ \/ /\ objects' = [objects EXCEPT ![r] = @ \cup {kind}]
          /\ Note(r, kind, TRUE)
          /\ Goto(r, then)
       \/ /\ objects' \in {objects, [objects EXCEPT ![r] = @ \cup {kind}]}
          /\ Note(r, kind, FALSE)
          /\ Goto(r, "delete_job")
    /\ UNCHANGED <<job, deleting, pod, exit, jobFailed, verdict, cleanupFailed>>

CreateConfigMap(r) ==
    Create(r, "config_map", "create_config_map", "create_network_policy")
CreateNetworkPolicy(r) ==
    Create(r, "network_policy", "create_network_policy", "create_job")
CreateJob(r) == Create(r, "job", "create_job", "read_job")

-----------------------------------------------------------------------------
(* status.failed counts a pod, so it stays unset if there never was one. *)
DeadlineExceeded(r) == job[r] = "deadline" /\ pod[r] # "none"

(* job_outcome, first call: the status of the Job. *)
ReadJob(r) ==
    /\ pc[r] = "read_job"
    /\ "job" \in objects[r]
    /\ IF DeadlineExceeded(r)
       THEN /\ verdict' = [verdict EXCEPT ![r] = "failed"]
            /\ Goto(r, "delete_job")
            /\ UNCHANGED jobFailed
       ELSE /\ jobFailed' = [jobFailed EXCEPT ![r] = job[r] = "failed"]
            /\ Goto(r, "read_pod")
            /\ UNCHANGED verdict
    /\ UNCHANGED <<clusterVars, attempted, cleanupFailed>>

(* Mutant: every pod that has failed is a failed test. *)
AnyFailureIsVerdict(r) ==
    CASE pod[r] = "passed" -> "passed"
      [] pod[r] \in {"failed", "killed", "stuck", "evicted"} -> "failed"
      [] OTHER -> "none"

(* state.terminated of the container: exit code 0 or any other, by whatever *)
(* the container ended.                                                     *)
PodVerdict(r) ==
    CASE pod[r] = "passed" -> "passed"
      [] pod[r] \in {"failed", "killed"} -> "failed"
      [] OTHER -> "none"

(* A failed Job without a pod, a container that cannot start and a pod     *)
(* that failed without an exit code are infrastructure errors.             *)
PodError(r) ==
    \/ pod[r] \in {"none", "gone"} /\ jobFailed[r]
    \/ pod[r] \in {"stuck", "evicted"} /\ PodVerdict(r) = "none"

(* The pod and its log. *)
ReadPod(r) ==
    /\ pc[r] = "read_pod"
    /\ verdict' = [verdict EXCEPT ![r] = PodVerdict(r)]
    /\ Goto(r, IF PodVerdict(r) = "none" /\ ~PodError(r)
               THEN "read_job" ELSE "delete_job")
    /\ UNCHANGED <<clusterVars, attempted, jobFailed, cleanupFailed>>

(* A read fails. *)
ReadFails(r) ==
    /\ pc[r] \in {"read_job", "read_pod"}
    /\ Goto(r, "delete_job")
    /\ UNCHANGED <<clusterVars, attempted, jobFailed, verdict, cleanupFailed>>

(* The completion deadline of the polling loop. *)
DeadlinePasses(r) ==
    /\ pc[r] = "read_job"
    /\ Goto(r, "delete_job")
    /\ UNCHANGED <<clusterVars, attempted, jobFailed, verdict, cleanupFailed>>

-----------------------------------------------------------------------------
(* _cleanup passes over what was not attempted. *)
Skip(r, kind, call, then) ==
    /\ pc[r] = call
    /\ kind \notin attempted[r]
    /\ Goto(r, then)
    /\ UNCHANGED cleanupFailed

(* An error of one deletion is collected and the next one is made. *)
CleanupError(r, then) ==
    /\ cleanupFailed' = [cleanupFailed EXCEPT ![r] = TRUE]
    /\ Goto(r, then)

(* Mutant: the Job's deletion is requested but not awaited. *)
DeleteJobWithoutWaiting(r) ==
    /\ \/ /\ Skip(r, "job", "delete_job", "delete_network_policy")
          /\ UNCHANGED deleting
       \/ /\ pc[r] = "delete_job"
          /\ "job" \in attempted[r]
          /\ deleting' = [deleting EXCEPT ![r] = "job" \in objects[r]]
          /\ Goto(r, "delete_network_policy")
          /\ UNCHANGED cleanupFailed
    /\ UNCHANGED <<objects, job, pod, exit, attempted, jobFailed, verdict>>

(* Foreground deletion of the Job: the request, *)
DeleteJob(r) ==
    /\ \/ /\ Skip(r, "job", "delete_job", "delete_network_policy")
          /\ UNCHANGED deleting
       \/ /\ pc[r] = "delete_job"
          /\ "job" \in attempted[r]
          /\ \/ /\ "job" \notin objects[r]
                /\ Goto(r, "delete_network_policy")
                /\ UNCHANGED <<deleting, cleanupFailed>>
             \/ /\ "job" \in objects[r]
                /\ deleting' = [deleting EXCEPT ![r] = TRUE]
                /\ Goto(r, "confirm_job")
                /\ UNCHANGED cleanupFailed
             \/ /\ deleting' \in {deleting, [deleting EXCEPT ![r] = "job" \in objects[r]]}
                /\ CleanupError(r, "delete_network_policy")
    /\ UNCHANGED <<objects, job, pod, exit, attempted, jobFailed, verdict>>

(* Mutant: the deletion of the Job is awaited without a deadline. *)
AwaitForEver(r) == FALSE

(* the ten seconds it may take, or an error of a read, *)
ConfirmTimesOut(r) == pc[r] = "confirm_job"

(* and the reads that wait for a 404. *)
ConfirmJob(r) ==
    /\ \/ /\ pc[r] = "confirm_job"
          /\ "job" \notin objects[r]
          /\ Goto(r, "delete_network_policy")
          /\ UNCHANGED cleanupFailed
       \/ /\ ConfirmTimesOut(r)
          /\ CleanupError(r, "delete_network_policy")
    /\ UNCHANGED <<clusterVars, attempted, jobFailed, verdict>>

(* The result of run_test: an exception, or the verdict. *)
Result(r) ==
    IF cleanupFailed'[r] \/ verdict[r] = "none" THEN "raised" ELSE "returned"

Delete(r, kind, call, then) ==
    /\ \/ /\ Skip(r, kind, call, then)
          /\ UNCHANGED objects
       \/ /\ pc[r] = call
          /\ kind \in attempted[r]
          /\ \/ /\ objects' = [objects EXCEPT ![r] = @ \ {kind}]
                /\ Goto(r, then)
                /\ UNCHANGED cleanupFailed
             \/ /\ objects' \in {objects, [objects EXCEPT ![r] = @ \ {kind}]}
                /\ CleanupError(r, then)
    /\ UNCHANGED <<job, deleting, pod, exit, attempted, jobFailed, verdict>>

DeleteNetworkPolicy(r) ==
    Delete(r, "network_policy", "delete_network_policy", "delete_config_map")
DeleteConfigMap(r) ==
    \E then \in {"returned", "raised"} :
        /\ Delete(r, "config_map", "delete_config_map", then)
        /\ then = Result(r)

(* The worker process dies: no finally clause runs. *)
Crash(r) ==
    /\ pc[r] \in Calls
    /\ Goto(r, "crashed")
    /\ UNCHANGED <<clusterVars, attempted, jobFailed, verdict, cleanupFailed>>
-----------------------------------------------------------------------------
(* The Job controller and the kubelet. *)
PodMoves(r, from, to) ==
    /\ pod[r] \in from
    /\ pod' = [pod EXCEPT ![r] = to]

PodCreated(r) ==
    /\ "job" \in objects[r] /\ job[r] = "active" /\ ~deleting[r]
    /\ PodMoves(r, {"none"}, "waiting")
    /\ UNCHANGED <<objects, job, deleting, exit>>

(* The container starts, or waits on an image or configuration error. *)
PodStarts(r) ==
    /\ \/ "config_map" \in objects[r] /\ PodMoves(r, {"waiting", "stuck"}, "running")
       \/ PodMoves(r, {"waiting"}, "stuck")
    /\ UNCHANGED <<objects, job, deleting, exit>>

PodExits(r) ==
    /\ \E status \in {"passed", "failed"} :
        /\ PodMoves(r, {"running"}, status)
        /\ exit' = [exit EXCEPT ![r] = status]
    /\ UNCHANGED <<objects, job, deleting>>

(* Evicted, preempted or lost with its node: the pod fails and shows no     *)
(* terminated container,                                                    *)
PodEvicted(r) ==
    /\ PodMoves(r, {"waiting", "stuck", "running"}, "evicted")
    /\ UNCHANGED <<objects, job, deleting, exit>>

(* or the container that was running was killed and reports a non-zero exit *)
(* code, as it does when it is out of memory.                               *)
ContainerKilled(r) ==
    /\ PodMoves(r, {"running"}, "killed")
    /\ exit' = [exit EXCEPT ![r] = "killed"]
    /\ UNCHANGED <<objects, job, deleting>>

(* No retries: the Job ends with its pod, or at its own deadline. *)
JobEnds(r) ==
    /\ "job" \in objects[r] /\ job[r] = "active"
    /\ \E status \in {"complete", "failed", "deadline"} :
        /\ status = "complete" => pod[r] = "passed"
        /\ status = "failed" => pod[r] \in {"failed", "killed", "evicted"}
        /\ job' = [job EXCEPT ![r] = status]
    /\ UNCHANGED <<objects, deleting, pod, exit>>

(* The pod goes first, then the Job. *)
PodRemoved(r) ==
    /\ deleting[r] \/ job[r] = "deadline"
    /\ PodMoves(r, {"waiting", "stuck", "running", "passed", "failed", "killed",
                    "evicted"}, "gone")
    /\ UNCHANGED <<objects, job, deleting, exit>>

JobRemoved(r) ==
    /\ deleting[r] /\ "job" \in objects[r]
    /\ pod[r] \in {"none", "gone"}
    /\ objects' = [objects EXCEPT ![r] = @ \ {"job"}]
    /\ deleting' = [deleting EXCEPT ![r] = FALSE]
    /\ UNCHANGED <<job, pod, exit>>

(* ttlSecondsAfterFinished, long after the run. *)
JobExpires(r) ==
    /\ pc[r] \in Over
    /\ "job" \in objects[r] /\ job[r] # "active" /\ ~deleting[r]
    /\ deleting' = [deleting EXCEPT ![r] = TRUE]
    /\ UNCHANGED <<objects, job, pod, exit>>

Cluster(r) ==
    /\ \/ PodCreated(r) \/ PodStarts(r)
       \/ PodExits(r) \/ PodEvicted(r) \/ ContainerKilled(r)
       \/ JobEnds(r) \/ PodRemoved(r) \/ JobRemoved(r) \/ JobExpires(r)
    /\ UNCHANGED <<pc, attempted, jobFailed, verdict, cleanupFailed>>

RunTest(r) ==
    \/ CreateConfigMap(r) \/ CreateNetworkPolicy(r) \/ CreateJob(r)
    \/ ReadJob(r) \/ ReadPod(r) \/ ReadFails(r)
    \/ DeleteJob(r) \/ ConfirmJob(r)
    \/ DeleteNetworkPolicy(r) \/ DeleteConfigMap(r)

Next == \E r \in Runs : RunTest(r) \/ DeadlinePasses(r) \/ Cluster(r) \/ Crash(r)

(* Every call returns or raises, and the deadline of the loop, which is    *)
(* compared before every poll, passes.                                     *)
Fairness == \A r \in Runs : WF_vars(RunTest(r)) /\ SF_vars(DeadlinePasses(r))

Spec == Init /\ [][Next]_vars
FairSpec == Spec /\ Fairness

-----------------------------------------------------------------------------
TypeOK ==
    /\ pc \in [Runs -> Calls \cup Over]
    /\ attempted \in [Runs -> SUBSET Kinds]
    /\ objects \in [Runs -> SUBSET Kinds]
    /\ job \in [Runs -> {"active", "complete", "failed", "deadline"}]
    /\ deleting \in [Runs -> BOOLEAN]
    /\ pod \in [Runs -> {"none", "waiting", "stuck", "running", "passed", "failed",
                         "killed", "evicted", "gone"}]
    /\ exit \in [Runs -> {"none", "passed", "failed", "killed"}]
    /\ jobFailed \in [Runs -> BOOLEAN]
    /\ verdict \in [Runs -> {"none", "passed", "failed"}]
    /\ cleanupFailed \in [Runs -> BOOLEAN]
    /\ \A r \in Runs : objects[r] \subseteq attempted[r]

(* A candidate that may execute, now or later.                             *)
Candidate(r) == pod[r] \in {"waiting", "stuck", "running"}

(* The deny-all NetworkPolicy is in force for as long as there is a        *)
(* candidate, from before its pod exists until after it is gone, whatever  *)
(* failed on the way, unless a call of the cleanup itself failed.          *)
IsolatedUntilCleanedUp ==
    \A r \in Runs : Candidate(r) /\ ~cleanupFailed[r] => "network_policy" \in objects[r]

(* "Partial creation rolls back every attempted resource, including a      *)
(* request whose success response might have been lost": unless the        *)
(* cleanup reported an error, nothing is left when run_test ends.          *)
NothingLeftBehind ==
    \A r \in Runs :
        pc[r] \in {"returned", "raised"} /\ ~cleanupFailed[r] =>
            objects[r] = {} /\ pod[r] \in {"none", "gone"}

(* A test passes only if the candidate's container exited with code 0.  It *)
(* fails only if the container ended with another code, its own or that of *)
(* a kill, or if the Job's deadline passed, whatever the pod was doing     *)
(* then (waiting for its image included: job_outcome looks at the deadline *)
(* first).  Before the deadline an image error, a missing pod, an eviction *)
(* that left no exit code and a failing call end in an exception.          *)
VerdictExplained ==
    \A r \in Runs :
        pc[r] = "returned" =>
            \/ verdict[r] = "passed" /\ exit[r] = "passed"
            \/ verdict[r] = "failed" /\ exit[r] \in {"failed", "killed"}
            \/ verdict[r] = "failed" /\ job[r] = "deadline"

(* run_test ends, however the cluster behaves: Jobs that never start, never *)
(* finish or never disappear included.                                     *)
RunEnds == \A r \in Runs : <>(pc[r] \in Over)
=============================================================================
