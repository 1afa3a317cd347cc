---------------------- MODULE KubernetesSandboxProofs -----------------------
(***************************************************************************)
(* run_test leaves nothing behind and has a reason for its verdict, for    *)
(* any number of runs.  The argument follows the order of the calls: what  *)
(* exists was attempted, the policy is there before the Job and is deleted *)
(* after it, and each deletion is confirmed or reported.                   *)
(***************************************************************************)
EXTENDS KubernetesSandbox, TLAPS

CleaningUp == {"delete_network_policy", "delete_config_map", "returned", "raised"}

(* The calls are made in this order. *)
CreationOrder(r) ==
    /\ pc[r] \in {"create_config_map", "create_network_policy", "create_job"} =>
          "job" \notin attempted[r]
    /\ pc[r] = "create_job" => "network_policy" \in objects[r]

(* A pod belongs to the Job, and the policy is there for as long as the    *)
(* Job.                                                                    *)
JobCovered(r) ==
    /\ "job" \notin objects[r] => pod[r] \in {"none", "gone"}
    /\ "job" \in objects[r] => "network_policy" \in objects[r] \/ cleanupFailed[r]

(* Where the cleanup has come by without an error, the object is gone. *)
CleanedUp(r) ==
    ~cleanupFailed[r] =>
        /\ pc[r] \in CleaningUp => "job" \notin objects[r]
        /\ pc[r] \in CleaningUp \ {"delete_network_policy"} =>
              "network_policy" \notin objects[r]
        /\ pc[r] \in {"returned", "raised"} => "config_map" \notin objects[r]

(* The end of the container stays the one the pod shows, and a verdict is  *)
(* that end or the deadline of the Job.                                    *)
VerdictSound(r) ==
    /\ pod[r] \in {"passed", "failed", "killed"} => exit[r] = pod[r]
    /\ exit[r] # "none" => pod[r] \in {"passed", "failed", "killed", "gone"}
    /\ \/ verdict[r] = "none"
       \/ verdict[r] = "passed" /\ exit[r] = "passed"
       \/ verdict[r] = "failed" /\ exit[r] \in {"failed", "killed"}
       \/ verdict[r] = "failed" /\ job[r] = "deadline"
    /\ pc[r] = "returned" => verdict[r] # "none"

RunInv(r) == CreationOrder(r) /\ JobCovered(r) /\ CleanedUp(r) /\ VerdictSound(r)

SandboxInv == TypeOK /\ \A r \in Runs : RunInv(r)

(* No call has been made. *)
LEMMA InitInv == Init => SandboxInv
<1> SUFFICES ASSUME Init PROVE SandboxInv
  OBVIOUS
<1>1. TypeOK
  BY DEF Init, TypeOK, Calls, Over, Kinds
<1>2. \A r \in Runs : RunInv(r)
  BY DEF Init, RunInv, CreationOrder, JobCovered, CleanedUp, VerdictSound, CleaningUp
<1> QED BY <1>1, <1>2 DEF SandboxInv

(* The other runs are not touched by a step of run r. *)
LEMMA OthersKept ==
  ASSUME SandboxInv, NEW r \in Runs, NEW q \in Runs, q # r,
         pc'[q] = pc[q], attempted'[q] = attempted[q], objects'[q] = objects[q],
         job'[q] = job[q], pod'[q] = pod[q], exit'[q] = exit[q],
         verdict'[q] = verdict[q], cleanupFailed'[q] = cleanupFailed[q]
  PROVE  RunInv(q)'
BY DEF SandboxInv, RunInv, CreationOrder, JobCovered, CleanedUp, VerdictSound

(* A creation. *)
LEMMA CreateKeeps ==
  ASSUME SandboxInv, NEW r \in Runs, NEW kind, NEW call, NEW then,
         Create(r, kind, call, then),
         \/ kind = "config_map" /\ call = "create_config_map" /\ then = "create_network_policy"
         \/ kind = "network_policy" /\ call = "create_network_policy" /\ then = "create_job"
         \/ kind = "job" /\ call = "create_job" /\ then = "read_job"
  PROVE  SandboxInv'
<1>1. /\ pc[r] = call
      /\ \/ /\ objects' = [objects EXCEPT ![r] = @ \cup {kind}]
            /\ pc' = [pc EXCEPT ![r] = then]
         \/ /\ objects' \in {objects, [objects EXCEPT ![r] = @ \cup {kind}]}
            /\ pc' = [pc EXCEPT ![r] = "delete_job"]
      /\ attempted' = [attempted EXCEPT ![r] = @ \cup {kind}]
      /\ UNCHANGED <<job, deleting, pod, exit, jobFailed, verdict, cleanupFailed>>
  BY DEF Create, Note, Goto
<1>2. TypeOK'
  BY <1>1 DEF SandboxInv, TypeOK, Calls, Kinds
<1>3. RunInv(r)'
  BY <1>1 DEF SandboxInv, TypeOK, RunInv, CreationOrder, JobCovered, CleanedUp,
              VerdictSound, CleaningUp
<1>4. ASSUME NEW q \in Runs, q # r PROVE RunInv(q)'
  BY <1>1, <1>4, OthersKept DEF SandboxInv, TypeOK
<1> QED BY <1>2, <1>3, <1>4 DEF SandboxInv

(* A read of the outcome. *)
LEMMA ReadKeeps ==
  ASSUME SandboxInv, NEW r \in Runs,
         ReadJob(r) \/ ReadPod(r) \/ ReadFails(r) \/ DeadlinePasses(r)
  PROVE  SandboxInv'
<1>1. /\ pc[r] \in {"read_job", "read_pod"}
      /\ \E call \in {"read_job", "read_pod", "delete_job"} : pc' = [pc EXCEPT ![r] = call]
      /\ UNCHANGED <<objects, job, deleting, pod, exit, attempted, cleanupFailed>>
  BY DEF ReadJob, ReadPod, ReadFails, DeadlinePasses, Goto, clusterVars
<1>2. \/ verdict' = verdict
      \/ verdict' = [verdict EXCEPT ![r] = "failed"] /\ job[r] = "deadline"
      \/ verdict' = [verdict EXCEPT ![r] = PodVerdict(r)]
  BY DEF ReadJob, ReadPod, ReadFails, DeadlinePasses, DeadlineExceeded
<1>3. jobFailed' \in [Runs -> BOOLEAN]
  BY DEF SandboxInv, TypeOK, ReadJob, ReadPod, ReadFails, DeadlinePasses
<1>4. TypeOK'
  <2>1. PodVerdict(r) \in {"none", "passed", "failed"}
    BY DEF PodVerdict
  <2>2. verdict' \in [Runs -> {"none", "passed", "failed"}]
    BY <1>2, <2>1 DEF SandboxInv, TypeOK
  <2>3. pc' \in [Runs -> Calls \cup Over]
    BY <1>1 DEF SandboxInv, TypeOK, Calls
  <2> QED BY <1>1, <1>3, <2>2, <2>3 DEF SandboxInv, TypeOK
<1>5. RunInv(r)'
  BY <1>1, <1>2 DEF SandboxInv, TypeOK, RunInv, CreationOrder, JobCovered, CleanedUp,
              VerdictSound, CleaningUp, PodVerdict
<1>6. ASSUME NEW q \in Runs, q # r PROVE RunInv(q)'
  BY <1>1, <1>2, <1>6, OthersKept DEF SandboxInv, TypeOK
<1> QED BY <1>4, <1>5, <1>6 DEF SandboxInv

(* The deletion of the Job, and the wait for its end. *)
LEMMA DeleteJobKeeps ==
  ASSUME SandboxInv, NEW r \in Runs, DeleteJob(r) \/ ConfirmJob(r)
  PROVE  SandboxInv'
<1>1. /\ pc[r] \in {"delete_job", "confirm_job"}
      /\ \/ /\ pc' = [pc EXCEPT ![r] = "confirm_job"]
            /\ UNCHANGED cleanupFailed
         \/ /\ pc' = [pc EXCEPT ![r] = "delete_network_policy"]
            /\ \/ UNCHANGED cleanupFailed /\ "job" \notin objects[r]
               \/ cleanupFailed' = [cleanupFailed EXCEPT ![r] = TRUE]
      /\ UNCHANGED <<objects, job, pod, exit, attempted, jobFailed, verdict>>
  BY DEF SandboxInv, TypeOK, DeleteJob, ConfirmJob, ConfirmTimesOut, Skip, CleanupError,
         Goto, clusterVars
<1>2. deleting' \in [Runs -> BOOLEAN]
  <2>1. deleting \in [Runs -> BOOLEAN]
    BY DEF SandboxInv, TypeOK
  <2>2. \/ deleting' = deleting
        \/ deleting' = [deleting EXCEPT ![r] = TRUE]
        \/ deleting' = [deleting EXCEPT ![r] = "job" \in objects[r]]
    BY DEF DeleteJob, ConfirmJob, clusterVars
  <2>3. CASE "job" \in objects[r]
    <3>1. ("job" \in objects[r]) = TRUE
      BY <2>3
    <3>2. deleting' = deleting \/ deleting' = [deleting EXCEPT ![r] = TRUE]
      BY <2>2, <3>1, Zenon
    <3> QED BY <2>1, <3>2
  <2>4. CASE ~("job" \in objects[r])
    <3>1. ("job" \in objects[r]) = FALSE
      BY <2>4
    <3>2. \/ deleting' = deleting \/ deleting' = [deleting EXCEPT ![r] = TRUE]
          \/ deleting' = [deleting EXCEPT ![r] = FALSE]
      BY <2>2, <3>1, Zenon
    <3> QED BY <2>1, <3>2
  <2> QED BY <2>3, <2>4
<1>3. TypeOK'
  BY <1>1, <1>2 DEF SandboxInv, TypeOK, Calls
<1>4. RunInv(r)'
  BY <1>1 DEF SandboxInv, TypeOK, RunInv, CreationOrder, JobCovered, CleanedUp,
              VerdictSound, CleaningUp
<1>5. ASSUME NEW q \in Runs, q # r PROVE RunInv(q)'
  BY <1>1, <1>5, OthersKept DEF SandboxInv, TypeOK
<1> QED BY <1>3, <1>4, <1>5 DEF SandboxInv

(* The deletion of the NetworkPolicy or of the ConfigMap. *)
LEMMA DeleteKeeps ==
  ASSUME SandboxInv, NEW r \in Runs, DeleteNetworkPolicy(r) \/ DeleteConfigMap(r)
  PROVE  SandboxInv'
<1>1. PICK kind, call, then :
        /\ Delete(r, kind, call, then)
        /\ \/ /\ kind = "network_policy" /\ call = "delete_network_policy"
              /\ then = "delete_config_map"
           \/ /\ kind = "config_map" /\ call = "delete_config_map"
              /\ then \in {"returned", "raised"} /\ then = Result(r)
  BY DEF DeleteNetworkPolicy, DeleteConfigMap
<1>2. /\ pc[r] = call
      /\ pc' = [pc EXCEPT ![r] = then]
      /\ objects' \in {objects, [objects EXCEPT ![r] = @ \ {kind}]}
      /\ \/ UNCHANGED cleanupFailed /\ kind \notin objects'[r]
         \/ cleanupFailed' = [cleanupFailed EXCEPT ![r] = TRUE]
      /\ UNCHANGED <<job, deleting, pod, exit, attempted, jobFailed, verdict>>
  BY <1>1 DEF SandboxInv, TypeOK, Delete, Skip, CleanupError, Goto
<1>3. then = "returned" => verdict[r] # "none"
  BY <1>1 DEF Result
<1>4. TypeOK'
  <2>1. pc' \in [Runs -> Calls \cup Over]
    BY <1>1, <1>2 DEF SandboxInv, TypeOK, Calls, Over
  <2>2. objects' \in [Runs -> SUBSET Kinds] /\ \A q \in Runs : objects'[q] \subseteq objects[q]
    BY <1>2 DEF SandboxInv, TypeOK
  <2>3. cleanupFailed' \in [Runs -> BOOLEAN]
    BY <1>2 DEF SandboxInv, TypeOK
  <2> QED BY <1>2, <2>1, <2>2, <2>3 DEF SandboxInv, TypeOK
<1>5. RunInv(r)'
  <2>1. /\ CreationOrder(r) /\ JobCovered(r) /\ CleanedUp(r) /\ VerdictSound(r)
        /\ pc'[r] = then /\ then \in {"delete_config_map", "returned", "raised"}
        /\ objects'[r] \subseteq objects[r]
        /\ objects'[r] = objects[r] \/ objects'[r] = objects[r] \ {kind}
    BY <1>1, <1>2 DEF SandboxInv, TypeOK, RunInv
  <2>2. \/ cleanupFailed'[r] = cleanupFailed[r] /\ kind \notin objects'[r]
        \/ cleanupFailed'[r] = TRUE
    BY <1>2 DEF SandboxInv, TypeOK
  <2>3. CreationOrder(r)'
    BY <2>1 DEF CreationOrder
  <2>4. JobCovered(r)'
    BY <1>1, <1>2, <2>1, <2>2 DEF JobCovered, CleanedUp, CleaningUp
  <2>5. CleanedUp(r)'
    BY <1>1, <1>2, <2>1, <2>2 DEF CleanedUp, CleaningUp
  <2>6. VerdictSound(r)'
    BY <1>2, <1>3, <2>1 DEF VerdictSound
  <2> QED BY <2>3, <2>4, <2>5, <2>6 DEF RunInv
<1>6. ASSUME NEW q \in Runs, q # r PROVE RunInv(q)'
  BY <1>2, <1>6, OthersKept DEF SandboxInv, TypeOK
<1> QED BY <1>4, <1>5, <1>6 DEF SandboxInv

(* The death of the worker process. *)
LEMMA CrashKeeps ==
  ASSUME SandboxInv, NEW r \in Runs, Crash(r)
  PROVE  SandboxInv'
<1>1. /\ pc' = [pc EXCEPT ![r] = "crashed"]
      /\ UNCHANGED <<clusterVars, attempted, jobFailed, verdict, cleanupFailed>>
  BY DEF Crash, Goto
<1>2. TypeOK'
  BY <1>1 DEF SandboxInv, TypeOK, Over, clusterVars
<1>3. RunInv(r)'
  BY <1>1 DEF SandboxInv, TypeOK, RunInv, CreationOrder, JobCovered, CleanedUp,
              VerdictSound, CleaningUp, clusterVars
<1>4. ASSUME NEW q \in Runs, q # r PROVE RunInv(q)'
  BY <1>1, <1>4, OthersKept DEF SandboxInv, TypeOK, clusterVars
<1> QED BY <1>2, <1>3, <1>4 DEF SandboxInv

(* The Job controller and the kubelet. *)
LEMMA ClusterKeeps ==
  ASSUME SandboxInv, NEW r \in Runs, Cluster(r)
  PROVE  SandboxInv'
<1> USE DEF SandboxInv
<1>0. UNCHANGED <<pc, attempted, jobFailed, verdict, cleanupFailed>> /\ RunInv(r)
  BY DEF Cluster
<1>1. TypeOK' /\ RunInv(r)'
      /\ \A q \in Runs \ {r} :
            objects'[q] = objects[q] /\ job'[q] = job[q] /\ pod'[q] = pod[q]
            /\ exit'[q] = exit[q]
  <2>1. CASE PodCreated(r) \/ PodStarts(r) \/ PodEvicted(r) \/ PodRemoved(r)
    <3>1. PICK from, to :
            /\ PodMoves(r, from, to)
            /\ \/ from = {"none"} /\ to = "waiting" /\ "job" \in objects[r]
               \/ from = {"waiting", "stuck"} /\ to = "running"
               \/ from = {"waiting"} /\ to = "stuck"
               \/ from = {"waiting", "stuck", "running"} /\ to = "evicted"
               \/ /\ from = {"waiting", "stuck", "running", "passed", "failed", "killed",
                             "evicted"}
                  /\ to = "gone"
      BY <2>1 DEF PodCreated, PodStarts, PodEvicted, PodRemoved
    <3>2. UNCHANGED <<objects, job, deleting, exit>>
      BY <2>1 DEF PodCreated, PodStarts, PodEvicted, PodRemoved
    <3>3. pod[r] \in from /\ pod' = [pod EXCEPT ![r] = to]
      BY <3>1 DEF PodMoves
    <3>4. TypeOK'
      BY <1>0, <3>1, <3>2, <3>3 DEF TypeOK
    <3>5. RunInv(r)'
      BY <1>0, <3>1, <3>2, <3>3 DEF TypeOK, RunInv, CreationOrder, JobCovered, CleanedUp,
                                   VerdictSound
    <3> QED BY <3>2, <3>3, <3>4, <3>5 DEF TypeOK
  <2>2. CASE PodExits(r) \/ ContainerKilled(r)
    <3>1. PICK status \in {"passed", "failed", "killed"} :
            /\ pod[r] = "running" /\ pod' = [pod EXCEPT ![r] = status]
            /\ exit' = [exit EXCEPT ![r] = status]
      BY <2>2 DEF PodExits, ContainerKilled, PodMoves
    <3>2. UNCHANGED <<objects, job, deleting>>
      BY <2>2 DEF PodExits, ContainerKilled
    <3>3. TypeOK'
      BY <1>0, <3>1, <3>2 DEF TypeOK
    <3>4. RunInv(r)'
      BY <1>0, <3>1, <3>2 DEF TypeOK, RunInv, CreationOrder, JobCovered, CleanedUp,
                             VerdictSound
    <3> QED BY <3>1, <3>2, <3>3, <3>4 DEF TypeOK
  <2>3. CASE JobEnds(r)
    <3>1. PICK status \in {"complete", "failed", "deadline"} :
            job[r] = "active" /\ job' = [job EXCEPT ![r] = status]
      BY <2>3 DEF JobEnds
    <3>2. UNCHANGED <<objects, deleting, pod, exit>>
      BY <2>3 DEF JobEnds
    <3>3. TypeOK'
      BY <1>0, <3>1, <3>2 DEF TypeOK
    <3>4. RunInv(r)'
      BY <1>0, <3>1, <3>2 DEF TypeOK, RunInv, CreationOrder, JobCovered, CleanedUp,
                             VerdictSound
    <3> QED BY <3>1, <3>2, <3>3, <3>4 DEF TypeOK
  <2>4. CASE JobRemoved(r)
    <3>1. TypeOK'
      BY <1>0, <2>4 DEF TypeOK, JobRemoved
    <3>2. RunInv(r)'
      BY <1>0, <2>4 DEF TypeOK, RunInv, CreationOrder, JobCovered, CleanedUp,
                       VerdictSound, JobRemoved
    <3> QED BY <2>4, <3>1, <3>2 DEF TypeOK, JobRemoved
  <2>5. CASE JobExpires(r)
    <3>1. TypeOK'
      BY <1>0, <2>5 DEF TypeOK, JobExpires
    <3>2. RunInv(r)'
      BY <1>0, <2>5 DEF RunInv, CreationOrder, JobCovered, CleanedUp,
                       VerdictSound, JobExpires
    <3> QED BY <2>5, <3>1, <3>2 DEF JobExpires
  <2> QED BY <2>1, <2>2, <2>3, <2>4, <2>5 DEF Cluster
<1>2. ASSUME NEW q \in Runs, q # r PROVE RunInv(q)'
  <2>1. q \in Runs \ {r}
    BY <1>2
  <2> QED BY <1>0, <1>1, <1>2, <2>1, OthersKept
<1> QED BY <1>1, <1>2

(* Every step of every run and of the cluster preserves the invariant. *)
LEMMA NextKeepsInv == SandboxInv /\ [Next]_vars => SandboxInv'
<1> SUFFICES ASSUME SandboxInv, [Next]_vars PROVE SandboxInv'
  OBVIOUS
<1>1. CASE Next
  <2>1. PICK r \in Runs : RunTest(r) \/ DeadlinePasses(r) \/ Cluster(r) \/ Crash(r)
    BY <1>1 DEF Next
  <2>2. CASE CreateConfigMap(r) \/ CreateNetworkPolicy(r) \/ CreateJob(r)
    BY <2>2, CreateKeeps DEF CreateConfigMap, CreateNetworkPolicy, CreateJob
  <2>3. CASE ReadJob(r) \/ ReadPod(r) \/ ReadFails(r) \/ DeadlinePasses(r)
    BY <2>3, ReadKeeps
  <2>4. CASE DeleteJob(r) \/ ConfirmJob(r)
    BY <2>4, DeleteJobKeeps
  <2>5. CASE DeleteNetworkPolicy(r) \/ DeleteConfigMap(r)
    BY <2>5, DeleteKeeps
  <2>6. CASE Cluster(r)
    BY <2>6, ClusterKeeps
  <2>7. CASE Crash(r)
    BY <2>7, CrashKeeps
  <2> QED BY <2>1, <2>2, <2>3, <2>4, <2>5, <2>6, <2>7 DEF RunTest
<1>2. CASE UNCHANGED vars
  BY <1>2 DEF vars, clusterVars, SandboxInv, TypeOK, RunInv, CreationOrder, JobCovered,
              CleanedUp, VerdictSound
<1> QED BY <1>1, <1>2

(* The calls of run_test, the Job controller and the kubelet keep the       *)
(* objects typed and what exists attempted, and their order keeps the       *)
(* invariant, for every number of runs.                                     *)
THEOREM SandboxInvariant == Spec => []SandboxInv
<1> QED BY InitInv, NextKeepsInv, PTL DEF Spec

(* Whatever call fails or dies, the deny-all policy that run_test creates   *)
(* before the Job is there for as long as a candidate may execute, unless   *)
(* the cleanup collected an error.                                          *)
THEOREM CandidateIsIsolated == Spec => []IsolatedUntilCleanedUp
<1>1. SandboxInv => IsolatedUntilCleanedUp
  BY DEF SandboxInv, RunInv, JobCovered, IsolatedUntilCleanedUp, Candidate
<1> QED BY <1>1, SandboxInvariant, PTL

(* _cleanup leaves no object and no pod behind when run_test ends, unless   *)
(* it reported an error: a request whose reply was lost included.           *)
THEOREM NothingIsLeftBehind == Spec => []NothingLeftBehind
<1>1. SandboxInv => NothingLeftBehind
  BY DEF SandboxInv, TypeOK, RunInv, JobCovered, CleanedUp, CleaningUp, NothingLeftBehind,
         Kinds
<1> QED BY <1>1, SandboxInvariant, PTL

(* A test that job_outcome and run_test report as passed exited with code 0 *)
(* in its container; one they report as failed ended there with another     *)
(* code, killed included, or ran into the deadline of the Job, whatever     *)
(* state its pod was in.                                                    *)
THEOREM VerdictsExplained == Spec => []VerdictExplained
<1>1. SandboxInv => VerdictExplained
  BY DEF SandboxInv, RunInv, VerdictSound, VerdictExplained
<1> QED BY <1>1, SandboxInvariant, PTL
=============================================================================
