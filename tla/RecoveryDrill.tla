--------------------------- MODULE RecoveryDrill ----------------------------
(***************************************************************************)
(* Scheduled recovery drills (recovery_drill.py): each run prunes retained *)
(* clusters, restores a new one, has a verifier Job check it and archive a *)
(* report, and deletes both only if that succeeded.  Every call may fail   *)
(* with or without an effect and the pod may be killed between two calls.  *)
(* CloudNativePG, the Job controller and S3 are the environment.           *)
(*                                                                         *)
(* A drill stands for its unique name; it may be reused once nothing of    *)
(* the earlier drill is left.                                              *)
(***************************************************************************)
EXTENDS Naturals, Sequences, FiniteSets

CONSTANTS
    Drills,
    MaxFailed,     \* max_failed_drills, from 1 to 10
    MaxOverlap     \* drills that may run at once: 1 for the CronJob alone,
                   \* whose concurrencyPolicy is Forbid, more with manual Jobs

VARIABLES
    pc,            \* the call each drill makes next
    clusters,      \* labelled Cluster objects, oldest first
    phase,         \* state of each drill's cluster
    job,           \* state of each drill's verifier Job
    jobDeleting,   \* verifier Jobs whose deletion was requested
    doomed,        \* clusters a drill has still to prune
    verdict,       \* the report its verifier process has made, while it runs
    report         \* the report archived for each drill

kubernetesVars == <<clusters, phase, job, jobDeleting, verdict, report>>
vars == <<pc, doomed, kubernetesVars>>

Over == {"idle", "passed", "failed"}
Calls == {"list", "prune_job", "prune_cluster", "create_cluster", "wait_cluster",
          "create_job", "wait_job", "delete_job", "delete_cluster"}
Live == {"restoring", "ready", "error"}

(* The verifier Job: its process verifies, puts the report, and looks at   *)
(* an object it finds in the way.                                          *)
Working == {"verifying", "publishing", "confirming"}

Init ==
    /\ pc = [d \in Drills |-> "idle"]
    /\ clusters = <<>>
    /\ phase = [d \in Drills |-> "none"]
    /\ job = [d \in Drills |-> "none"]
    /\ jobDeleting = {}
    /\ doomed = [d \in Drills |-> <<>>]
    /\ verdict = [d \in Drills |-> "none"]
    /\ report = [d \in Drills |-> "none"]

Running == {d \in Drills : pc[d] \notin Over}

(* The drill goes on if the call was confirmed, and ends with an exception *)
(* if its reply was lost.  What it had still to prune is forgotten.        *)
Ends(d) ==
    /\ pc' = [pc EXCEPT ![d] = "failed"]
    /\ doomed' = [doomed EXCEPT ![d] = <<>>]
Confirmed(d, call, victims) ==
    \/ /\ pc' = [pc EXCEPT ![d] = call]
       /\ doomed' = [doomed EXCEPT ![d] = victims]
    \/ Ends(d)

-----------------------------------------------------------------------------
Start(d) ==
    /\ pc[d] \in Over
    /\ phase[d] = "none" /\ job[d] = "none"
    /\ Cardinality(Running) < MaxOverlap
    /\ pc' = [pc EXCEPT ![d] = "list"]
    /\ report' = [report EXCEPT ![d] = "none"]
    /\ UNCHANGED <<clusters, phase, job, jobDeleting, verdict, doomed>>

(* Mutant: room is not made for the cluster about to be created. *)
PruneCountWithoutNew ==
    IF Len(clusters) > MaxFailed THEN Len(clusters) - MaxFailed ELSE 0

PruneCount ==
    IF Len(clusters) + 1 > MaxFailed THEN Len(clusters) + 1 - MaxFailed ELSE 0

(* What comes next in the loop of _prune_failed_drills. *)
PruneNext(victims) == IF victims = <<>> THEN "create_cluster" ELSE "prune_job"

ListClusters(d) ==
    /\ pc[d] = "list"
    /\ LET victims == SubSeq(clusters, 1, PruneCount) IN
        /\ doomed' = [doomed EXCEPT ![d] = victims]
        /\ pc' = [pc EXCEPT ![d] = PruneNext(victims)]
    /\ UNCHANGED kubernetesVars

(* delete_job and delete_cluster accept a 404.  They request a foreground   *)
(* deletion and do not wait: the Job is there until its pod is gone, and    *)
(* the cluster stays listed until its finalizers are done.                  *)
DeleteJobOf(d) ==
    /\ jobDeleting' = IF job[d] = "none" THEN jobDeleting ELSE jobDeleting \cup {d}
    /\ UNCHANGED <<clusters, phase, job, verdict, report>>

DeleteClusterOf(d) ==
    /\ phase' = [phase EXCEPT ![d] = IF @ \in Live THEN "terminating" ELSE @]
    /\ UNCHANGED <<clusters, job, jobDeleting, verdict, report>>

PruneJob(d) ==
    /\ pc[d] = "prune_job"
    /\ DeleteJobOf(Head(doomed[d]))
    /\ Confirmed(d, "prune_cluster", doomed[d])

PruneCluster(d) ==
    /\ pc[d] = "prune_cluster"
    /\ DeleteClusterOf(Head(doomed[d]))
    /\ Confirmed(d, PruneNext(Tail(doomed[d])), Tail(doomed[d]))

CreateCluster(d) ==
    /\ pc[d] = "create_cluster"
    /\ clusters' = Append(clusters, d)
    /\ phase' = [phase EXCEPT ![d] = "restoring"]
    /\ Confirmed(d, "wait_cluster", <<>>)
    /\ UNCHANGED <<job, jobDeleting, verdict, report>>

(* _wait_for_cluster and _wait_for_job see what they wait for; anything    *)
(* else they see, and their deadlines, is Stops.                           *)
WaitForCluster(d) ==
    /\ pc[d] = "wait_cluster"
    /\ phase[d] = "ready"
    /\ pc' = [pc EXCEPT ![d] = "create_job"]
    /\ UNCHANGED <<kubernetesVars, doomed>>

CreateJob(d) ==
    /\ pc[d] = "create_job"
    /\ job' = [job EXCEPT ![d] = "verifying"]
    /\ Confirmed(d, "wait_job", <<>>)
    /\ UNCHANGED <<clusters, phase, jobDeleting, verdict, report>>

(* Mutant: a Job that has finished is taken for one that succeeded. *)
JobFinished(d) == job[d] \in {"succeeded", "failed"}

JobSucceeded(d) == job[d] = "succeeded"

WaitForJob(d) ==
    /\ pc[d] = "wait_job"
    /\ JobSucceeded(d)
    /\ pc' = [pc EXCEPT ![d] = "delete_job"]
    /\ UNCHANGED <<kubernetesVars, doomed>>

(* Mutant: the cluster is deleted first. *)
DeleteClusterFirst(d) ==
    /\ pc[d] = "delete_job"
    /\ DeleteClusterOf(d)
    /\ Confirmed(d, "delete_cluster", <<>>)

DeleteJob(d) ==
    /\ pc[d] = "delete_job"
    /\ DeleteJobOf(d)
    /\ Confirmed(d, "delete_cluster", <<>>)

DeleteCluster(d) ==
    /\ pc[d] = "delete_cluster"
    /\ DeleteClusterOf(d)
    /\ Confirmed(d, "passed", <<>>)

(* A call fails without an effect, a deadline passes, the cluster or the   *)
(* Job has failed, or the pod is killed: nothing is cleaned up.            *)
Stops(d) ==
    /\ pc[d] \notin Over
    /\ Ends(d)
    /\ UNCHANGED kubernetesVars

-----------------------------------------------------------------------------
(* CloudNativePG. *)
Without(s, i) == SubSeq(s, 1, i - 1) \o SubSeq(s, i + 1, Len(s))

ClusterChanges(d) ==
    /\ \/ /\ phase[d] = "restoring"
          /\ phase' \in {[phase EXCEPT ![d] = "ready"], [phase EXCEPT ![d] = "error"]}
          /\ UNCHANGED clusters
       \/ /\ phase[d] = "terminating"
          /\ phase' = [phase EXCEPT ![d] = "none"]
          /\ \E i \in DOMAIN clusters :
                /\ clusters[i] = d
                /\ clusters' = Without(clusters, i)
    /\ UNCHANGED <<pc, job, jobDeleting, verdict, report, doomed>>

-----------------------------------------------------------------------------
(* The verifier Job: store verify-recovery --report-s3 (cli.py,            *)
(* recovery.py).  What the report says of a database is RecoveryVerifier's *)
(* Verify; here it is valid or not.                                        *)

(* RecoveryVerifier.verify on a cluster it can reach.  (It raises          *)
(* otherwise, and the Job fails: JobFails.)                                *)
VerifyDatabase(d) ==
    /\ job[d] = "verifying"
    /\ phase[d] = "ready"
    /\ \E result \in {"valid", "invalid"} :
          verdict' = [verdict EXCEPT ![d] = result]
    /\ job' = [job EXCEPT ![d] = "publishing"]
    /\ UNCHANGED <<pc, clusters, phase, jobDeleting, report, doomed>>

(* The exit status of the command after the publication: 1 unless the      *)
(* report says success.                                                    *)
ExitStatus(d) == IF verdict[d] = "valid" THEN "succeeded" ELSE "failed"
Exits(d, status) ==
    /\ job' = [job EXCEPT ![d] = status]
    /\ verdict' = [verdict EXCEPT ![d] = "none"]

(* put_object with IfNoneMatch.  The S3 client repeats a request whose     *)
(* reply was lost, and then meets its own object.                          *)
PutReport(d) ==
    /\ job[d] = "publishing"
    /\ IF report[d] = "none"
       THEN /\ report' = [report EXCEPT ![d] = verdict[d]]
            /\ Exits(d, ExitStatus(d)) \/ UNCHANGED <<job, verdict>>
       ELSE /\ job' = [job EXCEPT ![d] = "confirming"]
            /\ UNCHANGED <<report, verdict>>
    /\ UNCHANGED <<pc, clusters, phase, jobDeleting, doomed>>

(* head_object: the digest in the metadata must be that of this report. *)
HeadReport(d) ==
    /\ job[d] = "confirming"
    /\ Exits(d, IF report[d] = verdict[d] THEN ExitStatus(d) ELSE "failed")
    /\ UNCHANGED <<pc, clusters, phase, jobDeleting, report, doomed>>

(* A call of the verifier fails for good, its bucket has no Object Lock,   *)
(* or activeDeadlineSeconds have passed.                                   *)
JobFails(d) ==
    /\ job[d] \in Working
    /\ Exits(d, "failed")
    /\ UNCHANGED <<pc, clusters, phase, jobDeleting, report, doomed>>

(* ttlSecondsAfterFinished: two weeks, long after its drill. *)
JobExpires(d) ==
    /\ job[d] \in {"succeeded", "failed"} /\ d \notin jobDeleting
    /\ pc[d] \in Over
    /\ jobDeleting' = jobDeleting \cup {d}
    /\ UNCHANGED <<pc, clusters, phase, job, verdict, report, doomed>>

(* The pod of a Job that is being deleted is gone, finished or killed, and  *)
(* the Job with it.                                                         *)
JobRemoved(d) ==
    /\ d \in jobDeleting
    /\ Exits(d, "none")
    /\ jobDeleting' = jobDeleting \ {d}
    /\ UNCHANGED <<pc, clusters, phase, report, doomed>>

Next ==
    \E d \in Drills :
        \/ Start(d) \/ ListClusters(d) \/ PruneJob(d) \/ PruneCluster(d)
        \/ CreateCluster(d) \/ WaitForCluster(d) \/ CreateJob(d) \/ WaitForJob(d)
        \/ DeleteJob(d) \/ DeleteCluster(d) \/ Stops(d)
        \/ ClusterChanges(d)
        \/ VerifyDatabase(d) \/ PutReport(d) \/ HeadReport(d)
        \/ JobFails(d) \/ JobExpires(d) \/ JobRemoved(d)

Spec == Init /\ [][Next]_vars

-----------------------------------------------------------------------------
TypeOK ==
    /\ pc \in [Drills -> Over \cup Calls]
    /\ phase \in [Drills -> Live \cup {"none", "terminating"}]
    /\ job \in [Drills -> Working \cup {"none", "succeeded", "failed"}]
    /\ jobDeleting \subseteq {d \in Drills : job[d] # "none"}
    /\ verdict \in [Drills -> {"none", "valid", "invalid"}]
    /\ report \in [Drills -> {"none", "valid", "invalid"}]
    /\ \A d \in Drills :
        /\ phase[d] # "none" <=> \E i \in DOMAIN clusters : clusters[i] = d
        /\ pc[d] \in {"prune_job", "prune_cluster"} => doomed[d] # <<>>

(* A Job that is there and that nobody has asked to delete. *)
JobRetained(d) == job[d] # "none" /\ d \notin jobDeleting

(* A drill passes only if a valid report of its own cluster is archived,   *)
(* and then neither the cluster nor the Job is retained: each is gone or   *)
(* on its way.                                                             *)
PassedMeansVerified ==
    \A d \in Drills :
        pc[d] = "passed" =>
            report[d] = "valid" /\ ~JobRetained(d) /\ phase[d] \notin Live

RetainedBounded == Cardinality({d \in Drills : phase[d] \in Live}) <= MaxFailed

JobHasCluster == \A d \in Drills : JobRetained(d) => phase[d] \in Live

(* "Prune the oldest retained failed candidate so no more than two can     *)
(* remain after this run" (docs/recovery-verification.md): whatever fails  *)
(* or is killed, run after run, at most max_failed_drills clusters exist   *)
(* that nobody is deleting, and no verifier Job whose deletion nobody      *)
(* requested is left without such a cluster, so that a prune, which goes   *)
(* by clusters, finds all.                                                 *)
LeftoversBounded == RetainedBounded /\ JobHasCluster
=============================================================================
