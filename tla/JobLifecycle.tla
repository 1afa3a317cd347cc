---------------------------- MODULE JobLifecycle ----------------------------
(***************************************************************************)
(* What a client of the job queue may rely on: the state diagram of        *)
(* docs/distributed-execution.md with the attempt budget and the linked    *)
(* run.  Leases, workers, quotas and time are hidden.                      *)
(***************************************************************************)
EXTENDS Naturals

CONSTANTS Jobs, MaxAttempts

VARIABLES status, attempts, result

vars == <<status, attempts, result>>

Init ==
    /\ status = [j \in Jobs |-> "absent"]
    /\ attempts = [j \in Jobs |-> 0]
    /\ result = [j \in Jobs |-> 0]

Become(j, from, to) ==
    /\ status[j] \in from
    /\ status' = [status EXCEPT ![j] = to]

Submit(j) ==
    /\ Become(j, {"absent"}, "queued")
    /\ UNCHANGED <<attempts, result>>

(* A first attempt, a retry, or an attempt reclaimed from a lost worker. *)
Start(j) ==
    /\ Become(j, {"queued", "running"}, "running")
    /\ attempts[j] < MaxAttempts[j]
    /\ attempts' = [attempts EXCEPT ![j] = @ + 1]
    /\ UNCHANGED result

(* The run of the last attempt, and no other, becomes the result. *)
Complete(j) ==
    /\ Become(j, {"running"}, "completed")
    /\ result' = [result EXCEPT ![j] = attempts[j]]
    /\ UNCHANGED attempts

Requeue(j) ==
    /\ Become(j, {"running"}, "queued")
    /\ attempts[j] < MaxAttempts[j]
    /\ UNCHANGED <<attempts, result>>

GiveUp(j) ==
    /\ Become(j, {"running"}, "failed")
    /\ attempts[j] = MaxAttempts[j]
    /\ UNCHANGED <<attempts, result>>

Cancel(j) ==
    /\ Become(j, {"queued", "running"}, "cancelled")
    /\ UNCHANGED <<attempts, result>>

Next ==
    \E j \in Jobs :
        \/ Submit(j) \/ Start(j) \/ Complete(j)
        \/ Requeue(j) \/ GiveUp(j) \/ Cancel(j)

Spec == Init /\ [][Next]_vars
=============================================================================
