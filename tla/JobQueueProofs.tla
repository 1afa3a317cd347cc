--------------------------- MODULE JobQueueProofs ---------------------------
(***************************************************************************)
(* Theorems about JobQueue for any number of jobs, workers, attempts and   *)
(* crashes and any quota policies.                                         *)
(***************************************************************************)
EXTENDS JobQueue, FiniteSetTheorems, TLAPS

(* A process inside run_once, and only such a process, has a job, and only *)
(* it has a heartbeat.                                                     *)
WorkerBusy ==
    \A w \in Workers :
        /\ pc[w] \in Executing <=> job[w] \in Jobs
        /\ heartbeat[w] # "off" => pc[w] \in Executing

TypeInv == TypeOK /\ WorkerBusy

(* The empty tables and idle workers of Init are well typed.               *)
LEMMA TypeInit == Init => TypeInv
  BY ConstantsAssumption DEF Init, TypeInv, TypeOK, WorkerBusy, Executing, Status

(* Every action keeps the types and the attempt budget.                    *)
LEMMA TypeStep == TypeInv /\ [Next]_vars => TypeInv'
<1>. SUFFICES ASSUME TypeInv, [Next]_vars PROVE TypeInv'
  OBVIOUS
<1>. USE ConstantsAssumption DEF TypeInv, TypeOK, WorkerBusy, Executing, Status
<1>1. ASSUME NEW j \in Jobs, CheckSubmission(j) PROVE TypeInv'
  BY <1>1 DEF CheckSubmission, rowVars, procVars
<1>2. ASSUME NEW j \in Jobs, InsertJob(j) PROVE TypeInv'
  BY <1>2 DEF InsertJob, procVars
<1>3. ASSUME NEW j \in Jobs, AbortSubmission(j) PROVE TypeInv'
  BY <1>3 DEF AbortSubmission, rowVars, procVars
<1>4. ASSUME NEW q \in Policies, SetTenantQuota(q) PROVE TypeInv'
  BY <1>4 DEF SetTenantQuota, rowVars, lockVars, procVars
<1>5. ASSUME NEW j \in Jobs, CancelJob(j) PROVE TypeInv'
  BY <1>5 DEF CancelJob, ReleaseLease, lockVars, procVars
<1>6. ASSUME NEW w \in Workers, NEW counted, CheckUsage(w, counted) PROVE TypeInv'
  BY <1>6 DEF CheckUsage, rowVars, Allows
<1>7. ASSUME NEW w \in Workers, NEW visible, Claim(w, visible) PROVE TypeInv'
  <2>1. CASE TakeNothing(w)
    BY <1>7, <2>1 DEF Claim, TakeNothing, rowVars
  <2>2. ASSUME NEW j \in Claimable, TakeJob(w, j) PROVE TypeInv'
    <3>1. j \in Jobs /\ attempts[j] + 1 \in Nat /\ attempts[j] + 1 <= MaxAttempts[j]
      BY <2>2 DEF Claimable
    <3>2. /\ attempts' \in [Jobs -> Nat]
          /\ \A i \in Jobs : attempts'[i] <= MaxAttempts[i]
      BY <3>1, <2>2 DEF TakeJob
    <3>3. /\ job' \in [Workers -> Jobs \cup {NoJob}]
          /\ pc' \in [Workers -> {"idle", "claim", "down"} \cup Executing]
          /\ heartbeat' \in [Workers -> {"off", "on", "stopped", "broken"}]
          /\ WorkerBusy'
      BY <3>1, <2>2 DEF TakeJob
    <3>4. /\ status' \in [Jobs -> Status]
          /\ owner' \in [Jobs -> Workers \cup {NoWorker}]
          /\ lease' \in [Jobs -> {"none", "live", "lapsed"}]
          /\ started' \in [Jobs -> Nat]
          /\ error' \in [Jobs -> Nat]
          /\ attempt' \in [Workers -> Nat]
          /\ revived' \subseteq Jobs
      BY <3>1, <2>2 DEF TakeJob
    <3>. QED
      BY <1>7, <2>2, <3>2, <3>3, <3>4 DEF Claim, TakeJob
  <2>. QED
    BY <1>7, <2>1, <2>2 DEF Claim
<1>8. ASSUME NEW w \in Workers, Evaluate(w) PROVE TypeInv'
  BY <1>8 DEF Evaluate, Goto, rowVars, lockVars
<1>9. ASSUME NEW w \in Workers, SaveRun(w) PROVE TypeInv'
  BY <1>9 DEF SaveRun, Goto, rowVars, lockVars
<1>10. ASSUME NEW w \in Workers, CompleteJob(w) PROVE TypeInv'
  BY <1>10 DEF CompleteJob, ReleaseLease, Goto, lockVars
<1>11. ASSUME NEW w \in Workers, FailJob(w) PROVE TypeInv'
  BY <1>11 DEF FailJob, ReleaseLease, Goto, lockVars
<1>12. ASSUME NEW w \in Workers, Unwind(w) PROVE TypeInv'
  BY <1>12 DEF Unwind, Goto, rowVars, lockVars
<1>13. ASSUME NEW w \in Workers, Heartbeat(w) PROVE TypeInv'
  BY <1>13 DEF Heartbeat, RenewJobLease, lockVars
<1>14. ASSUME NEW j \in Jobs, LeaseLapses(j) PROVE TypeInv'
  BY <1>14 DEF LeaseLapses, lockVars, procVars
<1>15. ASSUME NEW j \in Jobs, LeavesWindow(j) PROVE TypeInv'
  BY <1>15 DEF LeavesWindow, lockVars, procVars
<1>16. ASSUME NEW w \in Workers, Crash(w) PROVE TypeInv'
  BY <1>16 DEF Crash, Goto, rowVars
<1>17. ASSUME NEW w \in Workers, Restart(w) PROVE TypeInv'
  BY <1>17 DEF Restart, Goto, rowVars, lockVars
<1>18. CASE UNCHANGED vars
  BY <1>18 DEF vars, rowVars, lockVars, procVars
<1>. QED
  BY <1>1, <1>2, <1>3, <1>4, <1>5, <1>6, <1>7, <1>8, <1>9, <1>10, <1>11, <1>12,
     <1>13, <1>14, <1>15, <1>16, <1>17, <1>18
     DEF Next, Clients, RunOnce, Environment

(* Every reachable state is well typed; no attempt exceeds its budget. *)
THEOREM TypeCorrect == Spec => []TypeOK
<1>1. TypeInv => TypeOK
  BY DEF TypeInv
<1>. QED
  BY <1>1, TypeInit, TypeStep, PTL DEF Spec

-----------------------------------------------------------------------------
(* The worker-side facts behind RowConsistent and CompletedLinksLastRun.   *)
(* Fencing: a process that executes a job and that the row names as owner  *)
(* works on the last attempt, although leases are recognised by worker id. *)
AttemptFenced ==
    \A w \in Workers :
        pc[w] \in Executing /\ owner[job[w]] = w => attempt[w] = attempts[job[w]]

(* The run is saved before the job is acknowledged. *)
RunSavedFirst ==
    \A w \in Workers : pc[w] = "complete" => <<job[w], attempt[w]>> \in runs

(* A job being submitted has no row yet. *)
SubmissionNew == \A j \in submitting : status[j] = "absent"

SafeInv ==
    /\ TypeInv
    /\ SubmissionNew
    /\ RowConsistent
    /\ AttemptFenced
    /\ RunSavedFirst
    /\ CompletedLinksLastRun

(* The inductive invariant holds of an empty queue.                        *)
LEMMA SafeInit == Init => SafeInv
  BY TypeInit, ConstantsAssumption
  DEF Init, SafeInv, SubmissionNew, RowConsistent, AttemptFenced, RunSavedFirst,
      CompletedLinksLastRun, Executing

(* Every action preserves the inductive invariant: one step per action,    *)
(* and under it one per conjunct that the action can disturb.              *)
LEMMA SafeStep == SafeInv /\ [Next]_vars => SafeInv'
<1>. SUFFICES ASSUME SafeInv, [Next]_vars PROVE SafeInv'
  OBVIOUS
<1>0. TypeInv'
  BY TypeStep DEF SafeInv
<1>. USE ConstantsAssumption, <1>0
     DEF SafeInv, TypeInv, TypeOK, WorkerBusy, SubmissionNew, RowConsistent,
         AttemptFenced, RunSavedFirst, CompletedLinksLastRun, Executing
<1>1. ASSUME NEW j \in Jobs, CheckSubmission(j) PROVE SafeInv'
  BY <1>1 DEF CheckSubmission, rowVars, procVars
<1>2. ASSUME NEW j \in Jobs, InsertJob(j) PROVE SafeInv'
  BY <1>2 DEF InsertJob, procVars
<1>3. ASSUME NEW j \in Jobs, AbortSubmission(j) PROVE SafeInv'
  BY <1>3 DEF AbortSubmission, rowVars, procVars
<1>4. ASSUME NEW q \in Policies, SetTenantQuota(q) PROVE SafeInv'
  BY <1>4 DEF SetTenantQuota, rowVars, lockVars, procVars
<1>5. ASSUME NEW j \in Jobs, CancelJob(j) PROVE SafeInv'
  BY <1>5 DEF CancelJob, ReleaseLease, lockVars, procVars
<1>6. ASSUME NEW w \in Workers, NEW counted, CheckUsage(w, counted) PROVE SafeInv'
  BY <1>6 DEF CheckUsage, rowVars
<1>7. ASSUME NEW w \in Workers, NEW visible, Claim(w, visible) PROVE SafeInv'
  <2>1. CASE TakeNothing(w)
    BY <1>7, <2>1 DEF Claim, TakeNothing, rowVars
  <2>2. ASSUME NEW j \in Claimable, TakeJob(w, j) PROVE SafeInv'
    <3>1. /\ j \in Jobs
          /\ status[j] \in {"queued", "running"}
          /\ attempts[j] \in Nat
          /\ \A i \in Jobs \ {j} :
                /\ status'[i] = status[i] /\ attempts'[i] = attempts[i]
                /\ started'[i] = started[i] /\ owner'[i] = owner[i]
                /\ lease'[i] = lease[i] /\ error'[i] = error[i]
          /\ status'[j] = "running" /\ attempts'[j] = attempts[j] + 1
          /\ started'[j] = attempts[j] + 1 /\ owner'[j] = w
          /\ lease'[j] = "live" /\ error'[j] = 0
      BY <2>2 DEF TakeJob, Claimable
    <3>2. RowConsistent'
      BY <3>1
    <3>3. SubmissionNew'
      BY <1>7, <3>1 DEF Claim
    <3>4. AttemptFenced'
      BY <2>2, <3>1 DEF TakeJob
    <3>5. RunSavedFirst'
      BY <1>7, <2>2 DEF Claim, TakeJob
    <3>6. CompletedLinksLastRun'
      <4>1. result' = result /\ runs' = runs
        BY <1>7, <2>2 DEF Claim, TakeJob
      <4>2. result[j] = 0
        BY <3>1
      <4>. QED
        BY <3>1, <4>1, <4>2
    <3>. QED
      BY <3>2, <3>3, <3>4, <3>5, <3>6
  <2>. QED
    BY <1>7, <2>1, <2>2 DEF Claim
<1>8. ASSUME NEW w \in Workers, Evaluate(w) PROVE SafeInv'
  BY <1>8 DEF Evaluate, Goto, rowVars, lockVars
<1>9. ASSUME NEW w \in Workers, SaveRun(w) PROVE SafeInv'
  BY <1>9 DEF SaveRun, Goto, rowVars, lockVars
<1>10. ASSUME NEW w \in Workers, CompleteJob(w) PROVE SafeInv'
  BY <1>10 DEF CompleteJob, Owns, ReleaseLease, Goto, lockVars
<1>11. ASSUME NEW w \in Workers, FailJob(w) PROVE SafeInv'
  BY <1>11 DEF FailJob, Owns, Exhausted, ReleaseLease, Goto, lockVars
<1>12. ASSUME NEW w \in Workers, Unwind(w) PROVE SafeInv'
  BY <1>12 DEF Unwind, Goto, rowVars, lockVars
<1>13. ASSUME NEW w \in Workers, Heartbeat(w) PROVE SafeInv'
  BY <1>13 DEF Heartbeat, RenewJobLease, Owns, lockVars
<1>14. ASSUME NEW j \in Jobs, LeaseLapses(j) PROVE SafeInv'
  BY <1>14 DEF LeaseLapses, lockVars, procVars
<1>15. ASSUME NEW j \in Jobs, LeavesWindow(j) PROVE SafeInv'
  BY <1>15 DEF LeavesWindow, lockVars, procVars
<1>16. ASSUME NEW w \in Workers, Crash(w) PROVE SafeInv'
  BY <1>16 DEF Crash, Goto, rowVars
<1>17. ASSUME NEW w \in Workers, Restart(w) PROVE SafeInv'
  BY <1>17 DEF Restart, Goto, rowVars, lockVars
<1>18. CASE UNCHANGED vars
  BY <1>18 DEF vars, rowVars, lockVars, procVars
<1>. QED
  BY <1>1, <1>2, <1>3, <1>4, <1>5, <1>6, <1>7, <1>8, <1>9, <1>10, <1>11, <1>12,
     <1>13, <1>14, <1>15, <1>16, <1>17, <1>18
     DEF Next, Clients, RunOnce, Environment

(* Every row of evaluation_jobs stays consistent. *)
THEOREM RowsConsistent == Spec => []RowConsistent
<1>1. SafeInv => RowConsistent
  BY DEF SafeInv
<1>. QED
  BY <1>1, SafeInit, SafeStep, PTL DEF Spec

(* A completed job links the saved run of its last attempt. *)
THEOREM CompletionLinksLastRun == Spec => []CompletedLinksLastRun
<1>1. SafeInv => CompletedLinksLastRun
  BY DEF SafeInv
<1>. QED
  BY <1>1, SafeInit, SafeStep, PTL DEF Spec

-----------------------------------------------------------------------------
(* A lease changes hands only after it lapsed: from RowConsistent, by which *)
(* a row with a live lease is running and so claimable only when lapsed.    *)
THEOREM LeasesExclusive == Spec => LiveLeaseNotStolen
<1>1. SafeInv /\ [Next]_vars =>
        [\A j \in Jobs :
            lease[j] = "live" /\ status'[j] = "running" =>
                owner'[j] = owner[j] /\ attempts'[j] = attempts[j]]_vars
  <2>. SUFFICES ASSUME SafeInv, Next, NEW j \in Jobs,
                       lease[j] = "live", status'[j] = "running"
                PROVE  owner'[j] = owner[j] /\ attempts'[j] = attempts[j]
    OBVIOUS
  <2>. USE DEF SafeInv, TypeInv, TypeOK, RowConsistent
  <2>1. ASSUME NEW w \in Workers, NEW visible, Claim(w, visible)
        PROVE  owner'[j] = owner[j] /\ attempts'[j] = attempts[j]
    <3>1. j \notin Claimable
      BY DEF Claimable, Expired
    <3>. QED
      BY <2>1, <3>1 DEF Claim, TakeNothing, TakeJob, rowVars
  <2>2. ASSUME NEW w \in Workers, CompleteJob(w) \/ FailJob(w)
        PROVE  owner'[j] = owner[j] /\ attempts'[j] = attempts[j]
    BY <2>2 DEF CompleteJob, FailJob, ReleaseLease
  <2>3. ASSUME NEW i \in Jobs, CancelJob(i)
        PROVE  owner'[j] = owner[j] /\ attempts'[j] = attempts[j]
    BY <2>3 DEF CancelJob, ReleaseLease
  <2>. QED
    BY <2>1, <2>2, <2>3
       DEF Next, Clients, RunOnce, Environment, CheckSubmission, InsertJob,
           AbortSubmission, SetTenantQuota, CheckUsage, Evaluate, SaveRun, Unwind,
           Heartbeat, LeaseLapses, LeavesWindow, Crash, Restart, rowVars
<1>. QED
  BY <1>1, SafeInit, SafeStep, PTL DEF Spec, LiveLeaseNotStolen

-----------------------------------------------------------------------------
(* The queue with its leases, workers, quotas and failures implements the  *)
(* documented life cycle: every step is a life-cycle step of one job or    *)
(* leaves status, attempts and results alone.  Fencing (AttemptFenced) is  *)
(* what makes CompleteJob link the last attempt's run.                     *)
THEOREM QueueImplementsLifecycle == Spec => ImplementsLifecycle
<1>1. Init => Lifecycle!Init
  BY DEF Init, Lifecycle!Init
<1>2. SafeInv /\ [Next]_vars => [Lifecycle!Next]_(Lifecycle!vars)
  <2>. SUFFICES ASSUME SafeInv, [Next]_vars PROVE [Lifecycle!Next]_(Lifecycle!vars)
    OBVIOUS
  <2>. USE ConstantsAssumption
       DEF SafeInv, TypeInv, TypeOK, WorkerBusy, SubmissionNew, Executing,
           Lifecycle!Become
  <2>1. ASSUME NEW j \in Jobs, InsertJob(j) PROVE Lifecycle!Next
    <3>1. Lifecycle!Submit(j)
      BY <2>1 DEF InsertJob, Lifecycle!Submit
    <3>. QED
      BY <3>1 DEF Lifecycle!Next
  <2>2. ASSUME NEW j \in Jobs, CancelJob(j) PROVE Lifecycle!Next
    <3>1. Lifecycle!Cancel(j)
      BY <2>2 DEF CancelJob, Lifecycle!Cancel
    <3>. QED
      BY <3>1 DEF Lifecycle!Next
  <2>3. ASSUME NEW w \in Workers, NEW visible, Claim(w, visible)
        PROVE  Lifecycle!Next \/ UNCHANGED Lifecycle!vars
    <3>1. CASE TakeNothing(w)
      BY <3>1 DEF TakeNothing, rowVars, Lifecycle!vars
    <3>2. ASSUME NEW j \in Claimable, TakeJob(w, j) PROVE Lifecycle!Next
      <4>1. j \in Jobs /\ Lifecycle!Start(j)
        BY <3>2 DEF TakeJob, Claimable, Lifecycle!Start
      <4>. QED
        BY <4>1 DEF Lifecycle!Next
    <3>. QED
      BY <2>3, <3>1, <3>2 DEF Claim
  <2>4. ASSUME NEW w \in Workers, CompleteJob(w)
        PROVE  Lifecycle!Next \/ UNCHANGED Lifecycle!vars
    <3>1. CASE Owns(w, job[w]) /\ status' # status
      <4>1. job[w] \in Jobs /\ attempt[w] = attempts[job[w]]
        BY <2>4, <3>1 DEF CompleteJob, Owns, AttemptFenced
      <4>2. Lifecycle!Complete(job[w])
        BY <2>4, <3>1, <4>1 DEF CompleteJob, Owns, Lifecycle!Complete
      <4>. QED
        BY <4>1, <4>2 DEF Lifecycle!Next
    <3>2. CASE status' = status
      BY <2>4, <3>2 DEF CompleteJob, Owns, Lifecycle!vars
    <3>. QED
      BY <2>4, <3>1, <3>2 DEF CompleteJob
  <2>5. ASSUME NEW w \in Workers, FailJob(w)
        PROVE  Lifecycle!Next \/ UNCHANGED Lifecycle!vars
    <3>1. CASE Owns(w, job[w])
      <4>1. job[w] \in Jobs /\ attempts[job[w]] <= MaxAttempts[job[w]]
        BY <2>5 DEF FailJob
      <4>2. CASE Exhausted(job[w])
        <5>1. Lifecycle!GiveUp(job[w])
          BY <2>5, <3>1, <4>1, <4>2 DEF FailJob, Owns, Exhausted, Lifecycle!GiveUp
        <5>. QED
          BY <4>1, <5>1 DEF Lifecycle!Next
      <4>3. CASE ~Exhausted(job[w])
        <5>1. Lifecycle!Requeue(job[w])
          BY <2>5, <3>1, <4>1, <4>3 DEF FailJob, Owns, Exhausted, Lifecycle!Requeue
        <5>. QED
          BY <4>1, <5>1 DEF Lifecycle!Next
      <4>. QED
        BY <4>2, <4>3
    <3>2. CASE ~Owns(w, job[w])
      BY <2>5, <3>2 DEF FailJob, Lifecycle!vars
    <3>. QED
      BY <3>1, <3>2
  <2>. QED
    BY <2>1, <2>2, <2>3, <2>4, <2>5
       DEF Next, Clients, RunOnce, Environment, CheckSubmission, AbortSubmission,
           SetTenantQuota, CheckUsage, Evaluate, SaveRun, Unwind, Heartbeat,
           LeaseLapses, LeavesWindow, Crash, Restart, vars, rowVars, Lifecycle!vars
<1>. QED
  BY <1>1, <1>2, SafeInit, SafeStep, PTL
     DEF Spec, ImplementsLifecycle, Lifecycle!Spec

-----------------------------------------------------------------------------
(* The tenant quota holds under concurrency: whatever the policy and       *)
(* however claims, submissions, renewals and policy changes interleave, a  *)
(* claim or a submission never takes what it is admitted against over its  *)
(* limit.  The argument is that what the first statement of the            *)
(* transaction counted stays an upper bound, under the tenant lock, until  *)
(* the second one writes.                                                  *)

(* Exactly the transaction between its two statements holds the lock: one  *)
(* claim, or one submission.                                               *)
LockOwner ==
    /\ \A w \in Workers : pc[w] = "claim" <=> lock = w
    /\ submitting # {} => lock = NoWorker
    /\ \A i, j \in submitting : i = j

(* The headroom checked by CheckUsage is still there at the UPDATE. *)
ClaimHeadroom ==
    lock # NoWorker =>
        /\ Allows(quota.running, Cardinality(Granted))
        /\ \A j \in CudaJobs \ barred :
              Allows(quota.cuda, Cardinality(Granted \cap CudaJobs))

(* The headroom checked by CheckSubmission is still there at the INSERT. *)
SubmissionHeadroom ==
    submitting # {} =>
        /\ Allows(quota.queued, Cardinality(FirstTime))
        /\ Allows(quota.hourly, Cardinality(recent))

QuotaInv == SafeInv /\ LockOwner /\ ClaimHeadroom /\ SubmissionHeadroom

(* Fewer are within what more are within. *)
LEMMA AllowsFewer ==
  ASSUME NEW limit \in Int, NEW S, NEW T, IsFiniteSet(T), S \subseteq T,
         Allows(limit, Cardinality(T))
  PROVE  Allows(limit, Cardinality(S))
  BY FS_Subset, FS_CardinalityType DEF Allows, NoLimit

(* One more is within the limit that allows one more. *)
LEMMA WithinOneMore ==
  ASSUME NEW limit \in Int, NEW S, NEW x, IsFiniteSet(S),
         Allows(limit, Cardinality(S))
  PROVE  WithinLimit(limit, Cardinality(S \cup {x}))
  BY FS_AddElement, FS_CardinalityType DEF Allows, WithinLimit, NoLimit

(* The sets that the usage query counts are finite.                        *)
LEMMA FiniteRows ==
  ASSUME TypeInv
  PROVE  /\ IsFiniteSet(Granted) /\ IsFiniteSet(Granted \cap CudaJobs)
         /\ IsFiniteSet(FirstTime) /\ IsFiniteSet(recent)
         /\ quota.running \in Int /\ quota.cuda \in Int
         /\ quota.queued \in Int /\ quota.hourly \in Int
<1>1. /\ Granted \subseteq Jobs /\ Granted \cap CudaJobs \subseteq Jobs
      /\ FirstTime \subseteq Jobs /\ recent \subseteq Jobs
  BY DEF TypeInv, TypeOK, Granted, Active, Running, FirstTime, Queued
<1>2. IsFiniteSet(Granted) /\ IsFiniteSet(Granted \cap CudaJobs)
  BY <1>1, FS_Subset, ConstantsAssumption
<1>3. IsFiniteSet(FirstTime) /\ IsFiniteSet(recent)
  BY <1>1, FS_Subset, ConstantsAssumption
<1>. QED
  BY <1>2, <1>3 DEF TypeInv, TypeOK, Policy

(* What a step does to headroom that grants and admits nothing. *)
Shrinks ==
    /\ Granted' \subseteq Granted
    /\ FirstTime' \subseteq FirstTime
    /\ recent' \subseteq recent
    /\ quota' = quota
    /\ lock' = NoWorker \/ (lock' = lock /\ barred' = barred)
    /\ submitting' \subseteq submitting

(* A step that only removes jobs from what the usage query counted keeps   *)
(* the headroom of an open claim or submission.                            *)
LEMMA HeadroomKept ==
  ASSUME TypeInv, ClaimHeadroom, SubmissionHeadroom, Shrinks
  PROVE  ClaimHeadroom' /\ SubmissionHeadroom'
<1>. USE FiniteRows DEF Shrinks
<1>1. ASSUME lock' # NoWorker
      PROVE  /\ Allows(quota'.running, Cardinality(Granted'))
             /\ \A j \in CudaJobs \ barred' :
                   Allows(quota'.cuda, Cardinality(Granted' \cap CudaJobs))
  <2>1. /\ Allows(quota.running, Cardinality(Granted))
        /\ \A j \in CudaJobs \ barred :
              Allows(quota.cuda, Cardinality(Granted \cap CudaJobs))
    BY <1>1 DEF ClaimHeadroom
  <2>2. Allows(quota'.running, Cardinality(Granted'))
    BY <2>1, AllowsFewer
  <2>3. ASSUME NEW j \in CudaJobs \ barred'
        PROVE  Allows(quota'.cuda, Cardinality(Granted' \cap CudaJobs))
    <3>1. Allows(quota.cuda, Cardinality(Granted \cap CudaJobs))
      BY <1>1, <2>1, <2>3
    <3>2. Granted' \cap CudaJobs \subseteq Granted \cap CudaJobs
      OBVIOUS
    <3>. QED
      BY <3>1, <3>2, AllowsFewer
  <2>. QED
    BY <2>2, <2>3
<1>2. ASSUME submitting' # {}
      PROVE  /\ Allows(quota'.queued, Cardinality(FirstTime'))
             /\ Allows(quota'.hourly, Cardinality(recent'))
  <2>1. /\ Allows(quota.queued, Cardinality(FirstTime))
        /\ Allows(quota.hourly, Cardinality(recent))
    BY <1>2 DEF SubmissionHeadroom
  <2>. QED
    BY <2>1, AllowsFewer
<1>. QED
  BY <1>1, <1>2 DEF ClaimHeadroom, SubmissionHeadroom

(* Nobody holds the tenant lock at first.                                  *)
LEMMA QuotaInit == Init => QuotaInv
  BY SafeInit, ConstantsAssumption
  DEF Init, QuotaInv, LockOwner, ClaimHeadroom, SubmissionHeadroom

(* The headroom found under the tenant lock lasts until its holder         *)
(* commits.                                                                *)
LEMMA QuotaStep == QuotaInv /\ [Next]_vars => QuotaInv'
<1>. SUFFICES ASSUME QuotaInv, [Next]_vars PROVE QuotaInv'
  OBVIOUS
<1>0. SafeInv' /\ TypeInv /\ TypeInv'
  BY SafeStep DEF QuotaInv, SafeInv
<1>s. ASSUME Shrinks, LockOwner' PROVE QuotaInv'
  BY <1>0, <1>s, HeadroomKept DEF QuotaInv
<1>. USE ConstantsAssumption
     DEF QuotaInv, SafeInv, TypeInv, TypeOK, RowConsistent, LockOwner, Shrinks,
         Granted, Active, Running, FirstTime, Queued
<1>1. ASSUME NEW j \in Jobs, CheckSubmission(j) PROVE QuotaInv'
  <2>1. LockOwner' /\ lock' = NoWorker
    BY <1>0, <1>1 DEF CheckSubmission, LockFree, procVars
  <2>2. Allows(quota.queued, Cardinality(FirstTime))
    <3>1. IsFiniteSet(Queued) /\ FirstTime \subseteq Queued
      BY FS_Subset
    <3>. QED
      BY <1>0, <1>1, <3>1, FiniteRows, AllowsFewer DEF CheckSubmission
  <2>. QED
    BY <1>0, <1>1, <2>1, <2>2
       DEF CheckSubmission, ClaimHeadroom, SubmissionHeadroom, rowVars
<1>2. ASSUME NEW j \in Jobs, InsertJob(j) PROVE QuotaInv'
  <2>1. submitting' = {} /\ lock' = NoWorker /\ pc' = pc
    BY <1>2 DEF InsertJob, procVars
  <2>. QED
    BY <1>0, <1>2, <2>1 DEF ClaimHeadroom, SubmissionHeadroom, InsertJob
<1>3. ASSUME NEW j \in Jobs, AbortSubmission(j) PROVE QuotaInv'
  BY <1>0, <1>3, <1>s DEF AbortSubmission, rowVars, procVars
<1>4. ASSUME NEW q \in Policies, SetTenantQuota(q) PROVE QuotaInv'
  BY <1>0, <1>4 DEF SetTenantQuota, LockFree, ClaimHeadroom, SubmissionHeadroom,
                    rowVars, lockVars, procVars
<1>5. ASSUME NEW j \in Jobs, CancelJob(j) PROVE QuotaInv'
  BY <1>0, <1>5, <1>s DEF CancelJob, ReleaseLease, lockVars, procVars
<1>6. ASSUME NEW w \in Workers, NEW counted, CheckUsage(w, counted) PROVE QuotaInv'
  <2>1. LockOwner'
    BY <1>0, <1>6 DEF CheckUsage, LockFree
  <2>2. Granted \subseteq counted /\ Granted \cap CudaJobs \subseteq counted \cap CudaJobs
    BY <1>6 DEF CheckUsage
  <2>3. IsFiniteSet(counted) /\ IsFiniteSet(counted \cap CudaJobs)
    <3>1. counted \subseteq Jobs /\ counted \cap CudaJobs \subseteq Jobs
      BY <1>6 DEF CheckUsage
    <3>. QED
      BY <3>1, FS_Subset
  <2>4. Allows(quota.running, Cardinality(Granted))
    BY <1>0, <1>6, <2>2, <2>3, FiniteRows, AllowsFewer DEF CheckUsage
  <2>5. ASSUME NEW j \in CudaJobs \ barred'
        PROVE  Allows(quota.cuda, Cardinality(Granted \cap CudaJobs))
    <3>1. Allows(quota.cuda, Cardinality(counted \cap CudaJobs))
      BY <1>6, <2>5 DEF CheckUsage
    <3>. QED
      BY <1>0, <2>2, <2>3, <3>1, FiniteRows, AllowsFewer
  <2>6. Granted' = Granted /\ quota' = quota /\ submitting' = {}
    BY <1>6 DEF CheckUsage, LockFree, rowVars
  <2>. QED
    BY <1>0, <2>1, <2>4, <2>5, <2>6 DEF ClaimHeadroom, SubmissionHeadroom
<1>7. ASSUME NEW w \in Workers, NEW visible, Claim(w, visible) PROVE QuotaInv'
  <2>1. lock = w /\ lock' = NoWorker /\ submitting' = {}
    BY <1>7 DEF Claim
  <2>2. LockOwner'
    BY <1>0, <1>7, <2>1 DEF Claim, TakeNothing, TakeJob
  <2>. QED
    BY <1>0, <2>1, <2>2 DEF ClaimHeadroom, SubmissionHeadroom
<1>8. ASSUME NEW w \in Workers, Evaluate(w) PROVE QuotaInv'
  BY <1>0, <1>8, <1>s DEF Evaluate, Goto, rowVars, lockVars
<1>9. ASSUME NEW w \in Workers, SaveRun(w) PROVE QuotaInv'
  BY <1>0, <1>9, <1>s DEF SaveRun, Goto, rowVars, lockVars
<1>10. ASSUME NEW w \in Workers, CompleteJob(w) PROVE QuotaInv'
  BY <1>0, <1>10, <1>s DEF CompleteJob, Owns, ReleaseLease, Goto, lockVars
<1>11. ASSUME NEW w \in Workers, FailJob(w) PROVE QuotaInv'
  BY <1>0, <1>11, <1>s DEF FailJob, Owns, Exhausted, ReleaseLease, Goto, lockVars
<1>12. ASSUME NEW w \in Workers, Unwind(w) PROVE QuotaInv'
  BY <1>0, <1>12, <1>s DEF Unwind, Goto, rowVars, lockVars
<1>13. ASSUME NEW w \in Workers, Heartbeat(w) PROVE QuotaInv'
  BY <1>0, <1>13, <1>s DEF Heartbeat, RenewJobLease, Owns, lockVars
<1>14. ASSUME NEW j \in Jobs, LeaseLapses(j) PROVE QuotaInv'
  BY <1>0, <1>14, <1>s DEF LeaseLapses, lockVars, procVars
<1>15. ASSUME NEW j \in Jobs, LeavesWindow(j) PROVE QuotaInv'
  BY <1>0, <1>15, <1>s DEF LeavesWindow, lockVars, procVars
<1>16. ASSUME NEW w \in Workers, Crash(w) PROVE QuotaInv'
  BY <1>0, <1>16, <1>s DEF Crash, Goto, rowVars
<1>17. ASSUME NEW w \in Workers, Restart(w) PROVE QuotaInv'
  BY <1>0, <1>17, <1>s DEF Restart, Goto, rowVars, lockVars
<1>18. CASE UNCHANGED vars
  BY <1>0, <1>18, <1>s DEF vars, rowVars, lockVars, procVars
<1>. QED
  BY <1>1, <1>2, <1>3, <1>4, <1>5, <1>6, <1>7, <1>8, <1>9, <1>10, <1>11, <1>12,
     <1>13, <1>14, <1>15, <1>16, <1>17, <1>18
     DEF Next, Clients, RunOnce, Environment

-----------------------------------------------------------------------------
(* A claim grants one lease at most, to a claimable job, under the lock. *)
LEMMA GrantsAreClaims ==
  ASSUME SafeInv, Next, NEW j \in Granted', j \notin Granted
  PROVE  /\ \E w \in Workers : pc[w] = "claim"
         /\ j \in Claimable
         /\ Granted' = Granted \cup {j}
         /\ quota' = quota
<1>. USE DEF SafeInv, TypeInv, TypeOK, WorkerBusy, Executing,
             Granted, Active, Running
<1>1. ASSUME NEW w \in Workers, NEW visible, Claim(w, visible)
      PROVE  /\ pc[w] = "claim" /\ j \in Claimable
             /\ Granted' = Granted \cup {j} /\ quota' = quota
  <2>1. PICK i \in Claimable : TakeJob(w, i)
    BY <1>1 DEF Claim, TakeNothing, rowVars
  <2>2. i = j
    BY <2>1 DEF TakeJob
  <2>3. j \in Jobs /\ pc[w] = "claim" /\ quota' = quota
    BY <1>1 DEF Claim
  <2>4. /\ status'[j] = "running" /\ lease'[j] = "live" /\ j \notin revived'
        /\ \A i2 \in Jobs \ {j} :
              /\ status'[i2] = status[i2] /\ lease'[i2] = lease[i2]
              /\ i2 \in revived' <=> i2 \in revived
    BY <2>1, <2>2, <2>3 DEF TakeJob
  <2>5. Granted' = Granted \cup {j}
    BY <2>3, <2>4
  <2>. QED
    BY <2>1, <2>2, <2>3, <2>5
<1>2. ASSUME NEW w \in Workers, Heartbeat(w) PROVE FALSE
  <2>1. job[w] \in Jobs /\ status' = status
    BY <1>2 DEF Heartbeat, RenewJobLease
  <2>. QED
    BY <1>2, <2>1 DEF Heartbeat, RenewJobLease, Owns, RowConsistent
<1>3. ASSUME NEW w \in Workers, CompleteJob(w) \/ FailJob(w) PROVE FALSE
  BY <1>3 DEF CompleteJob, FailJob, ReleaseLease
<1>4. ASSUME NEW i \in Jobs, CancelJob(i) \/ LeaseLapses(i) PROVE FALSE
  BY <1>4 DEF CancelJob, ReleaseLease, LeaseLapses
<1>. QED
  BY <1>1, <1>2, <1>3, <1>4
     DEF Next, Clients, RunOnce, Environment, CheckSubmission, InsertJob,
         AbortSubmission, SetTenantQuota, CheckUsage, Evaluate, SaveRun, Unwind,
         LeavesWindow, Crash, Restart, rowVars

(* lease_job never takes the leases it granted over the running limit or, *)
(* for a CUDA job, over the CUDA limit.                                   *)
THEOREM QuotaBoundsClaims == Spec => ClaimsWithinQuota
<1>1. QuotaInv /\ [Next]_vars =>
        [\A j \in Jobs : j \in Granted' /\ j \notin Granted =>
            /\ WithinLimit(quota'.running, Cardinality(Granted'))
            /\ j \in CudaJobs =>
                  WithinLimit(quota'.cuda, Cardinality(Granted' \cap CudaJobs))]_vars
  <2>. SUFFICES ASSUME QuotaInv, Next, NEW j \in Granted', j \notin Granted
                PROVE  /\ WithinLimit(quota'.running, Cardinality(Granted'))
                       /\ j \in CudaJobs => WithinLimit(quota'.cuda,
                                               Cardinality(Granted' \cap CudaJobs))
    OBVIOUS
  <2>1. /\ \E w \in Workers : pc[w] = "claim"
        /\ j \in Claimable
        /\ Granted' = Granted \cup {j}
        /\ quota' = quota
    BY GrantsAreClaims DEF QuotaInv
  <2>2. TypeInv
    BY DEF QuotaInv, SafeInv
  <2>3. /\ Allows(quota.running, Cardinality(Granted))
        /\ \A i \in CudaJobs \ barred :
              Allows(quota.cuda, Cardinality(Granted \cap CudaJobs))
    BY <2>1, ConstantsAssumption DEF QuotaInv, LockOwner, ClaimHeadroom
  <2>4. WithinLimit(quota'.running, Cardinality(Granted'))
    BY <2>1, <2>2, <2>3, FiniteRows, WithinOneMore
  <2>5. ASSUME j \in CudaJobs
        PROVE  WithinLimit(quota'.cuda, Cardinality(Granted' \cap CudaJobs))
    <3>1. Granted' \cap CudaJobs = (Granted \cap CudaJobs) \cup {j}
      BY <2>1, <2>5
    <3>2. Allows(quota.cuda, Cardinality(Granted \cap CudaJobs))
      BY <2>1, <2>3, <2>5 DEF Claimable
    <3>. QED
      BY <2>1, <2>2, <3>1, <3>2, FiniteRows, WithinOneMore
  <2>. QED
    BY <2>4, <2>5
<1>. QED
  BY <1>1, QuotaInit, QuotaStep, PTL DEF Spec, ClaimsWithinQuota

(* enqueue_job never takes the first-time queue or the rolling hour over   *)
(* the limits in force.                                                    *)
THEOREM QuotaBoundsAdmissions == Spec => AdmissionsWithinQuota
<1>1. QuotaInv /\ [Next]_vars =>
        [FirstTime' \ FirstTime # {} =>
            /\ WithinLimit(quota'.queued, Cardinality(FirstTime'))
            /\ WithinLimit(quota'.hourly, Cardinality(recent'))]_vars
  <2>. SUFFICES ASSUME QuotaInv, Next, NEW j \in FirstTime', j \notin FirstTime
                PROVE  /\ WithinLimit(quota'.queued, Cardinality(FirstTime'))
                       /\ WithinLimit(quota'.hourly, Cardinality(recent'))
    OBVIOUS
  <2>1. PICK s \in Jobs : InsertJob(s)
    <3>. USE DEF QuotaInv, SafeInv, TypeInv, TypeOK, RowConsistent, WorkerBusy,
                 Executing, FirstTime, Queued
    <3>1. ASSUME NEW w \in Workers, NEW visible, Claim(w, visible) PROVE FALSE
      BY <3>1 DEF Claim, TakeNothing, TakeJob, Claimable, rowVars
    <3>2. ASSUME NEW w \in Workers, CompleteJob(w) PROVE FALSE
      BY <3>2 DEF CompleteJob
    <3>3. ASSUME NEW w \in Workers, FailJob(w) PROVE FALSE
      BY <3>3 DEF FailJob, Owns
    <3>4. ASSUME NEW i \in Jobs, CancelJob(i) PROVE FALSE
      BY <3>4 DEF CancelJob
    <3>. QED
      BY <3>1, <3>2, <3>3, <3>4
         DEF Next, Clients, RunOnce, Environment, CheckSubmission,
             AbortSubmission, SetTenantQuota, CheckUsage, Evaluate, SaveRun,
             Unwind, Heartbeat, LeaseLapses, LeavesWindow, Crash, Restart, rowVars
  <2>2. TypeInv /\ s \in submitting
    BY <2>1 DEF QuotaInv, SafeInv, InsertJob
  <2>3. /\ FirstTime' = FirstTime \cup {s}
        /\ recent' = recent \cup {s}
        /\ quota' = quota
    BY <2>1, <2>2, ConstantsAssumption
       DEF InsertJob, QuotaInv, SafeInv, SubmissionNew, TypeInv, TypeOK,
           RowConsistent, FirstTime, Queued
  <2>4. /\ Allows(quota.queued, Cardinality(FirstTime))
        /\ Allows(quota.hourly, Cardinality(recent))
    BY <2>2 DEF QuotaInv, SubmissionHeadroom
  <2>. QED
    BY <2>2, <2>3, <2>4, FiniteRows, WithinOneMore
<1>. QED
  BY <1>1, QuotaInit, QuotaStep, PTL DEF Spec, AdmissionsWithinQuota
=============================================================================
