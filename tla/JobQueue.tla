------------------------------ MODULE JobQueue ------------------------------
(***************************************************************************)
(* The durable evaluation-job queue of one tenant: the evaluation_jobs     *)
(* table of src/aecontrol/store.py with its operations, the tenant quota   *)
(* and its advisory lock, and the EvaluationWorker processes of            *)
(* src/aecontrol/jobs.py that lease, run, renew and acknowledge jobs.      *)
(*                                                                         *)
(* Time is abstracted to what the code compares it with: a lease is        *)
(* "live" or "lapsed" (lease_expires_at < now()), a job is or is not in    *)
(* the rolling one-hour submission window.  Workers choose their own       *)
(* --lease-seconds and API replicas stamp created_at with their own        *)
(* clocks, so leases may lapse, and jobs leave the window, in any order.   *)
(*                                                                         *)
(* Every table is under forced row-level security and the advisory lock    *)
(* is tenant-local, so one tenant is the whole state of this component.    *)
(***************************************************************************)
EXTENDS Integers, FiniteSets

CONSTANTS
    Jobs,          \* job_ids that may ever be submitted
    Workers,       \* worker_ids (a restarted process keeps its id)
    NoJob,         \* Python None / SQL NULL for a job
    NoWorker,      \* SQL NULL for lease_owner
    Priority,      \* [Jobs -> Int]
    CreatedAt,     \* [Jobs -> Nat], stamped by the API before its transaction
    MaxAttempts,   \* [Jobs -> Nat \ {0}]
    CudaJobs,      \* the jobs with required_accelerator = 'cuda'
    Policies,      \* quota rows an operator may set
    MaxCrashes     \* bound: worker-process crashes in one behaviour

NoLimit == -1      \* a NULL quota column

Policy == [queued : Int, hourly : Int, running : Int, cuda : Int]

ASSUME ConstantsAssumption ==
    /\ IsFiniteSet(Jobs)
    /\ NoJob \notin Jobs
    /\ NoWorker \notin Workers
    /\ Priority \in [Jobs -> Int]
    /\ CreatedAt \in [Jobs -> Nat]
    /\ MaxAttempts \in [Jobs -> Nat \ {0}]
    /\ CudaJobs \subseteq Jobs
    /\ Policies \subseteq Policy
    /\ MaxCrashes \in Nat

VARIABLES
    (* the evaluation_jobs row of each job *)
    status,        \* "absent" until inserted, then the status column
    attempts,      \* attempts column
    owner,         \* lease_owner column
    lease,         \* lease_expires_at: "none" (NULL), "live" or "lapsed"
    started,       \* started_at: the attempt it dates, 0 for NULL
    error,         \* error: the attempt whose error it holds, 0 for NULL
    result,        \* run_id: the attempt whose run is linked, 0 for NULL
    recent,        \* jobs with created_at >= now() - interval '1 hour'
    (* other tables and locks *)
    runs,          \* evaluation_runs: <<job, attempt>> of each saved run
    quota,         \* the tenant_quotas row
    lock,          \* worker holding the resource-quota advisory lock
    submitting,    \* jobs whose submission passed its check and is open
    (* the worker processes *)
    pc,            \* where run_once is
    job, attempt,  \* the EvaluationJob row lease_job returned
    heartbeat,     \* the _heartbeat task
    barred,        \* jobs ruled out by cuda_quota_available of the open lease
                   \* transaction: none, or those that need CUDA
    crashes,       \* crashes so far (bounded by MaxCrashes)
    (* history *)
    revived        \* running jobs whose present lease was renewed after lapsing

rowVars == <<status, attempts, owner, lease, started, error, result, recent>>
lockVars == <<lock, submitting, barred>>
procVars == <<pc, job, attempt, heartbeat, crashes>>
vars == <<rowVars, runs, quota, lockVars, procVars, revived>>

Status == {"absent", "queued", "running", "completed", "failed", "cancelled"}
Executing == {"evaluate", "save", "complete", "fail", "unwind"}

TypeOK ==
    /\ status \in [Jobs -> Status]
    /\ attempts \in [Jobs -> Nat]
    /\ \A j \in Jobs : attempts[j] <= MaxAttempts[j]
    /\ owner \in [Jobs -> Workers \cup {NoWorker}]
    /\ lease \in [Jobs -> {"none", "live", "lapsed"}]
    /\ started \in [Jobs -> Nat]
    /\ error \in [Jobs -> Nat]
    /\ result \in [Jobs -> Nat]
    /\ recent \subseteq Jobs
    /\ runs \subseteq Jobs \X Nat
    /\ quota \in Policy
    /\ lock \in Workers \cup {NoWorker}
    /\ submitting \subseteq Jobs
    /\ pc \in [Workers -> {"idle", "claim", "down"} \cup Executing]
    /\ job \in [Workers -> Jobs \cup {NoJob}]
    /\ attempt \in [Workers -> Nat]
    /\ heartbeat \in [Workers -> {"off", "on", "stopped", "broken"}]
    /\ barred \subseteq Jobs
    /\ crashes \in Nat
    /\ revived \subseteq Jobs

-----------------------------------------------------------------------------
(* The queries of _tenant_quota_usage. *)

Queued == {j \in Jobs : status[j] = "queued"}
Running == {j \in Jobs : status[j] = "running"}

(* Mutant: expired leases are counted too. *)
ActiveIgnoringExpiry == Running

Active == {j \in Running : lease[j] = "live"}

(* Mutant: the limit itself is admitted once more. *)
AllowsOneOver(limit, n) == limit = NoLimit \/ n <= limit

(* A NULL limit is unlimited; otherwise one more is admitted below it. *)
Allows(limit, n) == limit = NoLimit \/ n < limit

(* Mutant: no transaction waits for another. *)
Unlocked == TRUE

(* The tenant's transaction-level advisory lock: a claim or a submission    *)
(* that holds it keeps every other one waiting.                             *)
LockFree == lock = NoWorker /\ submitting = {}

Init ==
    /\ status = [j \in Jobs |-> "absent"]
    /\ attempts = [j \in Jobs |-> 0]
    /\ owner = [j \in Jobs |-> NoWorker]
    /\ lease = [j \in Jobs |-> "none"]
    /\ started = [j \in Jobs |-> 0]
    /\ error = [j \in Jobs |-> 0]
    /\ result = [j \in Jobs |-> 0]
    /\ recent = {}
    /\ runs = {}
    /\ quota \in Policies
    /\ lock = NoWorker
    /\ submitting = {}
    /\ pc = [w \in Workers |-> "idle"]
    /\ job = [w \in Workers |-> NoJob]
    /\ attempt = [w \in Workers |-> 0]
    /\ heartbeat = [w \in Workers |-> "off"]
    /\ barred = {}
    /\ crashes = 0
    /\ revived = {}

-----------------------------------------------------------------------------
(* Submission: POST /api/v1/jobs, store.enqueue_job. *)

(* enqueue_job takes the tenant lock, reads the quota and counts usage.  A  *)
(* submission over a limit raises TenantQuotaExceededError and changes      *)
(* nothing, so only the admitted one is a step.                             *)
CheckSubmission(j) ==
    /\ status[j] = "absent" /\ j \notin submitting
    /\ LockFree
    /\ Allows(quota.queued, Cardinality(Queued))
    /\ Allows(quota.hourly, Cardinality(recent))
    /\ submitting' = submitting \cup {j}
    /\ UNCHANGED <<rowVars, runs, quota, lock, barred, procVars, revived>>

(* The INSERT of the same transaction; its commit releases the lock. *)
InsertJob(j) ==
    /\ j \in submitting
    /\ status' = [status EXCEPT ![j] = "queued"]
    /\ recent' = recent \cup {j}
    /\ submitting' = submitting \ {j}
    /\ UNCHANGED <<attempts, owner, lease, started, error, result, runs, quota,
                   lock, barred, procVars, revived>>

(* The API replica or its connection is lost: PostgreSQL rolls back. *)
AbortSubmission(j) ==
    /\ j \in submitting
    /\ submitting' = submitting \ {j}
    /\ UNCHANGED <<rowVars, runs, quota, lock, barred, procVars, revived>>

(* PUT .../quota, store.set_tenant_quota: one UPDATE under the same lock. *)
SetTenantQuota(q) ==
    /\ LockFree
    /\ quota' = q
    /\ UNCHANGED <<rowVars, runs, lockVars, procVars, revived>>

(* Mutant: the expiry is left behind. *)
ReleaseOwnerOnly(j) ==
    /\ owner' = [owner EXCEPT ![j] = NoWorker]
    /\ revived' = revived \ {j}
    /\ UNCHANGED lease

(* lease_owner = NULL, lease_expires_at = NULL: the end of every lease. *)
ReleaseLease(j) ==
    /\ owner' = [owner EXCEPT ![j] = NoWorker]
    /\ lease' = [lease EXCEPT ![j] = "none"]
    /\ revived' = revived \ {j}

(* DELETE /api/v1/jobs/{id}, store.cancel_job; started_at is kept. *)
CancelJob(j) ==
    /\ status[j] \in {"queued", "running"}
    /\ status' = [status EXCEPT ![j] = "cancelled"]
    /\ ReleaseLease(j)
    /\ UNCHANGED <<attempts, started, error, result, recent, runs, quota,
                   lockVars, procVars>>

-----------------------------------------------------------------------------
(* Claiming: the two statements of store.lease_job. *)

(* The lock, the quota row and the usage count.  now() is frozen when the  *)
(* transaction starts, before it waits for the lock, so leases that lapsed *)
(* during the wait are still counted: counted is any set between Active    *)
(* and Running.  At the running limit lease_job returns None: no step.     *)
CheckUsage(w, counted) ==
    /\ pc[w] = "idle"
    /\ LockFree
    /\ Active \subseteq counted /\ counted \subseteq Running
    /\ Allows(quota.running, Cardinality(counted))
    /\ lock' = w
    /\ barred' = IF Allows(quota.cuda, Cardinality(counted \cap CudaJobs))
                  THEN {} ELSE CudaJobs
    /\ pc' = [pc EXCEPT ![w] = "claim"]
    /\ UNCHANGED <<rowVars, runs, quota, submitting, job, attempt, heartbeat,
                   crashes, revived>>

(* Mutants: running rows are never, or always, up for grabs. *)
NeverExpired(j) == FALSE
AlwaysExpired(j) == TRUE

(* lease_expires_at < now() *)
Expired(j) == lease[j] = "lapsed"

(* Mutant: retries without end. *)
ClaimableForEver ==
    {j \in Jobs :
        /\ j \notin barred
        /\ status[j] = "queued" \/ (status[j] = "running" /\ Expired(j))}

(* WHERE clause of the claimable CTE, without placement (see Claim). *)
Claimable ==
    {j \in Jobs :
        /\ attempts[j] < MaxAttempts[j]
        /\ j \notin barred
        /\ status[j] = "queued" \/ (status[j] = "running" /\ Expired(j))}

(* ORDER BY priority DESC, created_at LIMIT 1; ties are PostgreSQL's choice. *)
Before(i, j) ==
    \/ Priority[i] > Priority[j]
    \/ Priority[i] = Priority[j] /\ CreatedAt[i] < CreatedAt[j]

(* The UPDATE ... RETURNING of row j; run_once then starts its heartbeat. *)
TakeJob(w, j) ==
    /\ status' = [status EXCEPT ![j] = "running"]
    /\ attempts' = [attempts EXCEPT ![j] = @ + 1]
    /\ started' = [started EXCEPT ![j] = attempts[j] + 1]
    /\ owner' = [owner EXCEPT ![j] = w]
    /\ lease' = [lease EXCEPT ![j] = "live"]
    /\ error' = [error EXCEPT ![j] = 0]
    /\ revived' = revived \ {j}
    /\ pc' = [pc EXCEPT ![w] = "evaluate"]
    /\ job' = [job EXCEPT ![w] = j]
    /\ attempt' = [attempt EXCEPT ![w] = attempts[j] + 1]
    /\ heartbeat' = [heartbeat EXCEPT ![w] = "on"]
    /\ UNCHANGED <<result, recent>>

(* No row: lease_job returns None and run_forever sleeps. *)
TakeNothing(w) ==
    /\ pc' = [pc EXCEPT ![w] = "idle"]
    /\ UNCHANGED <<rowVars, job, attempt, heartbeat, revived>>

(* The second statement.  visible is what it can see as claimable: rows    *)
(* that the capabilities just detected for w satisfy, not locked by a      *)
(* concurrent statement (SKIP LOCKED) and, if running, lapsed already at   *)
(* this transaction's now().  Its commit releases the lock.                *)
Claim(w, visible) ==
    /\ pc[w] = "claim"
    /\ lock' = NoWorker
    /\ barred' = {}
    /\ \/ Claimable \cap visible = {} /\ TakeNothing(w)
       \/ \E j \in Claimable \cap visible :
             /\ \A i \in Claimable \cap visible : ~Before(i, j)
             /\ TakeJob(w, j)
    /\ UNCHANGED <<runs, quota, submitting, crashes>>

-----------------------------------------------------------------------------
(* Execution: the body of EvaluationWorker.run_once. *)

Goto(w, label) == pc' = [pc EXCEPT ![w] = label]

(* Mutant: whoever acknowledges a running job is believed. *)
OwnsRunning(w, j) == status[j] = "running"

(* WHERE job_id = ... AND status = 'running' AND lease_owner = ...  The     *)
(* statements that acknowledge or renew do not look at lease_expires_at.    *)
Owns(w, j) == status[j] = "running" /\ owner[j] = w

(* EvaluationEngine().run finishes, or raises. *)
Evaluate(w) ==
    /\ pc[w] = "evaluate"
    /\ Goto(w, "save") \/ Goto(w, "fail")
    /\ UNCHANGED <<rowVars, runs, quota, lockVars, job, attempt, heartbeat,
                   crashes, revived>>

(* store.save_run commits the run, or raises. *)
SaveRun(w) ==
    /\ pc[w] = "save"
    /\ \/ runs' = runs \cup {<<job[w], attempt[w]>>} /\ Goto(w, "complete")
       \/ runs' = runs /\ Goto(w, "fail")
    /\ UNCHANGED <<rowVars, quota, lockVars, job, attempt, heartbeat, crashes,
                   revived>>

(* store.complete_job.  The UPDATE commits and run_once returns; or it      *)
(* commits and the reply is lost, so the except clause runs all the same;   *)
(* or nothing is written (lease not owned, or a database error).            *)
CompleteJob(w) ==
    LET j == job[w] IN
    /\ pc[w] = "complete"
    /\ \/ /\ Owns(w, j)
          /\ status' = [status EXCEPT ![j] = "completed"]
          /\ result' = [result EXCEPT ![j] = attempt[w]]
          /\ error' = [error EXCEPT ![j] = 0]
          /\ ReleaseLease(j)
          /\ Goto(w, "unwind") \/ Goto(w, "fail")
       \/ /\ Goto(w, "fail")
          /\ UNCHANGED <<status, result, owner, lease, error, revived>>
    /\ UNCHANGED <<attempts, started, recent, runs, quota, lockVars, job,
                   attempt, heartbeat, crashes>>

(* Mutant: one attempt more than the budget. *)
ExhaustedLate(j) == attempts[j] > MaxAttempts[j]

(* The CASE condition of fail_job. *)
Exhausted(j) == attempts[j] >= MaxAttempts[j]

(* store.fail_job from the except clause: requeue while the budget lasts,   *)
(* fail at its end; a lease not owned raises RuntimeError, and run_once     *)
(* only reads the job.  Any other error ends the process: see Crash.        *)
FailJob(w) ==
    LET j == job[w] IN
    /\ pc[w] = "fail"
    /\ \/ /\ Owns(w, j)
          /\ status' = [status EXCEPT ![j] =
                            IF Exhausted(j) THEN "failed" ELSE "queued"]
          /\ started' = [started EXCEPT ![j] = IF Exhausted(j) THEN @ ELSE 0]
          /\ error' = [error EXCEPT ![j] = attempt[w]]
          /\ ReleaseLease(j)
       \/ /\ ~Owns(w, j)
          /\ UNCHANGED <<status, started, owner, lease, error, revived>>
    /\ Goto(w, "unwind")
    /\ UNCHANGED <<attempts, result, recent, runs, quota, lockVars, job,
                   attempt, heartbeat, crashes>>

(* The finally clause stops and awaits the heartbeat.  A heartbeat that     *)
(* died of a database error re-raises here and ends the process.            *)
Unwind(w) ==
    /\ pc[w] = "unwind"
    /\ Goto(w, IF heartbeat[w] = "broken" THEN "down" ELSE "idle")
    /\ job' = [job EXCEPT ![w] = NoJob]
    /\ attempt' = [attempt EXCEPT ![w] = 0]
    /\ heartbeat' = [heartbeat EXCEPT ![w] = "off"]
    /\ UNCHANGED <<rowVars, runs, quota, lockVars, crashes, revived>>

(* store.renew_job_lease extends the lease without the tenant lock and      *)
(* without looking at its expiry.                                           *)
RenewJobLease(w, j) ==
    /\ Owns(w, j)
    /\ lease' = [lease EXCEPT ![j] = "live"]
    /\ revived' = IF lease[j] = "lapsed" THEN revived \cup {j} ELSE revived

(* One round of _heartbeat.  RuntimeError (lease lost) ends the task        *)
(* quietly, any other error ends it with an exception.                      *)
Heartbeat(w) ==
    LET j == job[w] IN
    /\ heartbeat[w] = "on"
    /\ \/ RenewJobLease(w, j) /\ UNCHANGED heartbeat
       \/ /\ ~Owns(w, j)
          /\ heartbeat' = [heartbeat EXCEPT ![w] = "stopped"]
          /\ UNCHANGED <<lease, revived>>
       \/ /\ heartbeat' = [heartbeat EXCEPT ![w] = "broken"]
          /\ UNCHANGED <<lease, revived>>
    /\ UNCHANGED <<status, attempts, owner, started, error, result, recent,
                   runs, quota, lockVars, pc, job, attempt, crashes>>

-----------------------------------------------------------------------------
(* The environment: time and process failures. *)

LeaseLapses(j) ==
    /\ lease[j] = "live"
    /\ lease' = [lease EXCEPT ![j] = "lapsed"]
    /\ UNCHANGED <<status, attempts, owner, started, error, result, recent,
                   runs, quota, lockVars, procVars, revived>>

LeavesWindow(j) ==
    /\ j \in recent
    /\ recent' = recent \ {j}
    /\ UNCHANGED <<status, attempts, owner, lease, started, error, result,
                   runs, quota, lockVars, procVars, revived>>

(* A worker process disappears; an open transaction is rolled back and its  *)
(* advisory lock released.                                                  *)
Crash(w) ==
    /\ pc[w] # "down"
    /\ crashes < MaxCrashes
    /\ crashes' = crashes + 1
    /\ lock' = IF lock = w THEN NoWorker ELSE lock
    /\ barred' = IF lock = w THEN {} ELSE barred
    /\ Goto(w, "down")
    /\ job' = [job EXCEPT ![w] = NoJob]
    /\ attempt' = [attempt EXCEPT ![w] = 0]
    /\ heartbeat' = [heartbeat EXCEPT ![w] = "off"]
    /\ UNCHANGED <<rowVars, runs, quota, submitting, revived>>

(* Its container restarts with the same host name and pid: the same id. *)
Restart(w) ==
    /\ pc[w] = "down"
    /\ Goto(w, "idle")
    /\ UNCHANGED <<rowVars, runs, quota, lockVars, job, attempt, heartbeat,
                   crashes, revived>>

-----------------------------------------------------------------------------
Clients ==
    \/ \E j \in Jobs : \/ CheckSubmission(j)
                       \/ InsertJob(j)
                       \/ AbortSubmission(j)
                       \/ CancelJob(j)
    \/ \E q \in Policies : SetTenantQuota(q)

RunOnce(w) ==
    \/ \E counted \in SUBSET Jobs : CheckUsage(w, counted)
    \/ \E visible \in SUBSET Jobs : Claim(w, visible)
    \/ Evaluate(w)
    \/ SaveRun(w)
    \/ CompleteJob(w)
    \/ FailJob(w)
    \/ Unwind(w)

Environment ==
    \/ \E j \in Jobs : LeaseLapses(j) \/ LeavesWindow(j)
    \/ \E w \in Workers : Crash(w) \/ Restart(w)

Next ==
    \/ Clients
    \/ \E w \in Workers : RunOnce(w) \/ Heartbeat(w)
    \/ Environment

Spec == Init /\ [][Next]_vars

(* The lease of a job that no live heartbeat renews runs out. *)
AbandonedLeaseLapses(j) ==
    /\ ~ \E w \in Workers : heartbeat[w] = "on" /\ job[w] = j /\ owner[j] = w
    /\ LeaseLapses(j)

(* A worker that is up keeps polling (run_forever), a crashed one is       *)
(* restarted by its supervisor, run_once works through its steps (the      *)
(* engine and its adapters are assumed to return), an open submission      *)
(* commits or is rolled back.  Strong fairness where other transactions    *)
(* may interleave for ever: the advisory lock is granted in queue order,   *)
(* and of infinitely many polls some find the claimable rows unlocked and  *)
(* start late enough for now() to be past the lapsed leases.               *)
Fairness ==
    /\ \A w \in Workers :
        /\ SF_vars(CheckUsage(w, Active))
        /\ SF_vars(Claim(w, Jobs))
        /\ WF_vars(Evaluate(w) \/ SaveRun(w) \/ CompleteJob(w) \/ FailJob(w))
        /\ WF_vars(Unwind(w))
        /\ WF_vars(Restart(w))
    /\ \A j \in Jobs :
        /\ WF_vars(InsertJob(j) \/ AbortSubmission(j))
        /\ WF_vars(AbandonedLeaseLapses(j))

FairSpec == Spec /\ Fairness

-----------------------------------------------------------------------------
(* Safety. *)

(* The columns of a row always agree with each other, whatever order       *)
(* submissions, claims, late acknowledgements, cancellations and crashes   *)
(* come in: exactly the running rows carry a lease; a queued row has       *)
(* budget left, so that lease_job can still claim it, and no started_at    *)
(* (queue time is never counted as execution time); started_at of a row    *)
(* that ran dates its last attempt; a failed row used its whole budget and *)
(* shows the error of its last attempt; a running or completed row shows   *)
(* no error of an earlier attempt.                                         *)
RowConsistent ==
    \A j \in Jobs :
        /\ status[j] = "running" <=> owner[j] # NoWorker
        /\ status[j] = "running" <=> lease[j] # "none"
        /\ status[j] = "absent" => attempts[j] = 0
        /\ status[j] \in {"absent", "queued"} =>
              attempts[j] < MaxAttempts[j] /\ started[j] = 0
        /\ status[j] \in {"running", "completed", "failed"} =>
              attempts[j] > 0 /\ started[j] = attempts[j]
        /\ status[j] = "failed" =>
              attempts[j] = MaxAttempts[j] /\ error[j] = attempts[j]
        /\ status[j] \in {"running", "completed"} => error[j] = 0

(* A completed job links the run of its last attempt, and that run is in   *)
(* evaluation_runs ("writes runs before acknowledging completion"); no     *)
(* other job links a run.  complete_job recognises a lease by worker id    *)
(* alone, not by attempt: this says that the id is enough, also when a     *)
(* lease lapsed, was reclaimed and came back, or its process restarted.    *)
CompletedLinksLastRun ==
    \A j \in Jobs :
        /\ status[j] = "completed" =>
              result[j] = attempts[j] /\ <<j, attempts[j]>> \in runs
        /\ status[j] # "completed" => result[j] = 0

(* Jobs that run on a live lease granted by a claim, not by a late renewal. *)
Granted == Active \ revived

WithinLimit(limit, n) == limit = NoLimit \/ n <= limit

(* However claims, submissions and policy changes interleave, lease_job    *)
(* never takes the leases it granted over the limits in force: the usage   *)
(* counted by its first statement is still an upper bound when the UPDATE  *)
(* runs, because both are under the tenant lock.                           *)
ClaimsWithinQuota ==
    [][\A j \in Jobs : j \in Granted' /\ j \notin Granted =>
          /\ WithinLimit(quota'.running, Cardinality(Granted'))
          /\ j \in CudaJobs =>
                WithinLimit(quota'.cuda, Cardinality(Granted' \cap CudaJobs))]_vars

(* Jobs waiting for their first attempt. *)
FirstTime == {j \in Queued : attempts[j] = 0}

(* The same for submissions to several API replicas: a new row never takes *)
(* the first-time queue or the rolling hour over the limits in force,      *)
(* because no other submission is between its count and its INSERT.        *)
(* (Retries re-enter the queue without a check and are not counted here.)  *)
AdmissionsWithinQuota ==
    [][FirstTime' \ FirstTime # {} =>
          /\ WithinLimit(quota'.queued, Cardinality(FirstTime'))
          /\ WithinLimit(quota'.hourly, Cardinality(recent'))]_vars

(* A lease changes hands only after it lapsed: while it is live nobody     *)
(* else is given the job and its attempt is not counted again.             *)
LiveLeaseNotStolen ==
    [][\A j \in Jobs :
          lease[j] = "live" /\ status'[j] = "running" =>
              owner'[j] = owner[j] /\ attempts'[j] = attempts[j]]_vars

(* What JobQueue promises its clients, as an abstract state machine. *)
Lifecycle == INSTANCE JobLifecycle WITH
    Jobs <- Jobs, MaxAttempts <- MaxAttempts,
    status <- status, attempts <- attempts, result <- result

(* The queue implements the documented job life cycle. *)
ImplementsLifecycle == Lifecycle!Spec

-----------------------------------------------------------------------------
(* Liveness, under FairSpec. *)

(* Of a finite set of submissions no queued job waits for ever: the jobs   *)
(* ahead of it, their retries, crashes, broken heartbeats and jobs stuck   *)
(* on a lapsed lease only delay it.  It says no more than that: lease_job  *)
(* orders by priority DESC and a job does not age, so clients that go on   *)
(* submitting work of a higher priority for ever can starve a job, and     *)
(* here Jobs is finite and each job is submitted once.                     *)
QueuedJobServed ==
    \A j \in Jobs : status[j] = "queued" ~> status[j] # "queued"

(* A job whose worker disappeared while budget remains is picked up again. *)
AbandonedJobRecovered ==
    \A j \in Jobs :
        \A n \in 1..(MaxAttempts[j] - 1) :
            (status[j] = "running" /\ attempts[j] = n)
              ~> ~(status[j] = "running" /\ attempts[j] = n)

-----------------------------------------------------------------------------
(* Statements of the documentation that the code does not keep. *)

(* docs/distributed-execution.md: "If a process disappears, another worker *)
(* can reclaim the row after expiration", and the only ways out of running *)
(* lead on: an attempt that began is eventually over.                      *)
EveryAttemptEnds ==
    \A j \in Jobs : status[j] = "running" ~> status[j] # "running"

(* docs/architecture.md: the lock preserves "total execution" limits.      *)
ActiveWithinQuota == WithinLimit(quota.running, Cardinality(Active))
=============================================================================
