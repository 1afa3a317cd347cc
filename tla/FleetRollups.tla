---------------------------- MODULE FleetRollups ----------------------------
(***************************************************************************)
(* The fleet rollups of store.py: two tables that repeat, for the platform *)
(* report, the scheduling columns of evaluation_jobs and workers.  Row     *)
(* triggers keep them while the control plane serves, and every replica    *)
(* that starts rebuilds them inside its schema transaction, next to        *)
(* replicas that are writing.  ArtifactStore.initialize and close are here *)
(* because they decide when a replica may write.                           *)
(*                                                                         *)
(* Client transactions run at READ COMMITTED: a statement locks its row    *)
(* and, in a mode that conflicts with the schema transaction's, its table; *)
(* the row and what its trigger wrote become visible at commit.  The       *)
(* schema transaction locks tables one by one and publishes at its commit. *)
(* Time is counted in ticks; now() of a transaction is the time at which   *)
(* its statement runs.                                                     *)
(***************************************************************************)
EXTENDS Integers, FiniteSets, Functions

CONSTANTS
    Jobs, WorkerIds,     \* ids that may be inserted
    TenantOf,            \* the tenant_id of every job and worker
    CudaJobs,            \* jobs with required_accelerator = 'cuda'
    Capabilities,        \* what a worker may register: [accelerators, gpus]
    Registered,          \* the tenants in control_plane_tenants
    Quota,               \* the row of tenant_quotas, for some tenants
    Replicas, Serving,   \* Serving: replicas that ran before the upgrade
    Pooled,              \* replicas with DatabaseRuntimeConfiguration.pooling_enabled
    Clients, ReplicaOf,  \* request threads, and the replica each runs in
    Hour, Day, Window,   \* reporting windows, in ticks
    LeaseTicks,          \* lease_seconds
    MaxTime,             \* bound on the clock
    NoLimit, NoRow, NoTx, NoReplica

Statuses == {"queued", "running", "completed", "failed", "cancelled"}
NoLease == -1
Leases == {NoLease} \cup 0..(MaxTime + LeaseTicks)

(* The rows of evaluation_jobs and of workers, and of their rollups. *)
JobRows == [status : Statuses, created : 0..MaxTime, lease : Leases]
WorkerRows == [capabilities : Capabilities, seen : 0..MaxTime]
JobSummaries ==
    [status : Statuses, cuda : BOOLEAN, created : 0..MaxTime, lease : Leases]
WorkerSummaries == [cpu : BOOLEAN, cuda : BOOLEAN, gpus : Nat, seen : 0..MaxTime]

ASSUME FleetAssumption ==
    /\ ReplicaOf \in [Clients -> Replicas]
    /\ NoReplica \notin Replicas
    /\ IsFiniteSet(Jobs) /\ IsFiniteSet(WorkerIds) /\ IsFiniteSet(Registered)
    /\ \A offer \in Capabilities : offer.gpus \in Nat
    /\ NoRow \notin JobSummaries /\ NoRow \notin WorkerSummaries
    /\ NoRow \notin JobRows /\ NoRow \notin WorkerRows
    /\ MaxTime \in Nat /\ LeaseTicks \in Nat

VARIABLES
    jobs,           \* evaluation_jobs: id -> row or NoRow
    workers,        \* workers: id -> row or NoRow
    jobRollups,     \* fleet_job_rollups
    workerRollups,  \* fleet_worker_rollups
    triggers,       \* are the rollup triggers installed?
    tx,             \* client -> its open transaction, or NoTx
    store,          \* replica -> state of its ArtifactStore
    migrator,       \* the holder of the migration advisory lock
    held,           \* how many of Tables its transaction has locked
    now

data == <<jobs, workers, jobRollups, workerRollups, triggers>>
vars == <<data, tx, store, migrator, held, now>>

(* What the schema transaction locks ACCESS EXCLUSIVE, in its order: ALTER  *)
(* TABLE on the first two, NO FORCE on workers, TRUNCATE on the rollups.    *)
Tables == <<"evaluation_runs", "evaluation_jobs", "workers", "fleet_rollups">>
Position(table) == CHOOSE i \in 1..4 : Tables[i] = table
Locked(table) == migrator # NoReplica /\ Position(table) <= held

Absent(row) == row = NoRow
Present(table) == {id \in DOMAIN table : ~Absent(table[id])}

-----------------------------------------------------------------------------
(* The columns the triggers and the backfill copy. *)

WorkerSummary(row) ==
    IF Absent(row) THEN NoRow
    ELSE [cpu |-> "cpu" \in row.capabilities.accelerators,
          cuda |-> "cuda" \in row.capabilities.accelerators,
          gpus |-> row.capabilities.gpus,
          seen |-> row.seen]

JobSummary(j, row) ==
    IF Absent(row) THEN NoRow
    ELSE [status |-> row.status, cuda |-> j \in CudaJobs,
          created |-> row.created, lease |-> row.lease]

(* The backfill selects every row: the schema transaction has suspended the *)
(* tenant policies.                                                         *)
JobRollupOf(table) == [j \in Jobs |-> JobSummary(j, table[j])]
WorkerRollupOf(table) == [k \in WorkerIds |-> WorkerSummary(table[k])]

-----------------------------------------------------------------------------
(* Usage of one tenant, counted on evaluation_jobs under its policy, and   *)
(* the refusals of enqueue_job and lease_job that rest on it.              *)

Live(row) == row.status = "running" /\ row.lease >= now

Visible(t) == {j \in Present(jobs) : TenantOf[j] = t}

QuotaUsage(t, field) ==
    Cardinality({j \in Visible(t) :
        CASE field = "queued" -> jobs[j].status = "queued"
          [] field = "running" -> Live(jobs[j])
          [] field = "cuda" -> Live(jobs[j]) /\ j \in CudaJobs
          [] field = "hourly" -> jobs[j].created >= now - Hour})

Limited(t, field) == t \in DOMAIN Quota /\ Quota[t][field] # NoLimit
Exhausted(t, field) == Limited(t, field) /\ QuotaUsage(t, field) >= Quota[t][field]

EnqueueRefused(t) == Exhausted(t, "queued") \/ Exhausted(t, "hourly")
ClaimRefused(t) == Exhausted(t, "running")
CudaClaimRefused(t) == ClaimRefused(t) \/ Exhausted(t, "cuda")

-----------------------------------------------------------------------------
(* platform_fleet_report reads the rollups, the registry and the quotas in *)
(* one statement.                                                          *)

(* tenant_ids.  RegisteredTenants is the report without the two UNIONs.    *)
RegisteredTenants == Registered
ReportedTenants ==
    Registered \cup {TenantOf[j] : j \in Present(jobRollups)}
               \cup {TenantOf[k] : k \in Present(workerRollups)}

TenantJobs(t) == {j \in Present(jobRollups) : TenantOf[j] = t}
ActiveWorkers(t) ==
    {k \in Present(workerRollups) :
        TenantOf[k] = t /\ workerRollups[k].seen >= now - Window}

JobUsage(t) ==
    LET queued == {j \in TenantJobs(t) : jobRollups[j].status = "queued"}
        running == {j \in TenantJobs(t) : Live(jobRollups[j])}
        cuda == {j \in TenantJobs(t) : jobRollups[j].cuda}
    IN [queuedCpu |-> Cardinality(queued \ cuda),
        queuedCuda |-> Cardinality(queued \cap cuda),
        runningCpu |-> Cardinality(running \ cuda),
        runningCuda |-> Cardinality(running \cap cuda),
        hourly |-> Cardinality({j \in TenantJobs(t) : jobRollups[j].created >= now - Hour})]

WorkerUsage(t) ==
    LET active == ActiveWorkers(t)
        cuda == {k \in active : workerRollups[k].cuda}
    IN [observed |-> Cardinality({k \in Present(workerRollups) :
                         TenantOf[k] = t /\ workerRollups[k].seen >= now - Day}),
        cpu |-> Cardinality({k \in active : workerRollups[k].cpu}),
        cuda |-> Cardinality(cuda),
        gpus |-> SumFunction([k \in cuda |-> workerRollups[k].gpus])]

(* _tenant_fleet_summary: a limit is saturated from its value on.          *)
(* SaturationOver is the flag that waits until usage is over the limit.    *)
SaturationOver(t) ==
    LET use == JobUsage(t)
        over(field, n) == Limited(t, field) /\ n > Quota[t][field]
    IN [queued |-> over("queued", use.queuedCpu + use.queuedCuda),
        hourly |-> over("hourly", use.hourly),
        running |-> over("running", use.runningCpu + use.runningCuda),
        cuda |-> over("cuda", use.runningCuda)]
Saturation(t) ==
    LET use == JobUsage(t)
        full(field, n) == Limited(t, field) /\ n >= Quota[t][field]
    IN [queued |-> full("queued", use.queuedCpu + use.queuedCuda),
        hourly |-> full("hourly", use.hourly),
        running |-> full("running", use.runningCpu + use.runningCuda),
        cuda |-> full("cuda", use.runningCuda)]

(* The totals of the report, summed over the tenants it lists. *)
Totals ==
    LET jobUse == [t \in ReportedTenants |-> JobUsage(t)]
        workerUse == [t \in ReportedTenants |-> WorkerUsage(t)]
    IN [queued |-> SumFunction([t \in ReportedTenants |->
                       jobUse[t].queuedCpu + jobUse[t].queuedCuda]),
        running |-> SumFunction([t \in ReportedTenants |->
                       jobUse[t].runningCpu + jobUse[t].runningCuda]),
        hourly |-> SumFunction([t \in ReportedTenants |-> jobUse[t].hourly]),
        observed |-> SumFunction([t \in ReportedTenants |-> workerUse[t].observed]),
        gpus |-> SumFunction([t \in ReportedTenants |-> workerUse[t].gpus])]

-----------------------------------------------------------------------------
(* An older deployment, upgraded while it serves: no triggers, no rollups.  *)
Init ==
    /\ jobs = [j \in Jobs |-> NoRow]
    /\ workers = [k \in WorkerIds |-> NoRow]
    /\ jobRollups = [j \in Jobs |-> NoRow]
    /\ workerRollups = [k \in WorkerIds |-> NoRow]
    /\ triggers = FALSE
    /\ tx = [c \in Clients |-> NoTx]
    /\ store = [r \in Replicas |-> IF r \in Serving THEN "ready" ELSE "new"]
    /\ migrator = NoReplica
    /\ held = 0
    /\ now = 0

Tick == now < MaxTime /\ now' = now + 1 /\ UNCHANGED <<data, tx, store, migrator, held>>

-----------------------------------------------------------------------------
(* Client transactions.                                                    *)

Open == {c \in Clients : tx[c] # NoTx}
Idle(c) == tx[c] = NoTx /\ store[ReplicaOf[c]] = "ready"
RowFree(table, id) == \A c \in Open : <<tx[c].table, tx[c].id>> # <<table, id>>
QuotaFree(t) == \A c \in Open : ~(tx[c].quotaLock /\ TenantOf[tx[c].id] = t)

(* A statement of c that puts row at id.  fired: the AFTER ROW trigger, if  *)
(* there is one, writes the rollup in the same transaction.                 *)
Write(c, table, id, row, quotaLock, runCheck) ==
    /\ ~Locked(table)
    /\ triggers => ~Locked("fleet_rollups")
    /\ RowFree(table, id)
    /\ tx' = [tx EXCEPT ![c] =
          [table |-> table, id |-> id, row |-> row, fired |-> triggers,
           quotaLock |-> quotaLock, runCheck |-> runCheck]]
    /\ UNCHANGED <<data, store, migrator, held, now>>

WriteJob(c, j, row, quotaLock, runCheck) ==
    Idle(c) /\ Write(c, "evaluation_jobs", j, row, quotaLock, runCheck)

(* enqueue_job, under the tenant's quota lock. *)
EnqueueJob(c, j) ==
    /\ Absent(jobs[j])
    /\ QuotaFree(TenantOf[j])
    /\ ~EnqueueRefused(TenantOf[j])
    /\ WriteJob(c, j, [status |-> "queued", created |-> now, lease |-> NoLease],
                TRUE, FALSE)

(* lease_job, under the same lock.  Priorities, attempts and capabilities   *)
(* are in JobQueue: no rollup repeats them.                                 *)
LeaseJob(c, j) ==
    /\ ~Absent(jobs[j])
    /\ QuotaFree(TenantOf[j])
    /\ IF j \in CudaJobs THEN ~CudaClaimRefused(TenantOf[j]) ELSE ~ClaimRefused(TenantOf[j])
    /\ \/ jobs[j].status = "queued"
       \/ jobs[j].status = "running" /\ jobs[j].lease < now
    /\ WriteJob(c, j, [jobs[j] EXCEPT !.status = "running", !.lease = now + LeaseTicks],
                TRUE, FALSE)

(* renew_job_lease and fail_job: the row stays in the queue. *)
RenewJob(c, j) ==
    /\ ~Absent(jobs[j]) /\ jobs[j].status = "running"
    /\ WriteJob(c, j, [jobs[j] EXCEPT !.lease = now + LeaseTicks], FALSE, FALSE)

FailJob(c, j) ==
    /\ ~Absent(jobs[j]) /\ jobs[j].status = "running"
    /\ \E s \in {"queued", "failed"} :
          WriteJob(c, j, [jobs[j] EXCEPT !.status = s, !.lease = NoLease], FALSE, FALSE)

(* complete_job sets run_id: the foreign key to evaluation_runs is checked  *)
(* before the statement ends.                                               *)
CompleteJob(c, j) ==
    /\ ~Absent(jobs[j]) /\ jobs[j].status = "running"
    /\ WriteJob(c, j, [jobs[j] EXCEPT !.status = "completed", !.lease = NoLease],
                FALSE, TRUE)

CancelJob(c, j) ==
    /\ ~Absent(jobs[j]) /\ jobs[j].status \in {"queued", "running"}
    /\ WriteJob(c, j, [jobs[j] EXCEPT !.status = "cancelled", !.lease = NoLease],
                FALSE, FALSE)

RegisterWorker(c, k) ==
    /\ Idle(c)
    /\ \E cap \in Capabilities :
          Write(c, "workers", k, [capabilities |-> cap, seen |-> now], FALSE, FALSE)

(* The KEY SHARE lock of the foreign-key check on evaluation_runs. *)
CheckRun(c) ==
    /\ tx[c] # NoTx /\ tx[c].runCheck
    /\ ~Locked("evaluation_runs")
    /\ tx' = [tx EXCEPT ![c].runCheck = FALSE]
    /\ UNCHANGED <<data, store, migrator, held, now>>

Commit(c) ==
    /\ tx[c] # NoTx /\ ~tx[c].runCheck
    /\ LET t == tx[c] IN
       IF t.table = "workers"
       THEN /\ workers' = [workers EXCEPT ![t.id] = t.row]
            /\ workerRollups' = IF t.fired
                                THEN [workerRollups EXCEPT ![t.id] = WorkerSummary(t.row)]
                                ELSE workerRollups
            /\ UNCHANGED <<jobs, jobRollups>>
       ELSE /\ jobs' = [jobs EXCEPT ![t.id] = t.row]
            /\ jobRollups' = IF t.fired
                             THEN [jobRollups EXCEPT ![t.id] = JobSummary(t.id, t.row)]
                             ELSE jobRollups
            /\ UNCHANGED <<workers, workerRollups>>
    /\ tx' = [tx EXCEPT ![c] = NoTx]
    /\ UNCHANGED <<triggers, store, migrator, held, now>>

(* The connection is lost, or the deadlock detector chose this transaction. *)
Rollback(c) ==
    /\ tx[c] # NoTx
    /\ tx' = [tx EXCEPT ![c] = NoTx]
    /\ UNCHANGED <<data, store, migrator, held, now>>

-----------------------------------------------------------------------------
(* ArtifactStore.initialize, _initialize_schema and close.                 *)

(* The pool is open and the schema transaction waits for the advisory lock. *)
Initialize(r) ==
    /\ store[r] = "new"
    /\ store' = [store EXCEPT ![r] = "waiting"]
    /\ UNCHANGED <<data, tx, migrator, held, now>>

TakeMigrationLock(r) ==
    /\ store[r] = "waiting" /\ migrator = NoReplica
    /\ store' = [store EXCEPT ![r] = "migrating"]
    /\ migrator' = r /\ held' = 0
    /\ UNCHANGED <<data, tx, now>>

(* The locks an open transaction keeps until it ends. *)
Holds(t) ==
    {t.table} \cup (IF t.fired THEN {"fleet_rollups"} ELSE {})

(* LockUnblocked is DDL that does not wait for open writers. *)
LockUnblocked(r) ==
    /\ migrator = r /\ held < 4
    /\ held' = held + 1
    /\ UNCHANGED <<data, tx, store, migrator, now>>
LockTable(r) ==
    /\ migrator = r /\ held < 4
    /\ \A c \in Open : Tables[held + 1] \notin Holds(tx[c])
    /\ held' = held + 1
    /\ UNCHANGED <<data, tx, store, migrator, now>>

(* TRUNCATE, backfill, triggers and the version row, published together. *)
CommitSchema(r) ==
    /\ migrator = r /\ held = 4
    /\ jobRollups' = JobRollupOf(jobs)
    /\ workerRollups' = WorkerRollupOf(workers)
    /\ triggers' = TRUE
    /\ store' = [store EXCEPT ![r] = "ready"]
    /\ migrator' = NoReplica /\ held' = 0
    /\ UNCHANGED <<jobs, workers, tx, now>>

(* lock_timeout, a deadlock, an unsupported version or a lost connection:   *)
(* everything is rolled back.  A pooled store is closed for good, a direct  *)
(* one tries again at its next call.  FailOpen lets the replica serve.      *)
FailOpen(r) ==
    /\ store[r] \in {"waiting", "migrating"}
    /\ store' = [store EXCEPT ![r] = "ready"]
    /\ IF migrator = r THEN migrator' = NoReplica /\ held' = 0
                       ELSE UNCHANGED <<migrator, held>>
    /\ UNCHANGED <<data, tx, now>>
InitializeFails(r) ==
    /\ store[r] \in {"waiting", "migrating"}
    /\ store' = [store EXCEPT ![r] = IF r \in Pooled THEN "closed" ELSE "new"]
    /\ IF migrator = r THEN migrator' = NoReplica /\ held' = 0
                       ELSE UNCHANGED <<migrator, held>>
    /\ UNCHANGED <<data, tx, now>>

(* close waits for initialize; requests under way keep their connections. *)
Close(r) ==
    /\ store[r] \in {"new", "ready"}
    /\ store' = [store EXCEPT ![r] = "closed"]
    /\ UNCHANGED <<data, tx, migrator, held, now>>

(* The process is restarted with a new store, once its requests are over. *)
Restart(r) ==
    /\ store[r] = "closed"
    /\ \A c \in Open : ReplicaOf[c] # r
    /\ store' = [store EXCEPT ![r] = "new"]
    /\ UNCHANGED <<data, tx, migrator, held, now>>

-----------------------------------------------------------------------------
ClientStep(c) ==
    \/ \E j \in Jobs :
          \/ EnqueueJob(c, j) \/ LeaseJob(c, j) \/ RenewJob(c, j)
          \/ FailJob(c, j) \/ CompleteJob(c, j) \/ CancelJob(c, j)
    \/ \E k \in WorkerIds : RegisterWorker(c, k)
    \/ CheckRun(c) \/ Commit(c) \/ Rollback(c)

StoreStep(r) ==
    \/ Initialize(r) \/ TakeMigrationLock(r) \/ LockTable(r)
    \/ CommitSchema(r) \/ InitializeFails(r) \/ Close(r) \/ Restart(r)

Next ==
    \/ Tick
    \/ \E c \in Clients : ClientStep(c)
    \/ \E r \in Replicas : StoreStep(r)

Spec == Init /\ [][Next]_vars

-----------------------------------------------------------------------------
(* Tables, rollups, transactions and store states are well typed, and the  *)
(* migration lock is held by the one replica that is migrating.            *)
TypeOK ==
    /\ jobs \in [Jobs -> JobRows \cup {NoRow}]
    /\ workers \in [WorkerIds -> WorkerRows \cup {NoRow}]
    /\ \A c \in Open : tx[c].table \in {"evaluation_jobs", "workers"}
    /\ store \in [Replicas -> {"new", "waiting", "migrating", "ready", "closed"}]
    /\ \A r \in Replicas : store[r] = "migrating" <=> migrator = r
    /\ held \in 0..4 /\ now \in 0..MaxTime

(* From the first upgraded replica on, every committed row and nothing else *)
(* is in the rollups, whatever transactions were open while a replica       *)
(* truncated and rebuilt them, and whichever attempts were rolled back.     *)
RollupsExact ==
    triggers => /\ jobRollups = JobRollupOf(jobs)
                /\ workerRollups = WorkerRollupOf(workers)

(* The saturation flags of the platform report say what enqueue_job and    *)
(* lease_job decide for the tenant at that moment.                          *)
SaturationTruthful ==
    \A t \in ReportedTenants :
        LET flags == Saturation(t) IN
        /\ EnqueueRefused(t) <=> (flags.queued \/ flags.hourly)
        /\ ClaimRefused(t) <=> flags.running
        /\ CudaClaimRefused(t) <=> (flags.running \/ flags.cuda)

(* The totals of the report count every queued job, live lease, recent      *)
(* submission, recent worker and reachable GPU of the database once, those  *)
(* of unregistered tenants included.                                        *)
TotalsComplete ==
    LET rows == Present(jobs)
        reachable == {k \in Present(workers) :
                        /\ workers[k].seen >= now - Window
                        /\ "cuda" \in workers[k].capabilities.accelerators}
    IN Totals =
        [queued |-> Cardinality({j \in rows : jobs[j].status = "queued"}),
         running |-> Cardinality({j \in rows : Live(jobs[j])}),
         hourly |-> Cardinality({j \in rows : jobs[j].created >= now - Hour}),
         observed |-> Cardinality({k \in Present(workers) : workers[k].seen >= now - Day}),
         gpus |-> SumFunction([k \in reachable |-> workers[k].capabilities.gpus])]

(* From the first upgraded replica on, what the platform report says is so  *)
(* in the tables it does not read: its flags are the refusals of the        *)
(* tenants' own transactions, and its totals miss nobody.                   *)
ReportTruthful == triggers => SaturationTruthful /\ TotalsComplete

(* A replica whose schema transaction timed out, met a deadlock or was      *)
(* refused never starts a write: what upgraded replicas write is always     *)
(* covered by the triggers.                                                 *)
ServesUpgradedSchema ==
    \A c \in Open : ReplicaOf[c] \in Serving \/ tx[c].fired
=============================================================================
