---------------------------- MODULE FleetProofs -----------------------------
(***************************************************************************)
(* The rollups repeat the tables, for any number of jobs, workers,         *)
(* replicas and request threads.  The argument is the one of the locks:    *)
(* once the schema transaction has a table nobody has an open write to it, *)
(* so the triggers are published at a moment when no write is under way    *)
(* that does not fire them.                                                *)
(***************************************************************************)
EXTENDS FleetQueries, FiniteSetTheorems, SequenceTheorems, WellFoundedInduction, TLAPS

(* An open transaction is a record of these fields. *)
Fields == {"table", "id", "row", "fired", "quotaLock", "runCheck"}

(* Tables hold rows, and an open transaction is about to put one. *)
FleetTyped ==
    /\ jobs \in [Jobs -> JobRows \cup {NoRow}]
    /\ workers \in [WorkerIds -> WorkerRows \cup {NoRow}]
    /\ tx = [c \in Clients |-> tx[c]]
    /\ \A c \in Open :
          \/ tx[c].table = "evaluation_jobs" /\ tx[c].id \in Jobs /\ tx[c].row \in JobRows
          \/ tx[c].table = "workers" /\ tx[c].id \in WorkerIds /\ tx[c].row \in WorkerRows
    /\ \A c \in Open : DOMAIN tx[c] = Fields
    /\ store \in [Replicas -> {"new", "waiting", "migrating", "ready", "closed"}]
    /\ migrator \in Replicas \cup {NoReplica}
    /\ held \in 0..4
    /\ \A r \in Replicas : store[r] = "migrating" <=> migrator = r
    /\ now \in 0..MaxTime

(* No open write is to a table that the schema transaction has locked. *)
TablesExclusive == \A c \in Open : ~Locked(tx[c].table)

(* Once the triggers are published, every open write fires them. *)
WritesFire == triggers => \A c \in Open : tx[c].fired

(* A store that serves belongs to the old deployment, or its schema        *)
(* transaction has published the triggers.                                 *)
ReadyUpgraded ==
    \A r \in Replicas : store[r] = "ready" => r \in Serving \/ triggers

FleetInv ==
    /\ FleetTyped /\ TablesExclusive /\ WritesFire /\ ReadyUpgraded
    /\ RollupsExact /\ ServesUpgradedSchema

(* The order in which the schema transaction locks the two tables. *)
LEMMA Positions == Position("evaluation_jobs") = 2 /\ Position("workers") = 3
BY DEF Position, Tables

(* An upgraded deployment has not begun. *)
LEMMA InitInv == Init => FleetInv
<1> SUFFICES ASSUME Init PROVE FleetInv
  OBVIOUS
<1> USE DEF Init
<1>1. Open = {}
  BY DEF Open
<1>2. FleetTyped
  BY <1>1, FleetAssumption DEF FleetTyped
<1>3. ~triggers
  OBVIOUS
<1>4. ReadyUpgraded
  BY DEF ReadyUpgraded
<1> QED
  BY <1>1, <1>2, <1>3, <1>4
     DEF FleetInv, TablesExclusive, WritesFire, RollupsExact, ServesUpgradedSchema

(* A statement of a request thread. *)
LEMMA WriteKeeps ==
  ASSUME FleetInv, NEW c \in Clients, Idle(c), NEW table, NEW id, NEW row,
         NEW quotaLock, NEW runCheck,
         \/ table = "evaluation_jobs" /\ id \in Jobs /\ row \in JobRows
         \/ table = "workers" /\ id \in WorkerIds /\ row \in WorkerRows,
         Write(c, table, id, row, quotaLock, runCheck)
  PROVE  FleetInv'
<1> DEFINE t == [table |-> table, id |-> id, row |-> row, fired |-> triggers,
                 quotaLock |-> quotaLock, runCheck |-> runCheck]
<1>1. /\ tx' = [d \in Clients |-> IF d = c THEN t ELSE tx[d]]
      /\ UNCHANGED <<data, store, migrator, held, now>>
  BY DEF FleetInv, FleetTyped, Write
<1>2. /\ t.table = table /\ t.id = id /\ t.row = row /\ t.fired = triggers
      /\ DOMAIN t = Fields
  BY DEF Fields
<1> HIDE DEF t
<1>3. \A d \in Open' : d = c \/ (d \in Open /\ tx'[d] = tx[d])
  BY <1>1 DEF Open
<1>4. Open' \subseteq Clients /\ tx'[c] = t /\ tx' = [d \in Clients |-> tx'[d]]
  BY <1>1 DEF Open
<1>5. FleetTyped'
  BY <1>1, <1>2, <1>3, <1>4 DEF FleetInv, FleetTyped, data
<1>6. TablesExclusive'
  BY <1>1, <1>2, <1>3, <1>4 DEF FleetInv, TablesExclusive, Locked, Write
<1>7. WritesFire' /\ ReadyUpgraded' /\ RollupsExact'
  BY <1>1, <1>2, <1>3, <1>4
     DEF FleetInv, WritesFire, ReadyUpgraded, RollupsExact, JobRollupOf, WorkerRollupOf, data
<1>8. ServesUpgradedSchema'
  BY <1>1, <1>2, <1>3, <1>4, FleetAssumption
     DEF FleetInv, ReadyUpgraded, ServesUpgradedSchema, Idle
<1> QED
  BY <1>5, <1>6, <1>7, <1>8 DEF FleetInv

(* A transaction that ends leaves the others and the locks as they are. *)
LEMMA EndKeeps ==
  ASSUME FleetInv, NEW c \in Clients, tx' = [tx EXCEPT ![c] = NoTx],
         UNCHANGED <<triggers, store, migrator, held>>
  PROVE  /\ tx' = [d \in Clients |-> tx'[d]]
         /\ \A d \in Open' : d \in Open /\ tx'[d] = tx[d]
         /\ TablesExclusive' /\ WritesFire' /\ ReadyUpgraded' /\ ServesUpgradedSchema'
<1>1. tx' = [d \in Clients |-> IF d = c THEN NoTx ELSE tx[d]]
  BY DEF FleetInv, FleetTyped
<1>2. /\ tx' = [d \in Clients |-> tx'[d]]
      /\ \A d \in Open' : d \in Open /\ tx'[d] = tx[d]
  BY <1>1 DEF Open
<1>3. TablesExclusive' /\ WritesFire' /\ ReadyUpgraded' /\ ServesUpgradedSchema'
  BY <1>2 DEF FleetInv, TablesExclusive, Locked, WritesFire, ReadyUpgraded,
              ServesUpgradedSchema
<1> QED
  BY <1>2, <1>3

(* A commit writes row and rollup together. *)
LEMMA CommitKeeps ==
  ASSUME FleetInv, NEW c \in Clients, Commit(c)
  PROVE  FleetInv'
<1> DEFINE t == tx[c]
<1>1. /\ c \in Open /\ tx' = [tx EXCEPT ![c] = NoTx]
      /\ UNCHANGED <<triggers, store, migrator, held, now>>
  BY DEF Commit, Open
<1>2. triggers => t.fired
  BY <1>1 DEF FleetInv, WritesFire
<1>3. CASE t.table = "workers"
  <2>1. /\ t.id \in WorkerIds /\ t.row \in WorkerRows
        /\ workers' = [workers EXCEPT ![t.id] = t.row]
        /\ triggers => workerRollups' = [workerRollups EXCEPT ![t.id] = WorkerSummary(t.row)]
        /\ UNCHANGED <<jobs, jobRollups>>
    BY <1>1, <1>2, <1>3 DEF Commit, FleetInv, FleetTyped
  <2> HIDE DEF t
  <2>2. workers' = [k \in WorkerIds |-> IF k = t.id THEN t.row ELSE workers[k]]
    BY <2>1 DEF FleetInv, FleetTyped
  <2>3. RollupsExact'
    <3> SUFFICES ASSUME triggers
                 PROVE  jobRollups' = JobRollupOf(jobs') /\ workerRollups' = WorkerRollupOf(workers')
      BY <1>1 DEF RollupsExact
    <3>1. jobRollups = JobRollupOf(jobs) /\ workerRollups = WorkerRollupOf(workers)
      BY DEF FleetInv, RollupsExact
    <3>2. jobRollups' = JobRollupOf(jobs')
      BY <2>1, <3>1
    <3>3. workerRollups' = [k \in WorkerIds |-> WorkerSummary(workers'[k])]
      BY <2>1, <2>2, <3>1 DEF WorkerRollupOf
    <3> QED
      BY <3>2, <3>3 DEF WorkerRollupOf
  <2>4. workers' \in [WorkerIds -> WorkerRows \cup {NoRow}]
    BY <2>1, <2>2 DEF FleetInv, FleetTyped
  <2>5. FleetTyped'
    BY <1>1, <2>1, <2>4, EndKeeps DEF FleetInv, FleetTyped
  <2> QED
    BY <1>1, <2>3, <2>5, EndKeeps DEF FleetInv
<1>4. CASE t.table # "workers"
  <2>1. /\ t.id \in Jobs /\ t.row \in JobRows
        /\ jobs' = [jobs EXCEPT ![t.id] = t.row]
        /\ triggers => jobRollups' = [jobRollups EXCEPT ![t.id] = JobSummary(t.id, t.row)]
        /\ UNCHANGED <<workers, workerRollups>>
    BY <1>1, <1>2, <1>4 DEF Commit, FleetInv, FleetTyped
  <2> HIDE DEF t
  <2>2. jobs' = [j \in Jobs |-> IF j = t.id THEN t.row ELSE jobs[j]]
    BY <2>1 DEF FleetInv, FleetTyped
  <2>3. RollupsExact'
    <3> SUFFICES ASSUME triggers
                 PROVE  jobRollups' = JobRollupOf(jobs') /\ workerRollups' = WorkerRollupOf(workers')
      BY <1>1 DEF RollupsExact
    <3>1. jobRollups = JobRollupOf(jobs) /\ workerRollups = WorkerRollupOf(workers)
      BY DEF FleetInv, RollupsExact
    <3>2. workerRollups' = WorkerRollupOf(workers')
      BY <2>1, <3>1
    <3>3. jobRollups' = [j \in Jobs |-> JobSummary(j, jobs'[j])]
      BY <2>1, <2>2, <3>1 DEF JobRollupOf
    <3> QED
      BY <3>2, <3>3 DEF JobRollupOf
  <2>4. jobs' \in [Jobs -> JobRows \cup {NoRow}]
    BY <2>1, <2>2 DEF FleetInv, FleetTyped
  <2>5. FleetTyped'
    BY <1>1, <2>1, <2>4, EndKeeps DEF FleetInv, FleetTyped
  <2> QED
    BY <1>1, <2>3, <2>5, EndKeeps DEF FleetInv
<1> QED
  BY <1>3, <1>4

(* What a request thread puts into evaluation_jobs is a row. *)
LEMMA JobRowPut ==
  ASSUME FleetInv, NEW c \in Clients, NEW j \in Jobs,
         \/ EnqueueJob(c, j) \/ LeaseJob(c, j) \/ RenewJob(c, j)
         \/ FailJob(c, j) \/ CompleteJob(c, j) \/ CancelJob(c, j)
  PROVE  \E row \in JobRows : \E quotaLock, runCheck :
             WriteJob(c, j, row, quotaLock, runCheck)
<1>1. /\ now \in 0..MaxTime /\ MaxTime \in Nat /\ LeaseTicks \in Nat
      /\ ~Absent(jobs[j]) => jobs[j] \in JobRows
  BY FleetAssumption DEF FleetInv, FleetTyped, Absent
<1>2. /\ NoLease \in Leases /\ now + LeaseTicks \in Leases
      /\ {"queued", "running", "completed", "failed", "cancelled"} \subseteq Statuses
  BY <1>1 DEF Leases, Statuses
<1>3. \A row \in JobRows, s \in Statuses, l \in Leases :
        /\ [row EXCEPT !.status = s, !.lease = l] \in JobRows
        /\ [row EXCEPT !.lease = l] \in JobRows
  BY DEF JobRows
<1>4. CASE EnqueueJob(c, j)
  <2>1. [status |-> "queued", created |-> now, lease |-> NoLease] \in JobRows
    BY <1>1, <1>2 DEF JobRows
  <2> QED
    BY <1>4, <2>1 DEF EnqueueJob
<1>5. CASE LeaseJob(c, j)
  BY <1>1, <1>2, <1>3, <1>5 DEF LeaseJob
<1>6. CASE RenewJob(c, j)
  BY <1>1, <1>2, <1>3, <1>6 DEF RenewJob
<1>7. CASE FailJob(c, j)
  <2>1. PICK s \in {"queued", "failed"} :
            WriteJob(c, j, [jobs[j] EXCEPT !.status = s, !.lease = NoLease], FALSE, FALSE)
    BY <1>7 DEF FailJob
  <2>2. [jobs[j] EXCEPT !.status = s, !.lease = NoLease] \in JobRows
    BY <1>1, <1>2, <1>3, <1>7 DEF FailJob
  <2> QED
    BY <2>1, <2>2
<1>8. CASE CompleteJob(c, j)
  BY <1>1, <1>2, <1>3, <1>8 DEF CompleteJob
<1>9. CASE CancelJob(c, j)
  BY <1>1, <1>2, <1>3, <1>9 DEF CancelJob
<1> QED
  BY <1>4, <1>5, <1>6, <1>7, <1>8, <1>9

(* The steps of a request thread. *)
LEMMA ClientKeeps ==
  ASSUME FleetInv, NEW c \in Clients, ClientStep(c)
  PROVE  FleetInv'
<1>1. ASSUME NEW j \in Jobs,
             \/ EnqueueJob(c, j) \/ LeaseJob(c, j) \/ RenewJob(c, j)
             \/ FailJob(c, j) \/ CompleteJob(c, j) \/ CancelJob(c, j)
      PROVE  FleetInv'
  <2>1. \E row \in JobRows : \E quotaLock, runCheck :
            WriteJob(c, j, row, quotaLock, runCheck)
    BY <1>1, JobRowPut
  <2> QED
    BY <2>1, WriteKeeps DEF WriteJob
<1>2. ASSUME NEW k \in WorkerIds, RegisterWorker(c, k) PROVE FleetInv'
  <2>1. PICK offer \in Capabilities :
            Write(c, "workers", k, [capabilities |-> offer, seen |-> now], FALSE, FALSE)
    BY <1>2 DEF RegisterWorker
  <2>2. [capabilities |-> offer, seen |-> now] \in WorkerRows /\ Idle(c)
    BY <1>2 DEF FleetInv, FleetTyped, WorkerRows, RegisterWorker
  <2> QED
    BY <2>1, <2>2, WriteKeeps
<1>3. CASE CheckRun(c)
  <2>1. /\ c \in Open
        /\ tx' = [tx EXCEPT ![c].runCheck = FALSE]
        /\ UNCHANGED <<data, store, migrator, held, now>>
    BY <1>3 DEF CheckRun, Open
  <2>2. tx' = [d \in Clients |-> IF d = c THEN [tx[c] EXCEPT !.runCheck = FALSE] ELSE tx[d]]
    BY <2>1 DEF FleetInv, FleetTyped
  <2>3. DOMAIN tx[c] = Fields
    BY <2>1 DEF FleetInv, FleetTyped
  <2>4. LET t == [tx[c] EXCEPT !.runCheck = FALSE] IN
        /\ t.table = tx[c].table /\ t.id = tx[c].id /\ t.row = tx[c].row
        /\ t.fired = tx[c].fired
        /\ DOMAIN t = Fields
    BY <2>3 DEF Fields
  <2>5. \A d \in Open' :
            /\ d \in Open /\ tx'[d].table = tx[d].table /\ tx'[d].id = tx[d].id
            /\ tx'[d].row = tx[d].row /\ tx'[d].fired = tx[d].fired /\ DOMAIN tx'[d] = Fields
    <3> SUFFICES ASSUME NEW d \in Open'
                 PROVE  /\ d \in Open /\ tx'[d].table = tx[d].table /\ tx'[d].id = tx[d].id
                        /\ tx'[d].row = tx[d].row /\ tx'[d].fired = tx[d].fired /\ DOMAIN tx'[d] = Fields
      OBVIOUS
    <3>1. d \in Clients
      BY DEF Open
    <3>2. CASE d = c
      BY <2>1, <2>2, <2>4, <3>2
    <3>3. CASE d # c
      <4>1. tx'[d] = tx[d] /\ d \in Open
        BY <2>2, <3>1, <3>3 DEF Open
      <4> QED BY <4>1 DEF FleetInv, FleetTyped
    <3> QED BY <3>2, <3>3
  <2>6. tx' = [d \in Clients |-> tx'[d]]
    BY <2>2
  <2>7. FleetTyped'
    BY <2>1, <2>5, <2>6 DEF FleetInv, FleetTyped, data
  <2>8. TablesExclusive' /\ WritesFire' /\ ServesUpgradedSchema'
    BY <2>1, <2>5 DEF FleetInv, TablesExclusive, WritesFire, ServesUpgradedSchema, Locked, data
  <2>9. ReadyUpgraded' /\ RollupsExact'
    BY <2>1 DEF FleetInv, ReadyUpgraded, RollupsExact, JobRollupOf, WorkerRollupOf, data
  <2> QED
    BY <2>7, <2>8, <2>9 DEF FleetInv
<1>4. CASE Commit(c)
  BY <1>4, CommitKeeps
<1>5. CASE Rollback(c)
  <2>1. FleetTyped' /\ RollupsExact'
    BY <1>5, EndKeeps
       DEF Rollback, FleetInv, FleetTyped, data, RollupsExact, JobRollupOf, WorkerRollupOf
  <2> QED
    BY <1>5, <2>1, EndKeeps DEF Rollback, FleetInv, data
<1> QED
  BY <1>1, <1>2, <1>3, <1>4, <1>5 DEF ClientStep

(* A step of a replica's store that publishes nothing and locks no table. *)
LEMMA StoreStateKeeps ==
  ASSUME FleetInv, NEW r \in Replicas,
         NEW state \in {"new", "waiting", "migrating", "closed"},
         store' = [store EXCEPT ![r] = state],
         UNCHANGED <<data, tx, now>>,
         \/ state # "migrating" /\ migrator # r /\ UNCHANGED <<migrator, held>>
         \/ state # "migrating" /\ migrator = r /\ migrator' = NoReplica /\ held' = 0
         \/ state = "migrating" /\ migrator = NoReplica /\ migrator' = r /\ held' = 0
  PROVE  FleetInv'
<1>1. Open' = Open /\ tx' = tx
  BY DEF Open
<1>2. FleetTyped'
  BY <1>1, FleetAssumption DEF FleetInv, FleetTyped, data
<1>3. TablesExclusive'
  <2>1. CASE UNCHANGED <<migrator, held>>
    BY <1>1, <2>1 DEF FleetInv, TablesExclusive, Locked
  <2>2. CASE held' = 0
    <3> SUFFICES ASSUME NEW c \in Open PROVE ~(Position(tx[c].table) <= 0)
      BY <1>1, <2>2 DEF TablesExclusive, Locked
    <3> QED
      BY Positions DEF FleetInv, FleetTyped
  <2> QED
    BY <2>1, <2>2
<1>4. WritesFire' /\ ServesUpgradedSchema' /\ RollupsExact'
  BY <1>1 DEF FleetInv, WritesFire, ServesUpgradedSchema, RollupsExact,
              JobRollupOf, WorkerRollupOf, data
<1>5. ReadyUpgraded'
  BY DEF FleetInv, FleetTyped, ReadyUpgraded, data
<1> QED
  BY <1>2, <1>3, <1>4, <1>5 DEF FleetInv

(* A table is locked once nobody writes it. *)
LEMMA LockTableKeeps ==
  ASSUME FleetInv, NEW r \in Replicas, LockTable(r)
  PROVE  FleetInv'
<1>1. Open' = Open /\ tx' = tx /\ UNCHANGED <<data, store, migrator>>
  BY DEF Open, LockTable
<1>2. FleetTyped'
  BY <1>1 DEF LockTable, FleetInv, FleetTyped, data
<1>3. TablesExclusive'
  <2> SUFFICES ASSUME NEW c \in Open PROVE ~(Position(tx[c].table) <= held + 1)
    BY <1>1 DEF LockTable, TablesExclusive, Locked
  <2>1. ~(Position(tx[c].table) <= held)
    BY FleetAssumption DEF LockTable, FleetInv, TablesExclusive, Locked
  <2>2. Tables[held + 1] # tx[c].table
    BY DEF LockTable, Holds
  <2>3. /\ tx[c].table \in {"evaluation_jobs", "workers"} /\ held \in 0..3
    BY DEF LockTable, FleetInv, FleetTyped
  <2>4. Tables[2] = "evaluation_jobs" /\ Tables[3] = "workers"
    BY DEF Tables
  <2>5. CASE tx[c].table = "evaluation_jobs"
    BY <2>1, <2>2, <2>3, <2>4, <2>5, Positions
  <2>6. CASE tx[c].table = "workers"
    BY <2>1, <2>2, <2>3, <2>4, <2>6, Positions
  <2> QED
    BY <2>3, <2>5, <2>6
<1>4. /\ WritesFire' /\ ServesUpgradedSchema' /\ RollupsExact' /\ ReadyUpgraded'
  BY <1>1 DEF FleetInv, WritesFire, ServesUpgradedSchema, RollupsExact, ReadyUpgraded,
              JobRollupOf, WorkerRollupOf, data
<1> QED
  BY <1>2, <1>3, <1>4 DEF FleetInv

(* The rebuilt rollups and the triggers are published while no write is    *)
(* open.                                                                   *)
LEMMA CommitSchemaKeeps ==
  ASSUME FleetInv, NEW r \in Replicas, CommitSchema(r)
  PROVE  FleetInv'
<1>1. Open = {}
  <2> SUFFICES ASSUME NEW c \in Open PROVE FALSE
    OBVIOUS
  <2>1. ~(Position(tx[c].table) <= 4)
    BY FleetAssumption DEF CommitSchema, FleetInv, TablesExclusive, Locked
  <2> QED
    BY <2>1, Positions DEF FleetInv, FleetTyped
<1>2. Open' = {}
  BY <1>1 DEF CommitSchema, Open
<1>3. FleetTyped'
  BY <1>2, FleetAssumption DEF CommitSchema, FleetInv, FleetTyped
<1>4. TablesExclusive' /\ WritesFire' /\ ServesUpgradedSchema'
  BY <1>2 DEF TablesExclusive, WritesFire, ServesUpgradedSchema
<1>5. ReadyUpgraded'
  BY DEF CommitSchema, ReadyUpgraded
<1>6. RollupsExact'
  BY DEF CommitSchema, RollupsExact
<1> QED
  BY <1>3, <1>4, <1>5, <1>6 DEF FleetInv

(* The steps of a replica's store. *)
LEMMA StoreKeeps ==
  ASSUME FleetInv, NEW r \in Replicas, StoreStep(r)
  PROVE  FleetInv'
<1>1. CASE Initialize(r)
  <2>1. migrator # r
    BY <1>1 DEF Initialize, FleetInv, FleetTyped
  <2> QED
    BY <1>1, <2>1, StoreStateKeeps DEF Initialize
<1>2. CASE TakeMigrationLock(r)
  BY <1>2, StoreStateKeeps DEF TakeMigrationLock
<1>3. CASE LockTable(r)
  BY <1>3, LockTableKeeps
<1>4. CASE CommitSchema(r)
  BY <1>4, CommitSchemaKeeps
<1>5. CASE InitializeFails(r)
  <2>1. PICK state \in {"closed", "new"} : store' = [store EXCEPT ![r] = state]
    BY <1>5 DEF InitializeFails
  <2> QED
    BY <1>5, <2>1, StoreStateKeeps DEF InitializeFails
<1>6. CASE Close(r)
  <2>1. migrator # r
    BY <1>6 DEF Close, FleetInv, FleetTyped
  <2> QED
    BY <1>6, <2>1, StoreStateKeeps DEF Close
<1>7. CASE Restart(r)
  <2>1. migrator # r
    BY <1>7 DEF Restart, FleetInv, FleetTyped
  <2> QED
    BY <1>7, <2>1, StoreStateKeeps DEF Restart
<1> QED
  BY <1>1, <1>2, <1>3, <1>4, <1>5, <1>6, <1>7 DEF StoreStep

(* Every step keeps the invariant. *)
LEMMA NextKeepsInv == FleetInv /\ [Next]_vars => FleetInv'
<1> SUFFICES ASSUME FleetInv, [Next]_vars PROVE FleetInv'
  OBVIOUS
<1>1. ASSUME UNCHANGED <<data, tx, store, migrator, held>>, now' \in 0..MaxTime
      PROVE  FleetInv'
  BY <1>1 DEF FleetInv, FleetTyped, TablesExclusive, WritesFire, ReadyUpgraded,
              RollupsExact, JobRollupOf, WorkerRollupOf, ServesUpgradedSchema, Open,
              Locked, data
<1>2. CASE Tick
  BY <1>1, <1>2, FleetAssumption DEF Tick, FleetInv, FleetTyped
<1>3. CASE UNCHANGED vars
  BY <1>1, <1>3 DEF vars, FleetInv, FleetTyped
<1> QED
  BY <1>2, <1>3, ClientKeeps, StoreKeeps DEF Next

(* The inductive invariant of rollups, transactions and schema.            *)
THEOREM FleetInvariant == Spec => []FleetInv
BY InitInv, NextKeepsInv, PTL DEF Spec

(* From the first upgraded replica on the rollups are exact, however       *)
(* writes, upgrades, rollbacks and restarts of any number of replicas      *)
(* interleave.                                                             *)
THEOREM RollupsAreExact == Spec => []RollupsExact
<1>1. FleetInv => RollupsExact
  BY DEF FleetInv
<1> QED BY <1>1, FleetInvariant, PTL

(* A replica whose schema transaction did not commit starts no write. *)
THEOREM ReplicasServeUpgraded == Spec => []ServesUpgradedSchema
<1>1. FleetInv => ServesUpgradedSchema
  BY DEF FleetInv
<1> QED BY <1>1, FleetInvariant, PTL

-----------------------------------------------------------------------------
(* Sums.  SumFunctionOnSet folds a function over a set in an order nobody   *)
(* knows; what is known of it is what holds for every order.               *)

(* A nonempty set of natural numbers has a least one. *)
LEMMA LeastNumber ==
  ASSUME NEW T \in SUBSET Nat, T # {}
  PROVE  \E n \in T : \A m \in T : n <= m
<1> DEFINE U == {1..n : n \in T}
<1>1. U \subseteq FiniteSubsetsOf(Nat) /\ U # {}
  <2> SUFFICES ASSUME NEW n \in T PROVE 1..n \in FiniteSubsetsOf(Nat)
    OBVIOUS
  <2>1. IsFiniteSet(1..n) /\ 1..n \subseteq Nat
    BY FS_Interval
  <2> QED BY <2>1 DEF FiniteSubsetsOf
<1>2. \E x \in U : \A y \in U : ~(<<y, x>> \in StrictSubsetOrdering(Nat))
  <2> HIDE DEF U
  <2> QED BY <1>1, WFMin, FS_StrictSubsetOrderingWellFounded
<1>3. PICK n \in T : \A m \in T : ~(<<1..m, 1..n>> \in StrictSubsetOrdering(Nat))
  BY <1>2
<1>4. ASSUME NEW m \in T, m < n PROVE FALSE
  <2>1. 1..m \subseteq 1..n /\ 1..m # 1..n
    <3>1. n \in 1..n /\ n \notin 1..m
      BY <1>4
    <3> QED BY <1>4, <3>1
  <2>2. 1..m \in SUBSET Nat /\ 1..n \in SUBSET Nat
    OBVIOUS
  <2>3. <<1..m, 1..n>> \in StrictSubsetOrdering(Nat)
    BY <2>1, <2>2 DEF StrictSubsetOrdering
  <2> QED BY <1>3, <2>3
<1> QED BY <1>4

(* What SumFunctionOnSet computes, one element at a time. *)
LEMMA SumUnfolds ==
  ASSUME NEW S, NEW f
  PROVE  SumFunctionOnSet(f, S) =
           (CHOOSE g : g = [s \in SUBSET S |->
              IF s = {} THEN 0
              ELSE f[CHOOSE x \in s : TRUE] + g[s \ {CHOOSE x \in s : TRUE}]])[S]
BY DEF SumFunctionOnSet, FoldFunctionOnSet, MapThenFoldSet

(* g grows by f[x] when x is added, whichever element of S that is. *)
Accumulates(g, f, S) ==
    /\ g[{}] = 0
    /\ \A s \in SUBSET S : \A x \in s : g[s] = f[x] + g[s \ {x}]

(* Such a function of sets is the sum. *)
LEMMA SumIs ==
  ASSUME NEW S, IsFiniteSet(S), NEW f, NEW g, Accumulates(g, f, S)
  PROVE  SumFunctionOnSet(f, S) = g[S]
<1> USE DEF Accumulates
<1> DEFINE Sums(h) == h = [s \in SUBSET S |->
              IF s = {} THEN 0
              ELSE f[CHOOSE x \in s : TRUE] + h[s \ {CHOOSE x \in s : TRUE}]]
           r == [s \in SUBSET S |-> g[s]]
           h == CHOOSE k : Sums(k)
           T == {n \in Nat : \E s \in SUBSET S : Cardinality(s) = n /\ h[s] # g[s]}
<1>1. \A s \in SUBSET S : s # {} => (CHOOSE x \in s : TRUE) \in s
  OBVIOUS
<1>2. Sums(r)
  <2>1. \A s \in SUBSET S :
          r[s] = IF s = {} THEN 0
                 ELSE f[CHOOSE x \in s : TRUE] + r[s \ {CHOOSE x \in s : TRUE}]
    BY <1>1
  <2> QED BY <2>1
<1>3. Sums(h)
  BY <1>2
<1>4. \A s \in SUBSET S :
        h[s] = IF s = {} THEN 0
               ELSE f[CHOOSE x \in s : TRUE] + h[s \ {CHOOSE x \in s : TRUE}]
  <2> HIDE DEF h
  <2> QED BY <1>3
<1> HIDE DEF h, r, Sums
<1>5. T = {}
  <2> SUFFICES ASSUME T # {} PROVE FALSE
    OBVIOUS
  <2>1. PICK n \in T : \A m \in T : n <= m
    <3>1. T \in SUBSET Nat
      OBVIOUS
    <3> HIDE DEF T
    <3> QED BY <3>1, LeastNumber
  <2>2. PICK s \in SUBSET S : Cardinality(s) = n /\ h[s] # g[s]
    OBVIOUS
  <2>3. IsFiniteSet(s) /\ s # {}
    BY <1>4, <2>2, FS_Subset
  <2> DEFINE x == CHOOSE y \in s : TRUE
  <2>4. x \in s /\ s \ {x} \in SUBSET S
    BY <1>1, <2>3
  <2> HIDE DEF x
  <2>5. Cardinality(s \ {x}) = n - 1 /\ n - 1 \in Nat /\ ~(n <= n - 1)
    <3>1. n \in Nat
      OBVIOUS
    <3>2. Cardinality(s \ {x}) = n - 1 /\ Cardinality(s \ {x}) \in Nat
      BY <2>2, <2>3, <2>4, FS_RemoveElement, FS_CardinalityType
    <3> QED BY <3>1, <3>2
  <2>6. h[s \ {x}] = g[s \ {x}]
    <3>1. n - 1 \notin T
      <4> HIDE DEF T
      <4> QED BY <2>1, <2>5
    <3> QED BY <2>4, <2>5, <3>1
  <2>7. h[s] = f[x] + h[s \ {x}]
    BY <1>4, <2>3 DEF x
  <2> QED BY <2>2, <2>4, <2>6, <2>7
<1>6. h[S] = g[S]
  <2>1. Cardinality(S) \in Nat
    BY FS_CardinalityType
  <2> QED BY <1>5, <2>1
<1>7. SumFunctionOnSet(f, S) = h[S]
  BY SumUnfolds DEF h, Sums
<1> QED BY <1>6, <1>7

(* Counting the things of every owner and adding up counts the things. *)
LEMMA SumOfParts ==
  ASSUME NEW R, IsFiniteSet(R), NEW X, IsFiniteSet(X), NEW own,
         \A x \in X : own[x] \in R,
         NEW f, \A t \in R : f[t] = Cardinality({x \in X : own[x] = t})
  PROVE  SumFunctionOnSet(f, R) = Cardinality(X)
<1> DEFINE Of(s) == {x \in X : own[x] \in s}
           g == [s \in SUBSET R |-> Cardinality(Of(s))]
<1>1. g[{}] = 0
  <2>1. Of({}) = {}
    OBVIOUS
  <2> HIDE DEF Of
  <2> QED BY <2>1, FS_EmptySet
<1>2. ASSUME NEW s \in SUBSET R, NEW t \in s PROVE g[s] = f[t] + g[s \ {t}]
  <2> DEFINE One == {x \in X : own[x] = t}
  <2>1. /\ Of(s) = One \cup Of(s \ {t})
        /\ One \cap Of(s \ {t}) = {}
        /\ One \in SUBSET X /\ Of(s \ {t}) \in SUBSET X
    OBVIOUS
  <2>2. f[t] = Cardinality(One) /\ s \ {t} \in SUBSET R
    OBVIOUS
  <2> HIDE DEF One, Of
  <2>3. IsFiniteSet(One) /\ IsFiniteSet(Of(s \ {t}))
    BY <2>1, FS_Subset
  <2>4. Cardinality(One) \in Nat /\ Cardinality(Of(s \ {t})) \in Nat
    BY <2>3, FS_CardinalityType
  <2>5. Cardinality(Of(s)) = Cardinality(One) + Cardinality(Of(s \ {t})) - Cardinality({})
    BY <2>1, <2>3, FS_Union
  <2> QED BY <2>2, <2>4, <2>5, FS_EmptySet
<1>3. SumFunctionOnSet(f, R) = g[R]
  <2>1. Accumulates(g, f, R)
    <3> HIDE DEF g
    <3> QED BY <1>1, <1>2 DEF Accumulates
  <2> HIDE DEF g
  <2> QED BY <2>1, SumIs
<1>4. Of(R) = X
  OBVIOUS
<1> HIDE DEF Of
<1> QED BY <1>3, <1>4

(* What f counts of the elements of s, spread out. *)
Units(s, f) == UNION {{x} \X (1..f[x]) : x \in s}

(* The sum of a function is the number of its units. *)
LEMMA SumOfUnits ==
  ASSUME NEW S, IsFiniteSet(S), NEW f, \A x \in S : f[x] \in Nat
  PROVE  IsFiniteSet(Units(S, f)) /\ SumFunctionOnSet(f, S) = Cardinality(Units(S, f))
<1> DEFINE g == [s \in SUBSET S |-> Cardinality(Units(s, f))]
<1>0. \A x \in S : /\ IsFiniteSet({x} \X (1..f[x]))
                   /\ Cardinality({x} \X (1..f[x])) = f[x]
  <2> SUFFICES ASSUME NEW x \in S
               PROVE  /\ IsFiniteSet({x} \X (1..f[x]))
                      /\ Cardinality({x} \X (1..f[x])) = f[x]
    OBVIOUS
  <2>1. IsFiniteSet(1..f[x]) /\ Cardinality(1..f[x]) = f[x]
    BY FS_Interval
  <2>2. IsFiniteSet({x}) /\ Cardinality({x}) = 1
    BY FS_Singleton
  <2> DEFINE T == 1..f[x]
             One == {x}
  <2>3. f[x] \in Nat /\ 1 * f[x] = f[x]
    OBVIOUS
  <2> HIDE DEF T, One
  <2>4. IsFiniteSet(One \X T) /\ Cardinality(One \X T) = Cardinality(One) * Cardinality(T)
    BY <2>1, <2>2, FS_Product DEF T, One
  <2> QED BY <2>1, <2>2, <2>3, <2>4 DEF T, One
<1>1. \A s \in SUBSET S : IsFiniteSet(Units(s, f))
  <2> SUFFICES ASSUME NEW s \in SUBSET S PROVE IsFiniteSet(Units(s, f))
    OBVIOUS
  <2> DEFINE parts == {{x} \X (1..f[x]) : x \in s}
             spread == [x \in s |-> {x} \X (1..f[x])]
  <2>1. spread \in Surjection(s, parts)
    BY DEF Surjection
  <2>2. IsFiniteSet(s)
    BY FS_Subset
  <2>3. \A part \in parts : IsFiniteSet(part)
    BY <1>0
  <2>4. IsFiniteSet(parts)
    <3> HIDE DEF parts, spread
    <3> QED BY <2>1, <2>2, FS_Surjection
  <2>5. IsFiniteSet(UNION parts)
    <3> HIDE DEF parts
    <3> QED BY <2>3, <2>4, FS_UNION
  <2> QED BY <2>5 DEF Units
<1>2. g[{}] = 0
  <2>1. Units({}, f) = {}
    BY DEF Units
  <2> QED BY <2>1, FS_EmptySet
<1>3. ASSUME NEW s \in SUBSET S, NEW x \in s PROVE g[s] = f[x] + g[s \ {x}]
  <2> DEFINE One == {x} \X (1..f[x])
  <2>1. /\ Units(s, f) = One \cup Units(s \ {x}, f)
        /\ One \cap Units(s \ {x}, f) = {}
    BY DEF Units
  <2>2. IsFiniteSet(One) /\ Cardinality(One) = f[x]
    BY <1>0
  <2> HIDE DEF One
  <2>3. s \ {x} \in SUBSET S /\ IsFiniteSet(Units(s \ {x}, f))
    BY <1>1
  <2>4. f[x] \in Nat /\ Cardinality(Units(s \ {x}, f)) \in Nat
    BY <2>3, FS_CardinalityType
  <2>5. Cardinality(Units(s, f)) = f[x] + Cardinality(Units(s \ {x}, f)) - Cardinality({})
    <3> DEFINE Rest == Units(s \ {x}, f)
    <3>1. IsFiniteSet(Rest)
      BY <2>3
    <3> HIDE DEF Rest
    <3>2. Cardinality(One \cup Rest) =
            Cardinality(One) + Cardinality(Rest) - Cardinality(One \cap Rest)
      BY <2>2, <3>1, FS_Union
    <3> QED BY <2>1, <2>2, <3>2 DEF Rest
  <2> QED BY <2>3, <2>4, <2>5, FS_EmptySet
<1>4. SumFunctionOnSet(f, S) = g[S]
  <2>1. Accumulates(g, f, S)
    <3> HIDE DEF g
    <3> QED BY <1>2, <1>3 DEF Accumulates
  <2> HIDE DEF g
  <2> QED BY <2>1, SumIs
<1> QED BY <1>1, <1>4

-----------------------------------------------------------------------------
(* The report.                                                             *)

(* What is in a set and in another, and what is not in the other. *)
LEMMA SplitCount ==
  ASSUME NEW S, IsFiniteSet(S), NEW T
  PROVE  Cardinality(S \ T) + Cardinality(S \cap T) = Cardinality(S)
<1>1. /\ IsFiniteSet(S \cap T) /\ IsFiniteSet(S \ T)
      /\ Cardinality(S \ T) = Cardinality(S) - Cardinality(S \cap T)
  BY FS_Difference, FS_Intersection
<1>2. Cardinality(S) \in Nat /\ Cardinality(S \cap T) \in Nat
  BY <1>1, FS_CardinalityType
<1> QED BY <1>1, <1>2

(* Once the triggers are there, a rollup row repeats the columns of its    *)
(* row.                                                                    *)
LEMMA RollupRows ==
  ASSUME FleetInv, triggers
  PROVE  /\ Present(jobRollups) = Present(jobs) /\ Present(jobs) \in SUBSET Jobs
         /\ \A j \in Present(jobs) :
              /\ jobRollups[j].status = jobs[j].status
              /\ jobRollups[j].created = jobs[j].created
              /\ jobRollups[j].lease = jobs[j].lease
              /\ jobRollups[j].cuda <=> j \in CudaJobs
         /\ Present(workerRollups) = Present(workers) /\ Present(workers) \in SUBSET WorkerIds
         /\ \A k \in Present(workers) :
              /\ workerRollups[k].seen = workers[k].seen
              /\ workerRollups[k].gpus = workers[k].capabilities.gpus
              /\ workerRollups[k].cuda <=> "cuda" \in workers[k].capabilities.accelerators
              /\ workers[k].capabilities.gpus \in Nat
<1>1. /\ jobs \in [Jobs -> JobRows \cup {NoRow}]
      /\ workers \in [WorkerIds -> WorkerRows \cup {NoRow}]
      /\ jobRollups = [j \in Jobs |-> JobSummary(j, jobs[j])]
      /\ workerRollups = [k \in WorkerIds |-> WorkerSummary(workers[k])]
  BY DEF FleetInv, FleetTyped, RollupsExact, JobRollupOf, WorkerRollupOf
<1>2. ASSUME NEW j \in Jobs
      PROVE  /\ jobRollups[j] = NoRow <=> jobs[j] = NoRow
             /\ jobs[j] # NoRow =>
                  /\ jobRollups[j].status = jobs[j].status
                  /\ jobRollups[j].created = jobs[j].created
                  /\ jobRollups[j].lease = jobs[j].lease
                  /\ jobRollups[j].cuda <=> j \in CudaJobs
  <2>1. CASE jobs[j] = NoRow
    BY <1>1, <2>1 DEF JobSummary, Absent
  <2>2. CASE jobs[j] # NoRow
    <3>1. jobs[j] \in JobRows
      BY <1>1, <2>2
    <3>2. jobRollups[j] = [status |-> jobs[j].status, cuda |-> j \in CudaJobs,
                           created |-> jobs[j].created, lease |-> jobs[j].lease]
      BY <1>1, <2>2 DEF JobSummary, Absent
    <3>3. jobRollups[j] \in JobSummaries
      BY <3>1, <3>2 DEF JobRows, JobSummaries
    <3>4. /\ jobRollups[j].status = jobs[j].status
          /\ jobRollups[j].created = jobs[j].created
          /\ jobRollups[j].lease = jobs[j].lease
          /\ jobRollups[j].cuda = (j \in CudaJobs)
      BY <3>2
    <3>5. jobRollups[j] # NoRow
      BY <3>3, FleetAssumption
    <3> QED BY <2>2, <3>4, <3>5
  <2> QED BY <2>1, <2>2
<1>3. ASSUME NEW k \in WorkerIds
      PROVE  /\ workerRollups[k] = NoRow <=> workers[k] = NoRow
             /\ workers[k] # NoRow =>
                  /\ workerRollups[k].seen = workers[k].seen
                  /\ workerRollups[k].gpus = workers[k].capabilities.gpus
                  /\ workerRollups[k].cuda <=> "cuda" \in workers[k].capabilities.accelerators
                  /\ workers[k].capabilities.gpus \in Nat
  <2>1. CASE workers[k] = NoRow
    BY <1>1, <2>1 DEF WorkerSummary, Absent
  <2>2. CASE workers[k] # NoRow
    <3>1. workers[k] \in WorkerRows
      BY <1>1, <2>2
    <3>2. workers[k].capabilities.gpus \in Nat /\ workers[k].seen \in 0..MaxTime
      BY <3>1, FleetAssumption DEF WorkerRows
    <3>3. workerRollups[k] = [cpu |-> "cpu" \in workers[k].capabilities.accelerators,
                              cuda |-> "cuda" \in workers[k].capabilities.accelerators,
                              gpus |-> workers[k].capabilities.gpus,
                              seen |-> workers[k].seen]
      BY <1>1, <2>2 DEF WorkerSummary, Absent
    <3>4. workerRollups[k] \in WorkerSummaries
      BY <3>2, <3>3 DEF WorkerSummaries
    <3>5. /\ workerRollups[k].seen = workers[k].seen
          /\ workerRollups[k].gpus = workers[k].capabilities.gpus
          /\ workerRollups[k].cuda = ("cuda" \in workers[k].capabilities.accelerators)
      BY <3>3
    <3>6. workerRollups[k] # NoRow
      BY <3>4, FleetAssumption
    <3> QED BY <2>2, <3>2, <3>5, <3>6
  <2> QED BY <2>1, <2>2
<1>4. DOMAIN jobs = Jobs /\ DOMAIN jobRollups = Jobs
      /\ DOMAIN workers = WorkerIds /\ DOMAIN workerRollups = WorkerIds
  BY <1>1
<1>5. /\ Present(jobRollups) = {j \in Jobs : jobRollups[j] # NoRow}
      /\ Present(jobs) = {j \in Jobs : jobs[j] # NoRow}
      /\ Present(workerRollups) = {k \in WorkerIds : workerRollups[k] # NoRow}
      /\ Present(workers) = {k \in WorkerIds : workers[k] # NoRow}
  BY <1>4 DEF Present, Absent
<1> QED BY <1>2, <1>3, <1>5

(* The jobs of tenant t that the report counts. *)
Queued(t) == {j \in Visible(t) : jobs[j].status = "queued"}
Running(t) == {j \in Visible(t) : Live(jobs[j])}
Recent(t) == {j \in Visible(t) : jobs[j].created >= now - Hour}

(* The report counts on the rollups what the tenant's transactions count   *)
(* on the table.                                                           *)
LEMMA UsageOfTenant ==
  ASSUME FleetInv, triggers, NEW t
  PROVE  /\ JobUsage(t).queuedCpu + JobUsage(t).queuedCuda = Cardinality(Queued(t))
         /\ JobUsage(t).runningCpu + JobUsage(t).runningCuda = Cardinality(Running(t))
         /\ JobUsage(t).runningCuda = Cardinality({j \in Running(t) : j \in CudaJobs})
         /\ JobUsage(t).hourly = Cardinality(Recent(t))
<1> DEFINE cuda == {j \in TenantJobs(t) : jobRollups[j].cuda}
<1>1. /\ TenantJobs(t) = Visible(t) /\ Visible(t) \in SUBSET Jobs
      /\ Visible(t) \subseteq Present(jobs)
  BY RollupRows DEF TenantJobs, Visible
<1>2. \A j \in Visible(t) :
        /\ jobRollups[j].status = jobs[j].status
        /\ jobRollups[j].created = jobs[j].created
        /\ jobRollups[j].lease = jobs[j].lease
        /\ jobRollups[j].cuda <=> j \in CudaJobs
  BY <1>1, RollupRows
<1>3. /\ {j \in TenantJobs(t) : jobRollups[j].status = "queued"} = Queued(t)
      /\ {j \in TenantJobs(t) : Live(jobRollups[j])} = Running(t)
      /\ {j \in TenantJobs(t) : jobRollups[j].created >= now - Hour} = Recent(t)
      /\ Running(t) \cap cuda = {j \in Running(t) : j \in CudaJobs}
  BY <1>1, <1>2 DEF Queued, Running, Recent, Live
<1>4. IsFiniteSet(Queued(t)) /\ IsFiniteSet(Running(t))
  <2>1. Queued(t) \in SUBSET Jobs /\ Running(t) \in SUBSET Jobs
    BY <1>1 DEF Queued, Running
  <2> QED BY <2>1, FS_Subset, FleetAssumption
<1>5. /\ JobUsage(t).queuedCpu = Cardinality(Queued(t) \ cuda)
      /\ JobUsage(t).queuedCuda = Cardinality(Queued(t) \cap cuda)
      /\ JobUsage(t).runningCpu = Cardinality(Running(t) \ cuda)
      /\ JobUsage(t).runningCuda = Cardinality(Running(t) \cap cuda)
      /\ JobUsage(t).hourly = Cardinality(Recent(t))
  BY <1>3 DEF JobUsage
<1> HIDE DEF cuda
<1> QED BY <1>3, <1>4, <1>5, SplitCount

(* The flags of the report are the refusals. *)
LEMMA FlagsAreRefusals ==
  ASSUME FleetInv, triggers
  PROVE  SaturationTruthful
<1> SUFFICES ASSUME NEW t
             PROVE  /\ EnqueueRefused(t) <=> (Saturation(t).queued \/ Saturation(t).hourly)
                    /\ ClaimRefused(t) <=> Saturation(t).running
                    /\ CudaClaimRefused(t) <=> (Saturation(t).running \/ Saturation(t).cuda)
  BY DEF SaturationTruthful
<1>1. /\ QuotaUsage(t, "queued") = Cardinality(Queued(t))
      /\ QuotaUsage(t, "running") = Cardinality(Running(t))
      /\ QuotaUsage(t, "hourly") = Cardinality(Recent(t))
  BY DEF QuotaUsage, Queued, Running, Recent
<1>2. QuotaUsage(t, "cuda") = Cardinality({j \in Running(t) : j \in CudaJobs})
  <2>1. {j \in Visible(t) : Live(jobs[j]) /\ j \in CudaJobs} = {j \in Running(t) : j \in CudaJobs}
    BY DEF Running
  <2>2. QuotaUsage(t, "cuda") = Cardinality({j \in Visible(t) : Live(jobs[j]) /\ j \in CudaJobs})
    BY DEF QuotaUsage
  <2> QED BY <2>1, <2>2
<1>3. /\ Saturation(t).queued <=> Limited(t, "queued") /\ Cardinality(Queued(t)) >= Quota[t]["queued"]
      /\ Saturation(t).hourly <=> Limited(t, "hourly") /\ Cardinality(Recent(t)) >= Quota[t]["hourly"]
      /\ Saturation(t).running <=> Limited(t, "running") /\ Cardinality(Running(t)) >= Quota[t]["running"]
      /\ Saturation(t).cuda <=>
           Limited(t, "cuda") /\ Cardinality({j \in Running(t) : j \in CudaJobs}) >= Quota[t]["cuda"]
  BY UsageOfTenant DEF Saturation
<1> QED BY <1>1, <1>2, <1>3 DEF EnqueueRefused, ClaimRefused, CudaClaimRefused, Exhausted

(* The tenants of the report are finitely many, and include the owner of   *)
(* every row.                                                              *)
LEMMA ReportedFinite ==
  ASSUME FleetInv, triggers
  PROVE  /\ IsFiniteSet(ReportedTenants)
         /\ \A j \in Present(jobs) : TenantOf[j] \in ReportedTenants
         /\ \A k \in Present(workers) : TenantOf[k] \in ReportedTenants
<1> DEFINE ofJobs == {TenantOf[j] : j \in Present(jobs)}
           ofWorkers == {TenantOf[k] : k \in Present(workers)}
           jobOwner == [j \in Present(jobs) |-> TenantOf[j]]
           workerOwner == [k \in Present(workers) |-> TenantOf[k]]
<1>1. IsFiniteSet(Present(jobs)) /\ IsFiniteSet(Present(workers))
  BY RollupRows, FS_Subset, FleetAssumption
<1>2. /\ jobOwner \in Surjection(Present(jobs), ofJobs)
      /\ workerOwner \in Surjection(Present(workers), ofWorkers)
  BY DEF Surjection
<1>3. ReportedTenants = (Registered \cup ofJobs) \cup ofWorkers
  BY RollupRows DEF ReportedTenants
<1>4. IsFiniteSet(ofJobs) /\ IsFiniteSet(ofWorkers)
  <2> HIDE DEF ofJobs, ofWorkers, jobOwner, workerOwner
  <2> QED BY <1>1, <1>2, FS_Surjection
<1>5. IsFiniteSet((Registered \cup ofJobs) \cup ofWorkers)
  <2> HIDE DEF ofJobs, ofWorkers
  <2> QED BY <1>4, FS_Union, FleetAssumption
<1> QED BY <1>3, <1>5

(* A figure of the report that counts, tenant by tenant, the things of a   *)
(* set adds up to their number.                                            *)
LEMMA TotalCounts ==
  ASSUME FleetInv, triggers, NEW X, IsFiniteSet(X), NEW own,
         \A x \in X : own[x] \in ReportedTenants,
         NEW f, DOMAIN f = ReportedTenants,
         \A t \in ReportedTenants : f[t] = Cardinality({x \in X : own[x] = t})
  PROVE  SumFunction(f) = Cardinality(X)
<1>1. IsFiniteSet(ReportedTenants)
  BY ReportedFinite
<1>2. SumFunctionOnSet(f, ReportedTenants) = Cardinality(X)
  BY <1>1, SumOfParts
<1> QED BY <1>2 DEF SumFunction

(* The active workers of the database that have a GPU. *)
Reachable == {k \in Present(workers) :
                /\ workers[k].seen >= now - Window
                /\ "cuda" \in workers[k].capabilities.accelerators}
Offered == [k \in Reachable |-> workers[k].capabilities.gpus]

(* The GPUs of a tenant, one by one. *)
LEMMA GpusOfTenant ==
  ASSUME FleetInv, triggers, NEW t
  PROVE  WorkerUsage(t).gpus =
           Cardinality({p \in Units(Reachable, Offered) :
              [q \in Units(Reachable, Offered) |-> TenantOf[q[1]]][p] = t})
<1> DEFINE mine == {k \in Reachable : TenantOf[k] = t}
           gpus == [k \in mine |-> workerRollups[k].gpus]
<1>1. {k \in ActiveWorkers(t) : workerRollups[k].cuda} = mine
  BY RollupRows DEF ActiveWorkers, Reachable
<1>2. WorkerUsage(t).gpus = SumFunction(gpus)
  BY <1>1 DEF WorkerUsage
<1>3. mine \in SUBSET WorkerIds /\ \A k \in mine : gpus[k] \in Nat /\ gpus[k] = Offered[k]
  BY RollupRows DEF Reachable, Offered
<1>4. IsFiniteSet(mine) /\ DOMAIN gpus = mine
  BY <1>3, FS_Subset, FleetAssumption
<1>5. Units(mine, gpus) = {p \in Units(Reachable, Offered) :
              [q \in Units(Reachable, Offered) |-> TenantOf[q[1]]][p] = t}
  <2>1. Units(mine, gpus) = Units(mine, Offered)
    BY <1>3 DEF Units
  <2>2. Units(mine, Offered) = {p \in Units(Reachable, Offered) : TenantOf[p[1]] = t}
    BY DEF Units
  <2> QED BY <2>1, <2>2
<1> HIDE DEF mine, gpus
<1>6. SumFunction(gpus) = Cardinality(Units(mine, gpus))
  BY <1>3, <1>4, SumOfUnits DEF SumFunction
<1> QED BY <1>2, <1>5, <1>6

(* The totals of the report miss nothing. *)
LEMMA TotalsMissNothing ==
  ASSUME FleetInv, triggers
  PROVE  TotalsComplete
<1> DEFINE R == ReportedTenants
           rows == Present(jobs)
           queued == {j \in rows : jobs[j].status = "queued"}
           running == {j \in rows : Live(jobs[j])}
           recent == {j \in rows : jobs[j].created >= now - Hour}
           seen == {k \in Present(workers) : workers[k].seen >= now - Day}
           units == Units(Reachable, Offered)
           ownUnit == [p \in units |-> TenantOf[p[1]]]
           fq == [t \in R |-> JobUsage(t).queuedCpu + JobUsage(t).queuedCuda]
           fr == [t \in R |-> JobUsage(t).runningCpu + JobUsage(t).runningCuda]
           fh == [t \in R |-> JobUsage(t).hourly]
           fo == [t \in R |-> WorkerUsage(t).observed]
           fg == [t \in R |-> WorkerUsage(t).gpus]
<1>1. /\ IsFiniteSet(queued) /\ IsFiniteSet(running) /\ IsFiniteSet(recent)
      /\ IsFiniteSet(seen) /\ IsFiniteSet(Reachable)
  <2>1. /\ queued \in SUBSET Jobs /\ running \in SUBSET Jobs /\ recent \in SUBSET Jobs
        /\ seen \in SUBSET WorkerIds /\ Reachable \in SUBSET WorkerIds
    BY RollupRows DEF Reachable
  <2> HIDE DEF queued, running, recent, seen
  <2> QED BY <2>1, FS_Subset, FleetAssumption
<1>2. SumFunction(fq) = Cardinality(queued)
  <2>1. \A t \in R : fq[t] = Cardinality({x \in queued : TenantOf[x] = t})
    <3> SUFFICES ASSUME NEW t \in R PROVE fq[t] = Cardinality({x \in queued : TenantOf[x] = t})
      OBVIOUS
    <3>1. {x \in queued : TenantOf[x] = t} = Queued(t)
      BY DEF Queued, Visible
    <3> QED BY <3>1, UsageOfTenant
  <2>2. \A x \in queued : TenantOf[x] \in ReportedTenants
    BY ReportedFinite
  <2>3. DOMAIN fq = ReportedTenants
    OBVIOUS
  <2> HIDE DEF fq, queued
  <2> QED BY <1>1, <2>1, <2>2, <2>3, TotalCounts
<1>3. SumFunction(fr) = Cardinality(running)
  <2>1. \A t \in R : fr[t] = Cardinality({x \in running : TenantOf[x] = t})
    <3> SUFFICES ASSUME NEW t \in R PROVE fr[t] = Cardinality({x \in running : TenantOf[x] = t})
      OBVIOUS
    <3>1. {x \in running : TenantOf[x] = t} = Running(t)
      BY DEF Running, Visible
    <3> QED BY <3>1, UsageOfTenant
  <2>2. \A x \in running : TenantOf[x] \in ReportedTenants
    BY ReportedFinite
  <2>3. DOMAIN fr = ReportedTenants
    OBVIOUS
  <2> HIDE DEF fr, running
  <2> QED BY <1>1, <2>1, <2>2, <2>3, TotalCounts
<1>4. SumFunction(fh) = Cardinality(recent)
  <2>1. \A t \in R : fh[t] = Cardinality({x \in recent : TenantOf[x] = t})
    <3> SUFFICES ASSUME NEW t \in R PROVE fh[t] = Cardinality({x \in recent : TenantOf[x] = t})
      OBVIOUS
    <3>1. {x \in recent : TenantOf[x] = t} = Recent(t)
      BY DEF Recent, Visible
    <3> QED BY <3>1, UsageOfTenant
  <2>2. \A x \in recent : TenantOf[x] \in ReportedTenants
    BY ReportedFinite
  <2>3. DOMAIN fh = ReportedTenants
    OBVIOUS
  <2> HIDE DEF fh, recent
  <2> QED BY <1>1, <2>1, <2>2, <2>3, TotalCounts
<1>5. SumFunction(fo) = Cardinality(seen)
  <2>1. \A t \in R : fo[t] = Cardinality({x \in seen : TenantOf[x] = t})
    <3> SUFFICES ASSUME NEW t \in R PROVE fo[t] = Cardinality({x \in seen : TenantOf[x] = t})
      OBVIOUS
    <3>1. {x \in seen : TenantOf[x] = t} =
            {k \in Present(workerRollups) : TenantOf[k] = t /\ workerRollups[k].seen >= now - Day}
      BY RollupRows
    <3> QED BY <3>1 DEF WorkerUsage
  <2>2. \A x \in seen : TenantOf[x] \in ReportedTenants
    BY ReportedFinite
  <2>3. DOMAIN fo = ReportedTenants
    OBVIOUS
  <2> HIDE DEF fo, seen
  <2> QED BY <1>1, <2>1, <2>2, <2>3, TotalCounts
<1>6. SumFunction(fg) = Cardinality(units) /\ SumFunction(Offered) = Cardinality(units)
  <2>0. DOMAIN Offered = Reachable /\ \A k \in Reachable : Offered[k] \in Nat
    BY RollupRows DEF Offered, Reachable
  <2>1. IsFiniteSet(units) /\ SumFunction(Offered) = Cardinality(units)
    BY <1>1, <2>0, SumOfUnits DEF SumFunction
  <2>2. \A t \in R : fg[t] = Cardinality({p \in units : ownUnit[p] = t})
    BY GpusOfTenant
  <2>3. \A p \in units : ownUnit[p] \in ReportedTenants
    BY ReportedFinite DEF Units, Reachable
  <2>4. DOMAIN fg = ReportedTenants
    OBVIOUS
  <2> HIDE DEF fg, units, ownUnit
  <2> QED BY <2>1, <2>2, <2>3, <2>4, TotalCounts
<1>7. Totals = [queued |-> SumFunction(fq), running |-> SumFunction(fr),
                hourly |-> SumFunction(fh), observed |-> SumFunction(fo),
                gpus |-> SumFunction(fg)]
  BY DEF Totals
<1> HIDE DEF fq, fr, fh, fo, fg
<1> QED BY <1>2, <1>3, <1>4, <1>5, <1>6, <1>7 DEF TotalsComplete, Reachable, Offered

(* From the first upgraded replica on, the flags of the report are the     *)
(* refusals of the tenants' own transactions and its totals miss nobody,   *)
(* for any number of tenants, jobs, workers and GPUs.                      *)
THEOREM ReportsTruthful == Spec => []ReportTruthful
<1>1. FleetInv => ReportTruthful
  BY FlagsAreRefusals, TotalsMissNothing DEF ReportTruthful
<1> QED BY <1>1, FleetInvariant, PTL

(* Tables, transactions and stores keep their types, and the migration lock *)
(* belongs to the replica that migrates.                                    *)
THEOREM FleetTypeCorrect == Spec => []TypeOK
<1>1. FleetInv => TypeOK
  BY DEF FleetInv, FleetTyped, TypeOK
<1> QED BY <1>1, FleetInvariant, PTL

-----------------------------------------------------------------------------
(* The placement diagnostic.                                               *)

(* The Python test of a GPU and the SQL one agree on typed telemetry. *)
LEMMA SameGpuTest ==
  ASSUME NEW job \in Demands, NEW gpu \in Gpus
  PROVE  GpuMatches(job, gpu) <=> ClaimsGpu(job, gpu)
<1>1. /\ job.memory \in Nat /\ job.free \in Nat
      /\ job.compute \in Int \cup {Null} /\ job.util \in Int \cup {Null}
      /\ gpu.memory \in Nat /\ gpu.used \in Nat \cup {Null}
      /\ gpu.compute \in Int \cup {Null} /\ gpu.util \in Int \cup {Null}
  BY DEF Demands, Gpus, OrNull
<1>2. Null \notin Int
  BY QueriesAssumption
<1>3. AtLeast(gpu.memory, job.memory) <=> gpu.memory >= job.memory
  BY <1>1, <1>2 DEF AtLeast
<1>4. (job.compute # Null => gpu.compute # Null /\ gpu.compute >= job.compute)
        <=> (job.compute = Null \/ AtLeast(gpu.compute, job.compute))
  BY DEF AtLeast
<1>5. (job.util # Null => gpu.util # Null /\ gpu.util <= job.util)
        <=> (job.util = Null \/ (gpu.util # Null /\ AtLeast(job.util, gpu.util)))
  BY <1>1 DEF AtLeast
<1>6. (job.mig # Null => gpu.mig = job.mig) <=> (job.mig = Null \/ Equal(gpu.mig, job.mig))
  BY DEF Equal
<1>7. (job.free > 0 => gpu.used # Null /\ MaxZero(gpu.memory - gpu.used) >= job.free)
        <=> (job.free = 0 \/ (gpu.used # Null /\ AtLeast(MaxZero(gpu.memory - gpu.used), job.free)))
  <2>1. CASE gpu.used = Null
    BY <1>1, <2>1
  <2>2. CASE gpu.used # Null
    <3>1. MaxZero(gpu.memory - gpu.used) \in Int
      BY <1>1, <2>2 DEF MaxZero
    <3> HIDE DEF MaxZero
    <3> QED BY <1>1, <1>2, <2>2, <3>1 DEF AtLeast
  <2> QED BY <2>1, <2>2
<1> QED BY <1>3, <1>4, <1>5, <1>6, <1>7 DEF GpuMatches, ClaimsGpu

(* There is no reason against a worker's GPUs exactly when one matches or   *)
(* none is asked for.                                                       *)
LEMMA NoGpuReason ==
  ASSUME NEW job \in Demands, NEW gpus
  PROVE  GpuReasons(job, gpus) = {} <=>
           \/ job.memory = 0 /\ job.compute = Null /\ job.free = 0
              /\ job.util = Null /\ job.mig = Null
           \/ \E g \in gpus : GpuMatches(job, g)
<1> DEFINE unconstrained ==
             job.memory = 0 /\ job.compute = Null /\ job.free = 0 /\ job.util = Null /\ job.mig = Null
<1>1. CASE unconstrained
  BY <1>1 DEF GpuReasons
<1>2. CASE ~unconstrained /\ gpus = {}
  BY <1>2 DEF GpuReasons
<1>3. CASE ~unconstrained /\ \E g \in gpus : GpuMatches(job, g)
  BY <1>3 DEF GpuReasons
<1>4. CASE ~unconstrained /\ gpus # {} /\ ~\E g \in gpus : GpuMatches(job, g)
  BY <1>4 DEF GpuReasons
<1> QED BY <1>1, <1>2, <1>3, <1>4

(* Diagnostic and claim agree on every worker. *)
LEMMA DiagnosisIsClaim ==
  ASSUME NEW q \in PlacementQueries, NEW w \in DOMAIN q.workers
  PROVE  DiagnoseWorker(q.job, q.workers[w], w \in q.active) = {} <=>
           w \in q.active /\ ClaimMatches(q.job, q.workers[w])
<1> DEFINE job == q.job
           worker == q.workers[w]
<1>1. job \in Demands /\ worker.gpus \subseteq Gpus
  BY QueriesAssumption
<1>2. GpuReasons(job, worker.gpus) = {} <=>
           \/ job.memory = 0 /\ job.compute = Null /\ job.free = 0
              /\ job.util = Null /\ job.mig = Null
           \/ \E g \in worker.gpus : ClaimsGpu(job, g)
  <2> HIDE DEF job, worker
  <2> QED BY <1>1, NoGpuReason, SameGpuTest
<1> HIDE DEF job, worker
<1>3. DiagnoseWorker(job, worker, w \in q.active) = {} <=>
        /\ w \in q.active /\ job.accelerator \in worker.accelerators
        /\ job.labels \subseteq worker.labels /\ GpuReasons(job, worker.gpus) = {}
  BY DEF DiagnoseWorker
<1>4. ClaimMatches(job, worker) <=>
        /\ job.accelerator \in worker.accelerators /\ job.labels \subseteq worker.labels
        /\ \/ job.memory = 0 /\ job.compute = Null /\ job.free = 0
              /\ job.util = Null /\ job.mig = Null
           \/ \E g \in worker.gpus : ClaimsGpu(job, g)
  BY DEF ClaimMatches
<1>5. DiagnoseWorker(job, worker, w \in q.active) = {} <=>
        w \in q.active /\ ClaimMatches(job, worker)
  BY <1>2, <1>3, <1>4
<1> QED BY <1>5 DEF job, worker

(* What the diagnostic answers. *)
LEMMA PlacementAnswered ==
  ASSUME NEW q \in PlacementQueries
  PROVE  LET a == DiagnosePlacement(q.job, q.workers, q.active) IN
         /\ \A w \in DOMAIN q.workers :
              w \in a.matching <=> w \in q.active /\ ClaimMatches(q.job, q.workers[w])
         /\ a.schedulable <=> a.blockers = {}
<1> DEFINE m == {w \in DOMAIN q.workers :
                   DiagnoseWorker(q.job, q.workers[w], w \in q.active) = {}}
           others == CASE DOMAIN q.workers = {} -> {"no workers"}
                       [] DOMAIN q.workers # {} /\ q.active = {} -> {"no active worker"}
                       [] q.active # {} /\ m = {} -> {"no match"}
                       [] OTHER -> {}
           a == DiagnosePlacement(q.job, q.workers, q.active)
<1>1. /\ a.matching = m
      /\ a.schedulable = (q.job.status = "queued" /\ m # {})
      /\ a.blockers = (IF q.job.status = "queued" THEN {} ELSE {"status"}) \cup others
  <2>1. {w \in DOMAIN q.workers :
           [x \in DOMAIN q.workers |->
              DiagnoseWorker(q.job, q.workers[x], x \in q.active)][w] = {}} = m
    OBVIOUS
  <2> HIDE DEF m
  <2> QED BY <2>1 DEF DiagnosePlacement
<1>2. \A w \in DOMAIN q.workers :
        w \in m <=> w \in q.active /\ ClaimMatches(q.job, q.workers[w])
  BY DiagnosisIsClaim
<1>3. m # {} => q.active # {} /\ DOMAIN q.workers # {}
  BY DiagnosisIsClaim
<1> HIDE DEF m
<1>4. others = {} <=> m # {}
  BY <1>3
<1> HIDE DEF others
<1>5. a.blockers = {} <=> (q.job.status = "queued" /\ m # {})
  BY <1>1, <1>4
<1> QED BY <1>1, <1>2, <1>5

-----------------------------------------------------------------------------
(* The demand forecast.                                                    *)

(* Full hours. *)
LEMMA HourFacts ==
  ASSUME NEW t \in Int
  PROVE  /\ FloorHour(t) \in Int /\ CeilHour(t) \in Int
         /\ FloorHour(t) % TicksPerHour = 0 /\ CeilHour(t) % TicksPerHour = 0
         /\ FloorHour(t) <= t /\ t < FloorHour(t) + TicksPerHour
         /\ t <= CeilHour(t) /\ CeilHour(t) < t + TicksPerHour
         /\ FloorHour(t) \div TicksPerHour = t \div TicksPerHour
<1> DEFINE T == TicksPerHour
           d == t \div T
<1>1. T \in Nat \ {0}
  BY DemandAssumption
<1> HIDE DEF T
<1>2. d \in Int /\ t = T * d + (t % T) /\ 0 <= t % T /\ t % T < T
  BY <1>1
<1>3. FloorHour(t) = d * T
  BY DEF FloorHour, T
<1> HIDE DEF d
<1>4. d * T \in Int /\ d * T <= t /\ t < d * T + T
  BY <1>1, <1>2
<1>5. (d * T) % T = 0 /\ (d * T) \div T = d
  BY <1>1, <1>2
<1>6. (d * T + T) % T = 0
  BY <1>1, <1>2
<1>7. CeilHour(t) = IF t = d * T THEN t ELSE d * T + T
  BY <1>3 DEF CeilHour, T
<1>8. t <= CeilHour(t) /\ CeilHour(t) < t + T /\ CeilHour(t) \in Int /\ CeilHour(t) % T = 0
  BY <1>1, <1>4, <1>5, <1>6, <1>7
<1> QED BY <1>3, <1>4, <1>5, <1>8 DEF T, d

(* Full hours are an hour apart. *)
LEMMA HoursApart ==
  ASSUME NEW g \in Int, NEW h \in Int, g % TicksPerHour = 0, h % TicksPerHour = 0, g < h
  PROVE  g + TicksPerHour <= h
<1> DEFINE T == TicksPerHour
<1>1. T \in Nat \ {0}
  BY DemandAssumption
<1> HIDE DEF T
<1>2. g % T = 0 /\ h % T = 0
  BY DEF T
<1>3. PICK m \in Int : g = T * m
  <2> DEFINE e == g \div T
  <2>1. e \in Int /\ g = T * e + (g % T)
    BY <1>1
  <2> HIDE DEF e
  <2>2. T * e \in Int
    BY <1>1, <2>1
  <2>3. g = T * e
    BY <1>2, <2>1, <2>2
  <2> QED BY <2>1, <2>3
<1>4. PICK n \in Int : h = T * n
  <2> DEFINE e == h \div T
  <2>1. e \in Int /\ h = T * e + (h % T)
    BY <1>1
  <2> HIDE DEF e
  <2>2. T * e \in Int
    BY <1>1, <2>1
  <2>3. h = T * e
    BY <1>2, <2>1, <2>2
  <2> QED BY <2>1, <2>3
<1>5. m < n
  BY <1>1, <1>3, <1>4
<1>6. T * m + T <= T * n
  BY <1>1, <1>5
<1> QED BY <1>3, <1>4, <1>6 DEF T

(* A full hour has begun at s and is over at o. *)
LEMMA HourWithin ==
  ASSUME NEW h \in Int, h % TicksPerHour = 0, NEW s \in Int, NEW o \in Int
  PROVE  /\ CeilHour(s) <= h <=> s <= h
         /\ h < FloorHour(o) <=> h + TicksPerHour <= o
<1>0. TicksPerHour \in Nat \ {0}
  BY DemandAssumption
<1>1. ASSUME s <= h PROVE CeilHour(s) <= h
  <2> SUFFICES ASSUME h < CeilHour(s) PROVE FALSE
    BY HourFacts
  <2>1. h + TicksPerHour <= CeilHour(s)
    BY HourFacts, HoursApart
  <2>2. CeilHour(s) \in Int /\ CeilHour(s) < s + TicksPerHour
    BY HourFacts
  <2> QED BY <1>0, <1>1, <2>1, <2>2
<1>2. ASSUME CeilHour(s) <= h PROVE s <= h
  BY <1>2, HourFacts
<1>3. ASSUME h < FloorHour(o) PROVE h + TicksPerHour <= o
  <2>1. h + TicksPerHour <= FloorHour(o)
    BY <1>3, HourFacts, HoursApart
  <2>2. FloorHour(o) \in Int /\ FloorHour(o) <= o
    BY HourFacts
  <2> QED BY <1>0, <2>1, <2>2
<1>4. ASSUME h + TicksPerHour <= o PROVE h < FloorHour(o)
  <2>1. FloorHour(o) \in Int /\ o < FloorHour(o) + TicksPerHour
    BY HourFacts
  <2> QED BY <1>0, <1>4, <2>1
<1> QED BY <1>1, <1>2, <1>3, <1>4

(* The hour of a tick is the one FloorHour finds. *)
LEMMA HourIsFloor ==
  ASSUME NEW t \in Int
  PROVE  HourOf(t) = FloorHour(t)
<1>0. TicksPerHour \in Nat \ {0}
  BY DemandAssumption
<1>1. FloorHour(t) \in (t - TicksPerHour + 1)..t /\ FloorHour(t) % TicksPerHour = 0
  <2>1. /\ FloorHour(t) \in Int /\ FloorHour(t) <= t /\ t < FloorHour(t) + TicksPerHour
        /\ FloorHour(t) % TicksPerHour = 0
    BY HourFacts
  <2> HIDE DEF FloorHour
  <2>2. FloorHour(t) \in (t - TicksPerHour + 1)..t
    BY <1>0, <2>1
  <2> QED BY <2>1, <2>2
<1>2. ASSUME NEW h \in (t - TicksPerHour + 1)..t, h % TicksPerHour = 0
      PROVE  h = FloorHour(t)
  <2>1. h \in Int /\ FloorHour(t) \in Int
    BY <1>0, HourFacts
  <2>2. ~(h < FloorHour(t)) /\ ~(FloorHour(t) < h)
    <3>1. ASSUME h < FloorHour(t) PROVE FALSE
      <4>1. h + TicksPerHour <= FloorHour(t)
        BY <1>1, <1>2, <2>1, <3>1, HoursApart
      <4>2. t < FloorHour(t) + TicksPerHour /\ FloorHour(t) <= t /\ t < h + TicksPerHour
        BY <1>0, <1>2, <2>1, HourFacts
      <4> QED BY <1>0, <2>1, <4>1, <4>2
    <3>2. ASSUME FloorHour(t) < h PROVE FALSE
      <4>1. FloorHour(t) + TicksPerHour <= h
        BY <1>1, <1>2, <2>1, <3>2, HoursApart
      <4>2. t < FloorHour(t) + TicksPerHour /\ h <= t
        BY <1>0, <1>2, HourFacts
      <4> QED BY <1>0, <2>1, <4>1, <4>2
    <3> QED BY <3>1, <3>2
  <2> QED BY <2>1, <2>2
<1> QED BY <1>1, <1>2 DEF HourOf

(* The same slot of the week, n hours later. *)
LEMMA SlotAhead ==
  ASSUME NEW o \in Int, NEW n \in Nat
  PROVE  SlotOf(FloorHour(o) + n * TicksPerHour) = SlotOf(o + n * TicksPerHour)
<1> DEFINE T == TicksPerHour
           d == o \div T
<1>1. T \in Nat \ {0}
  BY DemandAssumption
<1> HIDE DEF T
<1>2. d \in Int /\ o = d * T + (o % T) /\ o % T \in 0..(T - 1)
  BY <1>1
<1>3. FloorHour(o) = d * T
  BY DEF FloorHour, T
<1> DEFINE r == o % T
<1>4. r \in 0..(T - 1) /\ o = d * T + r
  BY <1>2
<1> HIDE DEF d, r
<1>5. d * T + n * T = (d + n) * T + 0 /\ o + n * T = (d + n) * T + r
  BY <1>1, <1>2, <1>4
<1>6. (d * T + n * T) \div T = d + n
  <2>1. d + n \in Int /\ 0 \in 0..(T - 1) /\ d * T + n * T \in Int
    BY <1>1, <1>2
  <2> QED BY <1>1, <1>5, <2>1
<1>7. (o + n * T) \div T = d + n
  <2>1. d + n \in Int /\ o + n * T \in Int
    BY <1>1, <1>2
  <2> QED BY <1>1, <1>4, <1>5, <2>1
<1> QED BY <1>3, <1>6, <1>7 DEF SlotOf, T

(* What the forecast of a demand query averages over. *)
LEMMA DemandAnswered ==
  ASSUME NEW q \in DemandQueries, question = q,
         answer = DemandForecast(q.submitted, q.inception, q.observed, q.backlog,
                                 q.workers, q.estimate)
  PROVE  DemandFromWholeHours
<1> DEFINE o == q.observed
           start == HistoryStart(q.inception, o)
           lookback == o - LookbackHours * TicksPerHour
           first == FirstHour(start, o)
           last == FloorHour(o)
<1>0. /\ o \in Int /\ q.inception \in Int \cup {NoHistory} /\ DOMAIN q.submitted \subseteq Int
      /\ TicksPerHour \in Nat \ {0} /\ LookbackHours \in Nat \ {0} /\ NoHistory \notin Int
  BY QueriesAssumption, DemandAssumption
<1>1. lookback \in Int /\ lookback <= o
  BY <1>0
<1>2. /\ start \in Int /\ lookback <= start
      /\ \A h \in Int : start <= h <=>
           lookback <= h /\ (q.inception # NoHistory => h >= q.inception)
  BY <1>0, <1>1 DEF HistoryStart, Later
<1>3. first = CeilHour(start)
  BY <1>1, <1>2 DEF FirstHour, Later
<1>4. first \in Int /\ last \in Int /\ last <= o
  BY <1>0, <1>2, <1>3, HourFacts
<1>5. \A h \in Int : h % TicksPerHour = 0 =>
        (h \in WholeHours <=> first <= h /\ h < last)
  <2> SUFFICES ASSUME NEW h \in Int, h % TicksPerHour = 0
               PROVE  h \in WholeHours <=> first <= h /\ h < last
    OBVIOUS
  <2>1. h \in WholeHours <=>
          /\ lookback <= h /\ h <= o
          /\ q.inception # NoHistory => h >= q.inception
          /\ h + TicksPerHour <= o
    BY <1>0, <1>1 DEF WholeHours
  <2>2. h \in WholeHours <=> start <= h /\ h + TicksPerHour <= o
    <3> HIDE DEF start, lookback, o
    <3> QED BY <1>0, <1>2, <2>1
  <2>3. (first <= h <=> start <= h) /\ (h < last <=> h + TicksPerHour <= o)
    BY <1>0, <1>2, <1>3, HourWithin
  <2> HIDE DEF first, last, start, o
  <2> QED BY <2>2, <2>3
<1>6. HoursFrom(first, last) = WholeHours
  <2>1. \A h : h \in WholeHours => h \in Int /\ h % TicksPerHour = 0
    BY <1>0, <1>1 DEF WholeHours
  <2>2. \A h : h \in HoursFrom(first, last) <=>
               h \in Int /\ h % TicksPerHour = 0 /\ first <= h /\ h < last
    <3> HIDE DEF first, last
    <3> QED BY <1>4 DEF HoursFrom
  <2> HIDE DEF first, last
  <2> QED BY <1>5, <2>1, <2>2
<1>7. ASSUME NEW n \in 1..HorizonHours
      PROVE  LET f == answer.hours[n]
                 same == {h \in WholeHours : SlotOf(h) = f.slot}
             IN /\ f.slot = SlotOf(o + n * TicksPerHour)
                /\ f.occurrences = Cardinality(same)
                /\ f.arrivals = SumFunctionOnSet(q.submitted,
                      {t \in DOMAIN q.submitted : HourOf(t) \in same})
  <2> DEFINE slot == SlotOf(last + n * TicksPerHour)
             counted == {t \in Selected(q.submitted, start, o) :
                           first <= FloorHour(t) /\ FloorHour(t) < last /\ SlotOf(t) = slot}
             same == {h \in WholeHours : SlotOf(h) = slot}
  <2>1. answer.hours = DemandHours(q.submitted, start, o)
    BY DEF DemandForecast
  <2>2. answer.hours[n] =
          [slot |-> slot,
           occurrences |-> Cardinality({h \in HoursFrom(first, last) : SlotOf(h) = slot}),
           arrivals |-> SumFunctionOnSet(q.submitted, counted)]
    BY <2>1 DEF DemandHours
  <2>3. slot = SlotOf(o + n * TicksPerHour)
    <3>1. n \in Nat
      BY DemandAssumption
    <3> QED BY <1>0, <3>1, SlotAhead
  <2>4. {t \in DOMAIN q.submitted : HourOf(t) \in same} = counted
    <3> SUFFICES ASSUME NEW t \in DOMAIN q.submitted
                 PROVE  HourOf(t) \in same <=> t \in counted
      BY DEF Selected
    <3>1. t \in Int /\ HourOf(t) = FloorHour(t)
      BY <1>0, HourIsFloor
    <3>2. /\ FloorHour(t) \in Int /\ FloorHour(t) % TicksPerHour = 0
          /\ FloorHour(t) <= t /\ t < FloorHour(t) + TicksPerHour
          /\ SlotOf(FloorHour(t)) = SlotOf(t)
      BY <3>1, HourFacts DEF SlotOf
    <3>3. HourOf(t) \in same <=>
            first <= FloorHour(t) /\ FloorHour(t) < last /\ SlotOf(t) = slot
      <4> HIDE DEF first, last, slot
      <4> QED BY <1>5, <3>1, <3>2
    <3>4. first <= FloorHour(t) /\ FloorHour(t) < last => start <= t /\ t < o
      <4> SUFFICES ASSUME first <= FloorHour(t), FloorHour(t) < last PROVE start <= t /\ t < o
        OBVIOUS
      <4>1. start <= FloorHour(t) /\ FloorHour(t) + TicksPerHour <= o
        BY <1>0, <1>2, <1>3, <3>2, HourWithin
      <4> HIDE DEF start, o
      <4> QED BY <1>0, <1>2, <3>1, <3>2, <4>1
    <3> HIDE DEF first, last, slot, start, o, same
    <3> QED BY <3>3, <3>4 DEF Selected
  <2>5. /\ answer.hours[n].slot = slot
        /\ answer.hours[n].occurrences = Cardinality({h \in HoursFrom(first, last) : SlotOf(h) = slot})
        /\ answer.hours[n].arrivals = SumFunctionOnSet(q.submitted, counted)
    <3> HIDE DEF slot, counted
    <3> QED BY <2>2
  <2> HIDE DEF slot, counted, first, last
  <2> QED BY <1>6, <2>3, <2>4, <2>5
<1> QED BY <1>7 DEF DemandFromWholeHours, Asked

-----------------------------------------------------------------------------
(* The composition.                                                        *)

(* An answer on display is the answer to the question on display. *)
Answered ==
    \/ question = NoQuestion
    \/ question \in PlacementQueries
       /\ answer = DiagnosePlacement(question.job, question.workers, question.active)
    \/ question \in DemandQueries
       /\ answer = DemandForecast(question.submitted, question.inception, question.observed,
                                  question.backlog, question.workers, question.estimate)

fleetVars == <<vars, answerVars, capacityVars>>
FleetNext == RollupStep \/ QuestionStep \/ CapacityStep

(* The rollups and their transactions run as they do without the queries. *)
THEOREM QueriesOnlyRead == FleetSpec => Spec
<1>1. FleetInit => Init
  BY DEF FleetInit
<1>2. [FleetNext]_fleetVars => [Next]_vars
  BY DEF FleetNext, RollupStep, QuestionStep, CapacityStep, fleetVars
<1> QED BY <1>1, <1>2, PTL DEF FleetSpec, FleetNext, fleetVars, Spec

(* Questions are answered when they are asked. *)
LEMMA QueriesAnswered == FleetSpec => []Answered
<1>1. FleetInit => Answered
  BY DEF FleetInit, Answered
<1>2. Answered /\ [FleetNext]_fleetVars => Answered'
  BY DEF FleetNext, RollupStep, QuestionStep, CapacityStep, AskPlacement, AskDemand,
         fleetVars, answerVars, Answered
<1> QED BY <1>1, <1>2, PTL DEF FleetSpec, FleetNext, fleetVars

(* For every job and every pool of workers the placement diagnostic and the *)
(* WHERE clause of lease_job agree, and blockers are named exactly when the *)
(* job is not schedulable.                                                  *)
THEOREM DiagnosesMatchClaims == FleetSpec => []DiagnosisMatchesClaim
<1>1. Answered => DiagnosisMatchesClaim
  <2> SUFFICES ASSUME Answered, Asked("placement") PROVE DiagnosisMatchesClaim
    BY DEF DiagnosisMatchesClaim
  <2>1. question \notin DemandQueries
    BY QueriesAssumption DEF Asked
  <2>2. /\ question \in PlacementQueries
        /\ answer = DiagnosePlacement(question.job, question.workers, question.active)
    BY <2>1 DEF Answered, Asked
  <2> QED BY <2>2, PlacementAnswered DEF DiagnosisMatchesClaim
<1> QED BY <1>1, QueriesAnswered, PTL

(* For every history, clock resolution and length of the week the demand    *)
(* forecast averages over the whole hours of the history and the jobs in    *)
(* them, and nothing else.                                                  *)
THEOREM DemandsFromWholeHours == FleetSpec => []DemandFromWholeHours
<1>1. Answered => DemandFromWholeHours
  <2> SUFFICES ASSUME Answered, Asked("demand") PROVE DemandFromWholeHours
    BY DEF DemandFromWholeHours
  <2>1. question \notin PlacementQueries
    BY QueriesAssumption DEF Asked
  <2>2. /\ question \in DemandQueries
        /\ answer = DemandForecast(question.submitted, question.inception, question.observed,
                                   question.backlog, question.workers, question.estimate)
    BY <2>1 DEF Answered, Asked
  <2> QED BY <2>2, DemandAnswered
<1> QED BY <1>1, QueriesAnswered, PTL

-----------------------------------------------------------------------------
(* The capacity forecast.                                                  *)

(* All slots of the current call.                                          *)
AllSlots == UNION {Members(slots[j]) : j \in Compatible}

(* Can the jobs of s have slots of their own? *)
Matchable(given, s) ==
    \E f : /\ \A j \in s : f[j] \in Members(given[j])
           /\ \A i, j \in s : i # j => f[i] # f[j]

(* The slots of the current call. *)
SlotsGiven ==
    /\ step = "wave" => \A j \in Compatible : slots[j] = request.eligible[j]
    /\ step = "count" => \A j \in Compatible : slots[j] = WaveSlots(request.eligible[j], waves)
    /\ \A j \in Compatible : slots[j] \in Seq(AllSlots)
    /\ NoSlot \notin AllSlots

(* The roots come in the order of the queue. *)
RootsInOrder ==
    /\ pending \subseteq Compatible /\ root \in Nat
    /\ root = 0 \/ root \in Compatible \ pending
    /\ \A j \in Compatible \ pending : j <= root
    /\ \A j \in pending : root < j
    /\ DOMAIN slotOf \subseteq Compatible \ pending

(* slotOf and jobOf are inverse to each other, except that the slot which  *)
(* is about to be given away still names the job that leaves it.           *)
SlotsInverse ==
    /\ \A j \in DOMAIN slotOf :
         /\ slotOf[j] \in Members(slots[j]) /\ slotOf[j] # free
         /\ slotOf[j] \in DOMAIN jobOf /\ jobOf[slotOf[j]] = j
    /\ NoSlot \notin DOMAIN jobOf
    /\ \A s \in DOMAIN jobOf \ {free} :
         jobOf[s] \in DOMAIN slotOf /\ slotOf[jobOf[s]] = s

(* The search reached slots through jobs and jobs through their slots.     *)
SearchTree ==
    /\ visited \subseteq DOMAIN slotOf \cup {root} /\ (root = 0 => visited = {})
    /\ \A s \in DOMAIN parent : parent[s] \in visited /\ s \in Members(slots[parent[s]])
    /\ \A j \in visited \ {root} : slotOf[j] \in DOMAIN parent
    /\ queue \in Seq(visited) /\ rest \in Seq(AllSlots)
    /\ rest # <<>> => current \in visited /\ Members(rest) \subseteq Members(slots[current])
    /\ free # NoSlot => /\ free \in DOMAIN parent /\ queue = <<>> /\ rest = <<>>
                        /\ root # 0 /\ root \notin DOMAIN slotOf
    /\ root \in DOMAIN slotOf => queue = <<>> /\ rest = <<>> /\ free = NoSlot

(* While it has found no free slot, every slot it reached belongs to a job *)
(* it reached, and what it has not looked at is queued.                    *)
SearchCovers ==
    free = NoSlot /\ root \notin DOMAIN slotOf =>
        /\ \A s \in DOMAIN parent : s \in DOMAIN jobOf /\ jobOf[s] \in visited
        /\ \A j \in visited \ Members(queue) :
             \A s \in Members(slots[j]) :
                s \in DOMAIN parent \/ (j = current /\ s \in Members(rest))
        /\ root # 0 => root \in visited

(* A root that got no slot could not have had one next to the matched jobs *)
(* before it.                                                              *)
StuckForReason ==
    \A j \in Compatible \ pending :
        j \in DOMAIN slotOf \/ j = root \/ ~Matchable(slots, {i \in DOMAIN slotOf : i < j} \cup {j})

MatchingInv ==
    /\ SlotsGiven /\ RootsInOrder /\ SlotsInverse
    /\ SearchTree /\ SearchCovers /\ StuckForReason

(* The first wave, once it is taken. *)
FirstWaveGood ==
    /\ DOMAIN assigned \subseteq Compatible
    /\ \A i, j \in DOMAIN assigned : i # j => assigned[i] # assigned[j]
    /\ \A j \in DOMAIN assigned : assigned[j] \in Members(request.eligible[j])
    /\ \A j \in Compatible \ DOMAIN assigned :
         ~Placeable(request, {i \in DOMAIN assigned : i < j} \cup {j}, 1)

(* The bounds of the binary search enclose the answer. *)
BoundsEnclose ==
    /\ lower \in Nat /\ upper \in Nat /\ lower <= upper
    /\ Placeable(request, Compatible, upper)
    /\ lower > 0 => ~Placeable(request, Compatible, lower - 1)
    /\ lower = 0 => Compatible = {} /\ upper = 0

CapacityInv ==
    /\ step \in {"idle", "wave", "halve", "count", "done"}
    /\ step # "idle" => request \in CapacityQueries
    /\ step \in {"wave", "count"} => MatchingInv
    /\ step \in {"halve", "count", "done"} => FirstWaveGood /\ BoundsEnclose
    /\ step = "count" => waves \in Nat /\ lower <= waves /\ waves < upper
    /\ step = "done" => /\ lower = upper
                        /\ forecast = CapacityForecast(request, assigned, lower)

(* The members of a list and of what is left of it. *)
LEMMA HeadAndTail ==
  ASSUME NEW S, NEW list \in Seq(S), list # <<>>
  PROVE  /\ Head(list) \in S /\ Tail(list) \in Seq(S)
         /\ Members(list) = {Head(list)} \cup Members(Tail(list))
<1>1. Len(list) \in Nat \ {0} /\ Head(list) = list[1] /\ Head(list) \in S
  OBVIOUS
<1>2. Tail(list) \in Seq(S) /\ Len(Tail(list)) = Len(list) - 1
      /\ \A i \in 1..(Len(list) - 1) : Tail(list)[i] = list[i + 1]
  OBVIOUS
<1>3. ASSUME NEW i \in 1..Len(list) PROVE list[i] \in {Head(list)} \cup Members(Tail(list))
  <2>1. CASE i = 1
    BY <1>1, <2>1
  <2>2. CASE i # 1
    <3>1. i - 1 \in 1..(Len(list) - 1) /\ Tail(list)[i - 1] = list[i]
      BY <1>1, <1>2, <2>2
    <3> QED BY <1>2, <3>1 DEF Members
  <2> QED BY <2>1, <2>2
<1>4. ASSUME NEW i \in 1..Len(Tail(list)) PROVE Tail(list)[i] \in Members(list)
  <2>1. i + 1 \in 1..Len(list) /\ Tail(list)[i] = list[i + 1]
    BY <1>1, <1>2
  <2> QED BY <2>1 DEF Members
<1>5. Head(list) \in Members(list)
  BY <1>1 DEF Members
<1> QED BY <1>1, <1>2, <1>3, <1>4, <1>5 DEF Members

(* The members of the empty list. *)
LEMMA NoMembers == Members(<<>>) = {}
BY DEF Members

(* The members of a list that grew. *)
LEMMA AppendedMembers ==
  ASSUME NEW S, NEW list \in Seq(S), NEW x \in S
  PROVE  Append(list, x) \in Seq(S) /\ Members(Append(list, x)) = Members(list) \cup {x}
<1>1. /\ Append(list, x) \in Seq(S) /\ Len(Append(list, x)) = Len(list) + 1
      /\ Append(list, x)[Len(list) + 1] = x /\ Len(list) \in Nat
      /\ \A i \in 1..Len(list) : Append(list, x)[i] = list[i]
  OBVIOUS
<1>2. 1..(Len(list) + 1) = 1..Len(list) \cup {Len(list) + 1}
  BY <1>1
<1> QED BY <1>1, <1>2 DEF Members

(* A list is a list of its members. *)
LEMMA ListOfMembers ==
  ASSUME NEW S, NEW list \in Seq(S)
  PROVE  Members(list) \subseteq S /\ (Members(list) = {} => list = <<>>)
<1>1. Len(list) \in Nat /\ \A i \in 1..Len(list) : list[i] \in S
  OBVIOUS
<1>2. Len(list) # 0 => list[1] \in Members(list)
  BY <1>1 DEF Members
<1>3. Len(list) = 0 => list = <<>>
  OBVIOUS
<1> QED BY <1>1, <1>2, <1>3 DEF Members

(* Min is the least number of a set. *)
LEMMA MinIsLeast ==
  ASSUME NEW T \in SUBSET Nat, T # {}
  PROVE  Min(T) \in T /\ \A x \in T : Min(T) <= x
BY LeastNumber DEF Min

(* A set of jobs whose slots are all taken by other jobs of the set has no  *)
(* slots for everyone: the owners of the slots would be one job too few.    *)
LEMMA SlotsTooFew ==
  ASSUME NEW V, IsFiniteSet(V), NEW r \in V, NEW given, NEW owner,
         \A j \in V : \A s \in Members(given[j]) : owner[s] \in V \ {r},
         \A i, j \in V : \A s \in Members(given[i]), t \in Members(given[j]) :
            owner[s] = owner[t] => s = t
  PROVE  ~Matchable(given, V)
<1> SUFFICES ASSUME NEW f, \A j \in V : f[j] \in Members(given[j]),
                    \A i, j \in V : i # j => f[i] # f[j]
             PROVE  FALSE
  BY DEF Matchable
<1> DEFINE g == [j \in V |-> owner[f[j]]]
<1>1. g \in [V -> V \ {r}]
  OBVIOUS
<1>2. IsFiniteSet(V \ {r}) /\ Cardinality(V \ {r}) = Cardinality(V) - 1 /\ Cardinality(V) \in Nat
  BY FS_RemoveElement, FS_CardinalityType
<1>3. Cardinality(V \ {r}) < Cardinality(V)
  BY <1>2
<1>4. \E x, y \in V : x # y /\ g[x] = g[y]
  <2> HIDE DEF g
  <2> QED BY <1>1, <1>2, <1>3, FS_PigeonHole
<1> QED BY <1>4

(* Fewer jobs are easier to match. *)
LEMMA FewerMatchable ==
  ASSUME NEW given, NEW s, NEW t \in SUBSET s, Matchable(given, s)
  PROVE  Matchable(given, t)
BY DEF Matchable

(* The jobs of a queue that some worker can run, and their workers. *)
LEMMA QueueTyped ==
  ASSUME NEW q \in CapacityQueries
  PROVE  /\ CompatibleIn(q) \subseteq Nat \ {0} /\ IsFiniteSet(CompatibleIn(q))
         /\ \A j \in CompatibleIn(q) :
              /\ q.eligible[j] \in Seq(WorkersOf(q))
              /\ Members(q.eligible[j]) \subseteq WorkersOf(q)
              /\ Members(q.eligible[j]) # {}
<1>1. q.eligible \in Seq(Seq(WorkersOf(q)))
  BY CapacityAssumption
<1>2. Len(q.eligible) \in Nat
  BY <1>1
<1>3. \A j \in 1..Len(q.eligible) : q.eligible[j] \in Seq(WorkersOf(q))
  <2> DEFINE L == Seq(WorkersOf(q))
  <2> HIDE DEF L
  <2>1. q.eligible \in Seq(L)
    BY <1>1 DEF L
  <2>2. \A j \in 1..Len(q.eligible) : q.eligible[j] \in L
    BY <2>1
  <2> QED BY <2>2 DEF L
<1>4. CompatibleIn(q) \subseteq 1..Len(q.eligible)
  BY DEF CompatibleIn
<1>5. IsFiniteSet(1..Len(q.eligible))
  BY <1>2, FS_Interval
<1>6. IsFiniteSet(CompatibleIn(q))
  BY <1>4, <1>5, FS_Subset
<1>7. ASSUME NEW j \in CompatibleIn(q)
      PROVE  Members(q.eligible[j]) \subseteq WorkersOf(q) /\ Members(q.eligible[j]) # {}
  BY <1>3, <1>4, ListOfMembers DEF CompatibleIn
<1>8. CompatibleIn(q) \subseteq Nat \ {0}
  BY <1>2, <1>4
<1> QED BY <1>3, <1>4, <1>6, <1>7, <1>8

(* The slots of n waves are the pairs of a worker and a wave. *)
LEMMA WaveMembers ==
  ASSUME NEW W, NEW list \in Seq(W), NEW n \in Nat \ {0}
  PROVE  /\ WaveSlots(list, n) \in Seq(Members(list) \X (0..(n - 1)))
         /\ Members(WaveSlots(list, n)) = Members(list) \X (0..(n - 1))
<1>1. Len(list) \in Nat
  OBVIOUS
<1> DEFINE m == Len(list)
<1>2. m * n \in Nat
  BY <1>1
<1> DEFINE U == Members(list) \X (0..(n - 1))
<1>3. ASSUME NEW i \in 1..(m * n)
      PROVE  (i - 1) \div n + 1 \in 1..m /\ (i - 1) % n \in 0..(n - 1)
  <2> DEFINE a == (i - 1) \div n
             b == (i - 1) % n
  <2>1. a \in Int /\ b \in 0..(n - 1) /\ i - 1 = n * a + b
    BY <1>2
  <2>2. 0 <= i - 1 /\ i - 1 < m * n /\ i \in Int
    BY <1>2
  <2> HIDE DEF a, b
  <2>3. a >= 0
    <3> SUFFICES ASSUME a <= 0 - 1 PROVE FALSE
      BY <2>1
    <3>1. n * a <= 0 - n
      BY <2>1
    <3> QED BY <2>1, <2>2, <3>1
  <2>4. a < m
    <3> SUFFICES ASSUME a >= m PROVE FALSE
      BY <1>1, <2>1
    <3>1. n * a >= m * n
      BY <1>1, <2>1
    <3>2. n * a \in Int
      BY <2>1
    <3> QED BY <1>2, <2>1, <2>2, <3>1, <3>2
  <2>5. a + 1 \in 1..m /\ b \in 0..(n - 1)
    BY <1>1, <2>1, <2>3, <2>4
  <2> QED BY <2>5 DEF a, b
<1>4. \A i \in 1..(m * n) : WaveSlots(list, n)[i] = <<list[(i - 1) \div n + 1], (i - 1) % n>>
  BY DEF WaveSlots
<1>5. ASSUME NEW i \in 1..(m * n) PROVE WaveSlots(list, n)[i] \in U
  <2> DEFINE a == (i - 1) \div n + 1
             b == (i - 1) % n
  <2>1. WaveSlots(list, n)[i] = <<list[a], b>> /\ a \in 1..m /\ b \in 0..(n - 1)
    BY <1>3, <1>4
  <2> HIDE DEF a, b
  <2>2. list[a] \in Members(list)
    BY <2>1 DEF Members
  <2> QED BY <2>1, <2>2
<1>6. DOMAIN WaveSlots(list, n) = 1..(m * n)
  BY DEF WaveSlots
<1>7. WaveSlots(list, n) = [i \in 1..(m * n) |-> WaveSlots(list, n)[i]]
  BY DEF WaveSlots
<1>8. WaveSlots(list, n) \in Seq(U) /\ Len(WaveSlots(list, n)) = m * n
  <2> DEFINE k == m * n
             ws == WaveSlots(list, n)
  <2>1. k \in Nat /\ ws \in [1..k -> U]
    BY <1>2, <1>5, <1>7
  <2> HIDE DEF k, ws, U
  <2>2. ws \in Seq(U) /\ Len(ws) = k
    BY <2>1, SeqDef, LenProperties
  <2> QED BY <2>2 DEF k, ws
<1>9. ASSUME NEW a \in 1..m, NEW b \in 0..(n - 1)
      PROVE  <<list[a], b>> \in Members(WaveSlots(list, n))
  <2> DEFINE i == (a - 1) * n + b + 1
             c == (a - 1) * n
  <2>1. c \in Nat /\ c + n <= m * n
    <3>1. a - 1 \in Nat /\ a - 1 <= m - 1
      BY <1>1
    <3>2. (a - 1) * n <= (m - 1) * n
      BY <1>1, <3>1
    <3>3. (m - 1) * n = m * n - n
      BY <1>1
    <3> QED BY <1>1, <1>2, <3>1, <3>2, <3>3
  <2>2. (i - 1) \div n = a - 1 /\ (i - 1) % n = b
    <3>1. i - 1 = (a - 1) * n + b /\ a - 1 \in Int
      BY <1>1
    <3> DEFINE d == a - 1
    <3>2. d \in Nat /\ b \in Nat /\ b < n
      BY <1>1
    <3> HIDE DEF d
    <3>3. (d * n + b) \div n = d /\ (d * n + b) % n = b
      BY <3>2
    <3> QED BY <3>1, <3>3 DEF d
  <2>3. i \in 1..(m * n)
    <3> HIDE DEF c, m
    <3>1. c + b + 1 \in 1..(m * n)
      BY <1>2, <2>1
    <3> QED BY <3>1 DEF c
  <2>4. (i - 1) \div n + 1 = a
    <3> HIDE DEF i
    <3> QED BY <1>1, <2>2
  <2>5. WaveSlots(list, n)[i] = <<list[a], b>>
    <3> HIDE DEF i
    <3> QED BY <1>4, <2>2, <2>3, <2>4
  <2> HIDE DEF i, m
  <2> QED BY <1>8, <2>3, <2>5 DEF Members
<1>10. ASSUME NEW u \in U PROVE u \in Members(WaveSlots(list, n))
  <2>1. PICK w \in Members(list), b \in 0..(n - 1) : u = <<w, b>>
    OBVIOUS
  <2>2. PICK a \in 1..m : w = list[a]
    BY DEF Members
  <2> QED BY <1>9, <2>1, <2>2
<1>11. Members(WaveSlots(list, n)) \subseteq U
  <2> HIDE DEF m, U
  <2> QED BY <1>5, <1>8 DEF Members
<1> QED BY <1>8, <1>10, <1>11

(* Jobs with workers of their own put at most one job on a worker. *)
LEMMA OneJobEach ==
  ASSUME NEW q \in CapacityQueries, NEW s \in SUBSET CompatibleIn(q), NEW f,
         \A j \in s : f[j] \in Members(q.eligible[j]),
         \A i, j \in s : i # j => f[i] # f[j]
  PROVE  Placeable(q, s, 1)
<1> DEFINE g == [j \in s |-> f[j]]
<1>1. g \in [s -> WorkersOf(q)] /\ \A j \in s : g[j] \in Members(q.eligible[j])
  BY QueueTyped
<1>2. ASSUME NEW w PROVE Cardinality({j \in s : g[j] = w}) <= 1
  <2> DEFINE T == {j \in s : g[j] = w}
  <2>1. T = {} \/ \E j \in s : T = {j}
    OBVIOUS
  <2>2. Cardinality(T) \in {0, 1}
    <3> HIDE DEF T
    <3> QED BY <2>1, FS_EmptySet, FS_Singleton
  <2> HIDE DEF T
  <2>3. Cardinality(T) <= 1
    BY <2>2
  <2> QED BY <2>3 DEF T
<1> HIDE DEF g
<1> QED BY <1>1, <1>2 DEF Placeable

(* At most one job on a worker is jobs with workers of their own. *)
LEMMA OwnWorkers ==
  ASSUME NEW q \in CapacityQueries, NEW s \in SUBSET CompatibleIn(q), Placeable(q, s, 1)
  PROVE  Matchable(q.eligible, s)
<1>1. PICK f \in [s -> WorkersOf(q)] :
        /\ \A j \in s : f[j] \in Members(q.eligible[j])
        /\ \A w \in WorkersOf(q) : Cardinality({j \in s : f[j] = w}) <= 1
  BY DEF Placeable
<1>2. ASSUME NEW i \in s, NEW j \in s, i # j, f[i] = f[j] PROVE FALSE
  <2> DEFINE T == {k \in s : f[k] = f[i]}
  <2>1. IsFiniteSet(s)
    BY QueueTyped, FS_Subset
  <2>2. IsFiniteSet(T) /\ Cardinality(T) <= 1
    BY <1>1, <2>1, FS_Subset
  <2>3. IsFiniteSet({i, j}) /\ Cardinality({i, j}) = 2
    <3>1. IsFiniteSet({i}) /\ Cardinality({i}) = 1 /\ {i} \cup {j} = {i, j}
      BY FS_Singleton
    <3>2. IsFiniteSet({i} \cup {j}) /\ Cardinality({i} \cup {j}) = Cardinality({i}) + 1
      BY <1>2, <3>1, FS_AddElement
    <3> QED BY <3>1, <3>2
  <2>4. {i, j} \in SUBSET T
    BY <1>2
  <2>5. Cardinality({i, j}) <= Cardinality(T) /\ Cardinality(T) \in Nat
    <3> HIDE DEF T
    <3> QED BY <2>2, <2>4, FS_Subset, FS_CardinalityType
  <2> HIDE DEF T
  <2> QED BY <2>2, <2>3, <2>5
<1> QED BY <1>1, <1>2 DEF Matchable

(* More waves and fewer jobs are easier to place. *)
LEMMA PlaceableEasier ==
  ASSUME NEW q \in CapacityQueries, NEW s \in SUBSET CompatibleIn(q), NEW t \in SUBSET s,
         NEW m \in Nat, NEW n \in Nat, m <= n, Placeable(q, s, m)
  PROVE  Placeable(q, t, n)
<1>1. PICK f \in [s -> WorkersOf(q)] :
        /\ \A j \in s : f[j] \in Members(q.eligible[j])
        /\ \A w \in WorkersOf(q) : Cardinality({j \in s : f[j] = w}) <= m
  BY DEF Placeable
<1> DEFINE g == [j \in t |-> f[j]]
<1>2. g \in [t -> WorkersOf(q)] /\ \A j \in t : g[j] \in Members(q.eligible[j])
  BY <1>1
<1>3. ASSUME NEW w \in WorkersOf(q) PROVE Cardinality({j \in t : g[j] = w}) <= n
  <2> DEFINE T == {j \in t : g[j] = w}
             U == {j \in s : f[j] = w}
  <2>1. IsFiniteSet(s)
    BY QueueTyped, FS_Subset
  <2>2. IsFiniteSet(U) /\ U \in SUBSET s
    BY <2>1, FS_Subset
  <2>3. T \in SUBSET U
    OBVIOUS
  <2>4. Cardinality(U) <= m
    BY <1>1
  <2> HIDE DEF T, U
  <2>5. Cardinality(T) <= Cardinality(U) /\ Cardinality(T) \in Nat /\ Cardinality(U) \in Nat
    BY <2>2, <2>3, FS_Subset, FS_CardinalityType
  <2>6. Cardinality(T) <= n
    BY <2>4, <2>5
  <2> QED BY <2>6 DEF T
<1> HIDE DEF g
<1> QED BY <1>2, <1>3 DEF Placeable

(* As many waves as there are jobs are enough, and none is too few. *)
LEMMA WavesWithin ==
  ASSUME NEW q \in CapacityQueries
  PROVE  /\ Placeable(q, CompatibleIn(q), Cardinality(CompatibleIn(q)))
         /\ CompatibleIn(q) # {} => ~Placeable(q, CompatibleIn(q), 0)
<1> DEFINE C == CompatibleIn(q)
<1>1. IsFiniteSet(C)
  BY QueueTyped
<1> DEFINE g == [j \in C |-> CHOOSE w \in Members(q.eligible[j]) : TRUE]
<1>2. \A j \in C : g[j] \in Members(q.eligible[j]) /\ g[j] \in WorkersOf(q)
  BY QueueTyped
<1>3. g \in [C -> WorkersOf(q)]
  <2>1. g = [j \in C |-> g[j]]
    OBVIOUS
  <2> HIDE DEF g
  <2> QED BY <1>2, <2>1
<1>4. ASSUME NEW w PROVE Cardinality({j \in C : g[j] = w}) <= Cardinality(C)
  <2> DEFINE T == {j \in C : g[j] = w}
  <2>1. T \in SUBSET C
    OBVIOUS
  <2> HIDE DEF T
  <2>2. Cardinality(T) <= Cardinality(C)
    BY <1>1, <2>1, FS_Subset
  <2> QED BY <2>2 DEF T
<1>5. Placeable(q, C, Cardinality(C))
  <2> HIDE DEF g
  <2> QED BY <1>2, <1>3, <1>4 DEF Placeable
<1>6. ASSUME NEW j \in C, Placeable(q, C, 0) PROVE FALSE
  <2>1. PICK f \in [C -> WorkersOf(q)] :
          \A w \in WorkersOf(q) : Cardinality({k \in C : f[k] = w}) <= 0
    BY <1>6 DEF Placeable
  <2> DEFINE T == {k \in C : f[k] = f[j]}
  <2>2. j \in T /\ Cardinality(T) <= 0 /\ T \in SUBSET C
    BY <2>1
  <2> HIDE DEF T
  <2>3. IsFiniteSet(T) /\ Cardinality(T) \in Nat /\ Cardinality(T) # 0
    BY <1>1, <2>2, FS_Subset, FS_CardinalityType, FS_EmptySet
  <2> QED BY <2>2, <2>3
<1> QED BY <1>5, <1>6

(* Wave slots for everyone put at most n jobs on a worker. *)
LEMMA WaveSlotsPlace ==
  ASSUME NEW q \in CapacityQueries, NEW n \in Nat, NEW f,
         \A j \in CompatibleIn(q) : f[j] \in Members(q.eligible[j]) \X (0..(n - 1)),
         \A i, j \in CompatibleIn(q) : i # j => f[i] # f[j]
  PROVE  Placeable(q, CompatibleIn(q), n)
<1> DEFINE C == CompatibleIn(q)
           g == [j \in C |-> f[j][1]]
<1>1. \A j \in C : g[j] \in Members(q.eligible[j]) /\ g[j] \in WorkersOf(q)
  BY QueueTyped
<1>2. g \in [C -> WorkersOf(q)]
  <2>1. g = [j \in C |-> g[j]]
    OBVIOUS
  <2> HIDE DEF g
  <2> QED BY <1>1, <2>1
<1>3. ASSUME NEW w PROVE Cardinality({j \in C : g[j] = w}) <= n
  <2> DEFINE T == {j \in C : g[j] = w}
             h == [j \in T |-> f[j][2]]
             K == 0..(n - 1)
  <2>1. h \in [T -> K]
    OBVIOUS
  <2>2. ASSUME NEW i \in T, NEW j \in T, h[i] = h[j] PROVE i = j
    <3>1. f[i][1] = f[j][1] /\ f[i][2] = f[j][2]
      BY <2>2
    <3>2. f[i] = f[j]
      BY <3>1
    <3> QED BY <3>2
  <2>3. IsFiniteSet(K) /\ Cardinality(K) = n
    BY FS_Interval
  <2> HIDE DEF h, T, K
  <2>4. h \in Injection(T, K)
    BY <2>1, <2>2 DEF Injection, IsInjective
  <2>5. Cardinality(T) <= Cardinality(K)
    BY <2>3, <2>4, FS_Injection
  <2> QED BY <2>3, <2>5 DEF T
<1> HIDE DEF g
<1> QED BY <1>1, <1>2, <1>3 DEF Placeable

(* Where at most n jobs are on a worker, the k-th of them takes its wave k. *)
LEMMA PlacesWaveSlots ==
  ASSUME NEW q \in CapacityQueries, NEW n \in Nat, NEW given,
         \A j \in CompatibleIn(q) :
            Members(given[j]) = Members(q.eligible[j]) \X (0..(n - 1)),
         Placeable(q, CompatibleIn(q), n)
  PROVE  Matchable(given, CompatibleIn(q))
<1> DEFINE C == CompatibleIn(q)
<1>1. PICK f \in [C -> WorkersOf(q)] :
        /\ \A j \in C : f[j] \in Members(q.eligible[j])
        /\ \A w \in WorkersOf(q) : Cardinality({j \in C : f[j] = w}) <= n
  BY DEF Placeable
<1>2. C \subseteq Nat /\ IsFiniteSet(C)
  BY QueueTyped
<1> DEFINE Upto(j) == {i \in C : f[i] = f[j] /\ i <= j}
           g == [j \in C |-> <<f[j], Cardinality(Upto(j)) - 1>>]
<1>3. ASSUME NEW j \in C
      PROVE  IsFiniteSet(Upto(j)) /\ Cardinality(Upto(j)) \in 1..n
  <2> DEFINE T == {i \in C : f[i] = f[j]}
             S == Upto(j)
  <2>1. T \in SUBSET C /\ S \in SUBSET T /\ j \in S
    BY <1>2
  <2>2. Cardinality(T) <= n
    BY <1>1
  <2> HIDE DEF T, S
  <2>3. IsFiniteSet(T) /\ IsFiniteSet(S) /\ Cardinality(S) <= Cardinality(T)
    BY <1>2, <2>1, FS_Subset
  <2>4. Cardinality(T) \in Nat /\ Cardinality(S) \in Nat /\ Cardinality(S) # 0
    BY <2>1, <2>3, FS_CardinalityType, FS_EmptySet
  <2>5. IsFiniteSet(S) /\ Cardinality(S) \in 1..n
    BY <2>2, <2>3, <2>4
  <2> QED BY <2>5 DEF S
<1>4. ASSUME NEW i \in C, NEW j \in C, i < j, f[i] = f[j]
      PROVE  Cardinality(Upto(i)) # Cardinality(Upto(j))
  <2> DEFINE S == Upto(i)
             T == Upto(j)
  <2>1. S \in SUBSET T /\ j \in T /\ j \notin S
    BY <1>2, <1>4
  <2>2. IsFiniteSet(T)
    BY <1>3
  <2> HIDE DEF S, T
  <2>3. Cardinality(S) # Cardinality(T)
    BY <2>1, <2>2, FS_Subset
  <2> QED BY <2>3 DEF S, T
<1>5. \A j \in C : g[j] \in Members(given[j])
  <2> SUFFICES ASSUME NEW j \in C PROVE <<f[j], Cardinality(Upto(j)) - 1>> \in Members(given[j])
    OBVIOUS
  <2> DEFINE k == Cardinality(Upto(j))
  <2>1. k \in 1..n
    BY <1>3
  <2> HIDE DEF k
  <2>2. k - 1 \in 0..(n - 1)
    BY <2>1
  <2>3. <<f[j], k - 1>> \in Members(given[j])
    BY <1>1, <2>2
  <2> QED BY <2>3 DEF k
<1>6. ASSUME NEW i \in C, NEW j \in C, g[i] = g[j] PROVE i = j
  <2> DEFINE a == Cardinality(Upto(i))
             b == Cardinality(Upto(j))
  <2>1. f[i] = f[j] /\ a - 1 = b - 1
    BY <1>6
  <2>2. a \in 1..n /\ b \in 1..n
    BY <1>3
  <2>3. f[j] = f[i] /\ i \in Nat /\ j \in Nat
    BY <1>2, <2>1
  <2> HIDE DEF a, b
  <2>4. a = b
    <3>1. a \in Int /\ b \in Int
      BY <2>2
    <3> QED BY <2>1, <3>1
  <2>5. ~(i < j) /\ ~(j < i)
    BY <1>4, <2>3, <2>4 DEF a, b
  <2> QED BY <2>3, <2>5
<1> HIDE DEF g
<1> QED BY <1>5, <1>6 DEF Matchable

-----------------------------------------------------------------------------
(* One call of _maximum_matching.                                          *)

(* A list over its members is a list over a set that has them. *)
LEMMA ListOver ==
  ASSUME NEW S, NEW T, NEW list \in Seq(S), Members(list) \subseteq T
  PROVE  list \in Seq(T)
<1>1. Len(list) \in Nat /\ list \in [1..Len(list) -> S]
  BY LenProperties
<1>2. \A i \in 1..Len(list) : list[i] \in T
  BY DEF Members
<1>3. list \in [1..Len(list) -> T]
  BY <1>1, <1>2
<1> QED BY <1>1, <1>3, SeqDef

(* A call begins with everyone unmatched. *)
LEMMA CallBegins ==
  ASSUME request' \in CapacityQueries, NEW given, SlotsGiven',
         StartMatching(CompatibleIn(request'), given)
  PROVE  MatchingInv'
<1> USE DEF StartMatching, NoEntries, Compatible
<1>1. RootsInOrder'
  <2>1. CompatibleIn(request') \subseteq Nat \ {0}
    BY QueueTyped
  <2>2. \A j \in CompatibleIn(request') : 0 < j
    BY <2>1
  <2> QED BY <2>2 DEF RootsInOrder
<1>2. SlotsInverse'
  BY DEF SlotsInverse
<1>3. SearchTree'
  <2>1. <<>> \in Seq(visited') /\ <<>> \in Seq(AllSlots')
    OBVIOUS
  <2> QED BY <2>1 DEF SearchTree
<1>4. SearchCovers'
  BY DEF SearchCovers
<1>5. StuckForReason'
  BY DEF StuckForReason
<1> QED BY <1>1, <1>2, <1>3, <1>4, <1>5 DEF MatchingInv

(* The steps of a call leave its slots alone. *)
LEMMA CallContinues ==
  ASSUME request \in CapacityQueries, Matching, MatchingInv, UNCHANGED <<slots, afterMatching>>
  PROVE  /\ SlotsGiven' /\ Compatible' = Compatible /\ AllSlots' = AllSlots
         /\ Compatible \subseteq Nat \ {0}
         /\ \A j \in Compatible : \A s \in Members(slots[j]) : s \in AllSlots /\ s # NoSlot
<1>1. Compatible' = Compatible /\ AllSlots' = AllSlots
  BY DEF afterMatching, Compatible, AllSlots
<1>2. SlotsGiven /\ SlotsGiven'
  BY <1>1 DEF MatchingInv, SlotsGiven, afterMatching
<1>3. \A j \in Compatible : Members(slots[j]) \subseteq AllSlots
  BY DEF AllSlots
<1>4. Compatible \subseteq Nat \ {0}
  BY QueueTyped DEF Compatible
<1> QED BY <1>1, <1>2, <1>3, <1>4 DEF SlotsGiven

(* A search that ended without a slot for its root has reached a set of     *)
(* jobs whose slots are all taken by the others.                            *)
LEMMA SearchFailed ==
  ASSUME request \in CapacityQueries, MatchingInv, SearchOver,
         root \in Compatible, root \notin DOMAIN slotOf
  PROVE  ~Matchable(slots, {i \in DOMAIN slotOf : i < root} \cup {root})
<1> USE DEF MatchingInv, SearchOver
<1>1. Compatible \subseteq Nat \ {0} /\ IsFiniteSet(Compatible)
  BY QueueTyped DEF Compatible
<1>2. root # 0 /\ free = NoSlot /\ DOMAIN slotOf \subseteq Compatible
  BY <1>1 DEF RootsInOrder
<1>3. Members(queue) = {} /\ Members(rest) = {}
  BY NoMembers
<1>4. /\ root \in visited
      /\ \A s \in DOMAIN parent : s \in DOMAIN jobOf /\ jobOf[s] \in visited
      /\ \A j \in visited : \A s \in Members(slots[j]) : s \in DOMAIN parent
  BY <1>2, <1>3 DEF SearchCovers
<1>5. visited \subseteq {i \in DOMAIN slotOf : i < root} \cup {root}
  <2> SUFFICES ASSUME NEW j \in visited, j # root PROVE j \in DOMAIN slotOf /\ j < root
    OBVIOUS
  <2>1. j \in DOMAIN slotOf /\ j \in Compatible \ pending /\ j <= root
    BY DEF SearchTree, RootsInOrder
  <2> QED BY <1>1, <2>1
<1>6. visited \in SUBSET Compatible
  BY <1>2, <1>5
<1>7. ASSUME NEW j \in visited, NEW s \in Members(slots[j])
      PROVE  /\ jobOf[s] \in visited \ {root}
             /\ s \in DOMAIN jobOf /\ slotOf[jobOf[s]] = s
  <2>1. s \in DOMAIN jobOf /\ jobOf[s] \in visited
    BY <1>4
  <2>2. jobOf[s] \in DOMAIN slotOf /\ slotOf[jobOf[s]] = s
    BY <1>2, <2>1 DEF SlotsInverse
  <2> QED BY <2>1, <2>2
<1>8. IsFiniteSet(visited)
  BY <1>1, <1>6, FS_Subset
<1>9. ~Matchable(slots, visited)
  <2>1. \A j \in visited : \A s \in Members(slots[j]) : jobOf[s] \in visited \ {root}
    BY <1>7
  <2>2. \A i, j \in visited : \A s \in Members(slots[i]), t \in Members(slots[j]) :
          jobOf[s] = jobOf[t] => s = t
    BY <1>7
  <2> QED BY <1>4, <1>8, <2>1, <2>2, SlotsTooFew
<1> DEFINE S == {i \in DOMAIN slotOf : i < root} \cup {root}
<1>10. visited \in SUBSET S
  BY <1>5
<1> HIDE DEF S
<1>11. ~Matchable(slots, S)
  BY <1>9, <1>10, FewerMatchable
<1> QED BY <1>11 DEF S

(* The next root. *)
LEMMA NextRootKeeps ==
  ASSUME request \in CapacityQueries, Matching, MatchingInv, NextRoot
  PROVE  MatchingInv'
<1> USE DEF NextRoot, SearchOver
<1>1. /\ SlotsGiven' /\ Compatible' = Compatible /\ AllSlots' = AllSlots
      /\ Compatible \subseteq Nat \ {0}
  BY CallContinues
<1>2. pending \subseteq Compatible /\ pending # {} /\ root \in Nat
  BY DEF MatchingInv, RootsInOrder
<1>3. root' \in pending /\ \A j \in pending : root' <= j
  <2>1. pending \in SUBSET Nat
    BY <1>1, <1>2
  <2> QED BY <1>2, <2>1, MinIsLeast
<1>4. /\ root' \in Nat /\ root' # 0 /\ root < root' /\ root' \notin DOMAIN slotOf
      /\ root' \in Compatible \ pending'
  BY <1>1, <1>2, <1>3 DEF MatchingInv, RootsInOrder
<1>5. RootsInOrder'
  <2>1. \A j \in Compatible \ pending' : j <= root'
    <3> SUFFICES ASSUME NEW j \in Compatible \ pending, j # root' PROVE j <= root'
      BY <1>4
    <3>1. j <= root /\ j \in Nat
      BY <1>1 DEF MatchingInv, RootsInOrder
    <3> QED BY <1>2, <1>4, <3>1
  <2>2. \A j \in pending' : root' < j
    <3> SUFFICES ASSUME NEW j \in pending, j # root' PROVE root' < j
      OBVIOUS
    <3>1. j \in Nat /\ root' <= j
      BY <1>1, <1>2, <1>3
    <3> QED BY <1>4, <3>1
  <2>3. DOMAIN slotOf' \subseteq Compatible \ pending' /\ pending' \subseteq Compatible
    BY <1>2 DEF MatchingInv, RootsInOrder
  <2> QED BY <1>1, <1>4, <2>1, <2>2, <2>3 DEF RootsInOrder
<1>6. SlotsInverse'
  BY DEF MatchingInv, SlotsInverse
<1>7. queue' \in Seq(visited') /\ Members(queue') = {root'}
  <2>1. <<root'>> \in Seq({root'}) /\ Len(<<root'>>) = 1 /\ <<root'>>[1] = root'
    OBVIOUS
  <2>2. 1..1 = {1}
    OBVIOUS
  <2> QED BY <2>1, <2>2 DEF Members
<1>8. SearchTree'
  <2>1. rest' = <<>> /\ free' = NoSlot /\ rest' \in Seq(AllSlots')
    OBVIOUS
  <2> QED BY <1>4, <1>7, <2>1 DEF SearchTree, NoEntries
<1>9. SearchCovers'
  BY <1>7 DEF SearchCovers, NoEntries
<1>10. StuckForReason'
  <2> SUFFICES ASSUME NEW j \in Compatible \ pending', j \notin DOMAIN slotOf, j # root'
               PROVE  ~Matchable(slots, {i \in DOMAIN slotOf : i < j} \cup {j})
    BY <1>1 DEF StuckForReason
  <2>1. j \in Compatible \ pending
    OBVIOUS
  <2>2. CASE j # root
    BY <2>1, <2>2 DEF MatchingInv, StuckForReason
  <2>3. CASE j = root
    BY <2>1, <2>3, SearchFailed
  <2> QED BY <2>2, <2>3
<1> QED BY <1>1, <1>5, <1>6, <1>8, <1>9, <1>10 DEF MatchingInv

(* A job is taken from the search queue. *)
LEMMA NextJobKeeps ==
  ASSUME request \in CapacityQueries, Matching, MatchingInv, NextJob
  PROVE  MatchingInv'
<1> USE DEF NextJob
<1>1. /\ SlotsGiven' /\ Compatible' = Compatible /\ AllSlots' = AllSlots
      /\ Compatible \subseteq Nat \ {0}
  BY CallContinues
<1>2. RootsInOrder' /\ SlotsInverse' /\ StuckForReason'
  BY <1>1 DEF MatchingInv, RootsInOrder, SlotsInverse, StuckForReason
<1>3. queue \in Seq(visited) /\ queue # <<>>
  BY DEF MatchingInv, SearchTree
<1>4. /\ current' \in visited /\ queue' \in Seq(visited)
      /\ Members(queue) = {current'} \cup Members(queue')
  BY <1>3, HeadAndTail
<1>5. root \notin DOMAIN slotOf /\ free = NoSlot /\ rest = <<>>
  BY <1>3 DEF MatchingInv, SearchTree
<1>6. current' \in Compatible /\ rest' \in Seq(AllSlots')
  <2>1. root # 0
    BY <1>4 DEF MatchingInv, SearchTree
  <2>2. current' \in DOMAIN slotOf \cup {root}
    BY <1>4 DEF MatchingInv, SearchTree
  <2>3. current' \in Compatible
    BY <2>1, <2>2 DEF MatchingInv, RootsInOrder
  <2>4. slots[current'] \in Seq(AllSlots)
    BY <2>3 DEF MatchingInv, SlotsGiven
  <2> QED BY <1>1, <2>3, <2>4
<1>7. SearchTree'
  BY <1>1, <1>4, <1>5, <1>6 DEF MatchingInv, SearchTree
<1>8. SearchCovers'
  <2>1. Members(rest) = {}
    BY <1>5, NoMembers
  <2>2. /\ \A s \in DOMAIN parent : s \in DOMAIN jobOf /\ jobOf[s] \in visited
        /\ \A j \in visited \ Members(queue) : \A s \in Members(slots[j]) : s \in DOMAIN parent
        /\ root # 0 => root \in visited
    BY <1>5, <2>1 DEF MatchingInv, SearchCovers
  <2>3. ASSUME NEW j \in visited \ Members(queue'), NEW s \in Members(slots[j])
        PROVE  s \in DOMAIN parent \/ (j = current' /\ s \in Members(rest'))
    BY <1>4, <2>2
  <2> QED BY <2>2, <2>3 DEF SearchCovers
<1> QED BY <1>1, <1>2, <1>7, <1>8 DEF MatchingInv

(* A slot of the job is looked at: it was seen before, it is free, or its   *)
(* owner is searched later.                                                 *)
LEMMA VisitSlotKeeps ==
  ASSUME request \in CapacityQueries, Matching, MatchingInv, VisitSlot
  PROVE  MatchingInv'
<1> DEFINE slot == Head(rest)
<1>0. /\ Matching /\ free = NoSlot /\ rest # <<>>
      /\ UNCHANGED <<slots, pending, root, current, jobOf, slotOf, afterMatching>>
  BY DEF VisitSlot
<1>1. /\ SlotsGiven' /\ Compatible' = Compatible /\ AllSlots' = AllSlots
      /\ Compatible \subseteq Nat \ {0}
      /\ \A j \in Compatible : \A s \in Members(slots[j]) : s \in AllSlots /\ s # NoSlot
  BY <1>0, CallContinues
<1>2. RootsInOrder' /\ StuckForReason'
  BY <1>0, <1>1 DEF MatchingInv, RootsInOrder, StuckForReason
<1>3. /\ rest \in Seq(AllSlots) /\ queue \in Seq(visited)
      /\ current \in visited /\ Members(rest) \subseteq Members(slots[current])
      /\ root # 0 /\ root \notin DOMAIN slotOf
  BY <1>0 DEF MatchingInv, SearchTree
<1>4. current \in Compatible
  BY <1>3 DEF MatchingInv, SearchTree, RootsInOrder
<1>5. /\ Tail(rest) \in Seq(AllSlots)
      /\ Members(rest) = {slot} \cup Members(Tail(rest))
  BY <1>0, <1>3, HeadAndTail
<1>6. slot \in Members(slots[current]) /\ slot # NoSlot
  BY <1>1, <1>3, <1>4, <1>5
<1>7. /\ \A s \in DOMAIN parent : s \in DOMAIN jobOf /\ jobOf[s] \in visited
      /\ \A j \in visited \ Members(queue) :
           \A s \in Members(slots[j]) :
              s \in DOMAIN parent \/ (j = current /\ s \in Members(rest))
      /\ root \in visited
  BY <1>0, <1>3 DEF MatchingInv, SearchCovers
<1>8. /\ visited \subseteq DOMAIN slotOf \cup {root}
      /\ \A s \in DOMAIN parent : parent[s] \in visited /\ s \in Members(slots[parent[s]])
      /\ \A j \in visited \ {root} : slotOf[j] \in DOMAIN parent
  BY DEF MatchingInv, SearchTree
<1> DEFINE entry == Put(parent, slot, current)
<1>9. /\ DOMAIN entry = DOMAIN parent \cup {slot} /\ entry[slot] = current
      /\ \A x \in DOMAIN parent : x # slot => entry[x] = parent[x]
  BY DEF Put
<1> HIDE DEF slot, entry
<1>10. CASE /\ slot \in DOMAIN parent
            /\ rest' = Tail(rest)
            /\ UNCHANGED <<queue, visited, parent, free>>
  <2>1. SlotsInverse'
    BY <1>0, <1>10 DEF MatchingInv, SlotsInverse
  <2>2. SearchTree'
    <3>1. rest' \in Seq(AllSlots') /\ Members(rest') \subseteq Members(slots[current])
      BY <1>1, <1>3, <1>5, <1>10
    <3> QED BY <1>0, <1>3, <1>8, <1>10, <3>1 DEF SearchTree
  <2>3. SearchCovers'
    BY <1>0, <1>5, <1>7, <1>10 DEF SearchCovers
  <2> QED BY <1>1, <1>2, <2>1, <2>2, <2>3 DEF MatchingInv
<1>11. CASE /\ slot \notin DOMAIN parent /\ slot \notin DOMAIN jobOf
            /\ parent' = entry
            /\ free' = slot
            /\ queue' = <<>> /\ rest' = <<>>
            /\ UNCHANGED visited
  <2>1. SlotsInverse'
    <3>1. ASSUME NEW j \in DOMAIN slotOf
          PROVE  /\ slotOf[j] \in Members(slots[j]) /\ slotOf[j] # slot
                 /\ slotOf[j] \in DOMAIN jobOf /\ jobOf[slotOf[j]] = j
      BY <1>11 DEF MatchingInv, SlotsInverse
    <3>2. /\ NoSlot \notin DOMAIN jobOf
          /\ \A s \in DOMAIN jobOf : jobOf[s] \in DOMAIN slotOf /\ slotOf[jobOf[s]] = s
      BY <1>0 DEF MatchingInv, SlotsInverse
    <3> QED BY <1>0, <1>11, <3>1, <3>2 DEF SlotsInverse
  <2>2. SearchTree'
    <3>1. queue' \in Seq(visited') /\ rest' \in Seq(AllSlots')
      BY <1>11
    <3>2. \A s \in DOMAIN parent' : parent'[s] \in visited /\ s \in Members(slots[parent'[s]])
      BY <1>3, <1>6, <1>8, <1>9, <1>11
    <3> QED BY <1>0, <1>3, <1>8, <1>9, <1>11, <3>1, <3>2 DEF SearchTree
  <2>3. SearchCovers'
    BY <1>6, <1>11 DEF SearchCovers
  <2> QED BY <1>1, <1>2, <2>1, <2>2, <2>3 DEF MatchingInv
<1>12. CASE /\ slot \notin DOMAIN parent /\ slot \in DOMAIN jobOf
            /\ parent' = entry
            /\ rest' = Tail(rest)
            /\ IF jobOf[slot] \in visited THEN UNCHANGED <<queue, visited>>
               ELSE /\ visited' = visited \cup {jobOf[slot]}
                    /\ queue' = Append(queue, jobOf[slot])
            /\ UNCHANGED free
  <2> DEFINE owner == jobOf[slot]
  <2>0. owner \in DOMAIN slotOf /\ slotOf[owner] = slot /\ owner # root
    BY <1>0, <1>3, <1>6, <1>12 DEF MatchingInv, SlotsInverse
  <2>1. /\ visited' = visited \cup {owner}
        /\ queue' \in Seq(visited')
        /\ Members(queue') = Members(queue) \cup (visited' \ visited)
    <3>1. CASE owner \in visited
      <4>1. visited' = visited /\ queue' = queue
        BY <1>12, <3>1
      <4> QED BY <1>3, <3>1, <4>1
    <3>2. CASE owner \notin visited
      <4>1. visited' = visited \cup {owner} /\ queue' = Append(queue, owner)
        BY <1>12, <3>2
      <4>2. queue \in Seq(visited') /\ owner \in visited'
        <5>1. Members(queue) \subseteq visited'
          BY <1>3, <4>1, ListOfMembers
        <5> QED BY <1>3, <4>1, <5>1, ListOver
      <4>3. queue' \in Seq(visited') /\ Members(queue') = Members(queue) \cup {owner}
        BY <4>1, <4>2, AppendedMembers
      <4> QED BY <3>2, <4>1, <4>3
    <3> QED BY <3>1, <3>2
  <2> HIDE DEF owner
  <2>2. SlotsInverse'
    BY <1>0, <1>12 DEF MatchingInv, SlotsInverse
  <2>3. SearchTree'
    <3>1. rest' \in Seq(AllSlots') /\ Members(rest') \subseteq Members(slots[current])
      BY <1>1, <1>3, <1>5, <1>12
    <3>2. \A s \in DOMAIN parent' : parent'[s] \in visited' /\ s \in Members(slots[parent'[s]])
      BY <1>3, <1>6, <1>8, <1>9, <1>12, <2>1
    <3>3. \A j \in visited' \ {root} : slotOf[j] \in DOMAIN parent'
      BY <1>8, <1>9, <1>12, <2>0, <2>1
    <3>4. visited' \subseteq DOMAIN slotOf \cup {root}
      BY <1>8, <2>0, <2>1
    <3> QED BY <1>0, <1>3, <1>12, <2>1, <3>1, <3>2, <3>3, <3>4 DEF SearchTree
  <2>4. SearchCovers'
    <3>1. \A s \in DOMAIN parent' : s \in DOMAIN jobOf /\ jobOf[s] \in visited'
      BY <1>7, <1>9, <1>12, <2>1 DEF owner
    <3>2. ASSUME NEW j \in visited' \ Members(queue'), NEW s \in Members(slots[j])
          PROVE  s \in DOMAIN parent' \/ (j = current /\ s \in Members(rest'))
      <4>1. j \in visited \ Members(queue)
        BY <2>1
      <4>2. s \in DOMAIN parent \/ (j = current /\ s \in Members(rest))
        BY <1>7, <4>1
      <4> QED BY <1>5, <1>9, <1>12, <4>2
    <3> QED BY <1>0, <1>7, <2>1, <3>1, <3>2 DEF SearchCovers
  <2> QED BY <1>1, <1>2, <2>2, <2>3, <2>4 DEF MatchingInv
<1> QED BY <1>10, <1>11, <1>12 DEF VisitSlot, slot, entry

(* One edge of the path changes hands: the job takes the slot that is free  *)
(* and gives up the one it had.                                             *)
LEMMA FlipEdgeKeeps ==
  ASSUME request \in CapacityQueries, Matching, MatchingInv, FlipEdge
  PROVE  MatchingInv'
<1> DEFINE j == parent[free]
<1>0. /\ free # NoSlot
      /\ jobOf' = Put(jobOf, free, j) /\ slotOf' = Put(slotOf, j, free)
      /\ free' = IF j \in DOMAIN slotOf THEN slotOf[j] ELSE NoSlot
      /\ UNCHANGED <<slots, pending, root, queue, visited, current, rest, parent, afterMatching>>
  BY DEF FlipEdge
<1>1. /\ SlotsGiven' /\ Compatible' = Compatible /\ AllSlots' = AllSlots
      /\ Compatible \subseteq Nat \ {0}
      /\ \A k \in Compatible : \A s \in Members(slots[k]) : s \in AllSlots /\ s # NoSlot
  BY <1>0, CallContinues
<1>2. /\ free \in DOMAIN parent /\ queue = <<>> /\ rest = <<>>
      /\ root # 0 /\ root \notin DOMAIN slotOf
      /\ j \in visited /\ free \in Members(slots[j])
      /\ visited \subseteq DOMAIN slotOf \cup {root}
      /\ \A k \in visited \ {root} : slotOf[k] \in DOMAIN parent
  BY <1>0 DEF MatchingInv, SearchTree
<1>3. j \in DOMAIN slotOf <=> j # root
  BY <1>2
<1> HIDE DEF j
<1>4. /\ DOMAIN jobOf' = DOMAIN jobOf \cup {free} /\ jobOf'[free] = j
      /\ \A x \in DOMAIN jobOf : x # free => jobOf'[x] = jobOf[x]
  BY <1>0 DEF Put
<1>5. /\ DOMAIN slotOf' = DOMAIN slotOf \cup {j} /\ slotOf'[j] = free
      /\ \A x \in DOMAIN slotOf : x # j => slotOf'[x] = slotOf[x]
  BY <1>0 DEF Put
<1>6. /\ \A k \in DOMAIN slotOf :
           /\ slotOf[k] \in Members(slots[k]) /\ slotOf[k] # free
           /\ slotOf[k] \in DOMAIN jobOf /\ jobOf[slotOf[k]] = k
      /\ NoSlot \notin DOMAIN jobOf
      /\ \A s \in DOMAIN jobOf \ {free} :
           jobOf[s] \in DOMAIN slotOf /\ slotOf[jobOf[s]] = s
  BY DEF MatchingInv, SlotsInverse
<1>7. /\ DOMAIN slotOf \subseteq Compatible \ pending /\ root \in Compatible \ pending
      /\ DOMAIN slotOf' \subseteq Compatible \ pending
  BY <1>2, <1>3, <1>5 DEF MatchingInv, RootsInOrder
<1>8. RootsInOrder'
  BY <1>0, <1>1, <1>7 DEF MatchingInv, RootsInOrder
<1>9. SlotsInverse'
  <2>1. ASSUME NEW k \in DOMAIN slotOf'
        PROVE  /\ slotOf'[k] \in Members(slots[k]) /\ slotOf'[k] # free'
               /\ slotOf'[k] \in DOMAIN jobOf' /\ jobOf'[slotOf'[k]] = k
    <3>1. CASE k = j
      <4>1. free # free'
        BY <1>0, <1>6
      <4> QED BY <1>2, <1>4, <1>5, <3>1, <4>1
    <3>2. CASE k # j
      <4>1. k \in DOMAIN slotOf /\ slotOf'[k] = slotOf[k]
        BY <1>5, <3>2
      <4>2. slotOf[k] # free'
        <5>1. slotOf[k] # NoSlot
          BY <1>6, <4>1
        <5>2. j \in DOMAIN slotOf => slotOf[k] # slotOf[j]
          BY <1>6, <3>2, <4>1
        <5> QED BY <1>0, <5>1, <5>2
      <4> QED BY <1>4, <1>6, <4>1, <4>2
    <3> QED BY <3>1, <3>2
  <2>2. ASSUME NEW s \in DOMAIN jobOf' \ {free'}
        PROVE  jobOf'[s] \in DOMAIN slotOf' /\ slotOf'[jobOf'[s]] = s
    <3>1. CASE s = free
      BY <1>4, <1>5, <3>1
    <3>2. CASE s # free
      <4>1. /\ s \in DOMAIN jobOf \ {free} /\ jobOf'[s] = jobOf[s]
            /\ jobOf[s] \in DOMAIN slotOf /\ slotOf[jobOf[s]] = s
        BY <1>4, <1>6, <3>2
      <4>2. jobOf[s] # j
        BY <1>0, <4>1
      <4> QED BY <1>5, <4>1, <4>2
    <3> QED BY <3>1, <3>2
  <2>3. NoSlot \notin DOMAIN jobOf'
    BY <1>0, <1>4, <1>6
  <2> QED BY <1>0, <2>1, <2>2, <2>3 DEF SlotsInverse
<1>10. SearchTree'
  <2>1. \A k \in visited \ {root} : slotOf'[k] \in DOMAIN parent
    BY <1>2, <1>5
  <2>2. visited \subseteq DOMAIN slotOf' \cup {root}
    BY <1>2, <1>5
  <2>3. free' # NoSlot => free' \in DOMAIN parent /\ root \notin DOMAIN slotOf'
    BY <1>0, <1>2, <1>3, <1>5
  <2>4. root \in DOMAIN slotOf' => free' = NoSlot
    BY <1>0, <1>2, <1>3, <1>5
  <2>5. /\ root = 0 => visited = {}
        /\ \A s \in DOMAIN parent : parent[s] \in visited /\ s \in Members(slots[parent[s]])
        /\ queue \in Seq(visited) /\ rest \in Seq(AllSlots)
    BY DEF MatchingInv, SearchTree
  <2> QED BY <1>0, <1>1, <1>2, <2>1, <2>2, <2>3, <2>4, <2>5 DEF SearchTree
<1>11. SearchCovers'
  <2>1. free' = NoSlot => root \in DOMAIN slotOf'
    <3>1. j \in DOMAIN slotOf => slotOf[j] # NoSlot
      BY <1>6
    <3> QED BY <1>0, <1>3, <1>5, <3>1
  <2> QED BY <1>0, <2>1 DEF SearchCovers
<1>12. StuckForReason'
  <2> SUFFICES ASSUME NEW k \in Compatible \ pending, k \notin DOMAIN slotOf', k # root
               PROVE  ~Matchable(slots, {i \in DOMAIN slotOf' : i < k} \cup {k})
    BY <1>0, <1>1 DEF StuckForReason
  <2> DEFINE S == {i \in DOMAIN slotOf : i < k} \cup {k}
             T == {i \in DOMAIN slotOf' : i < k} \cup {k}
  <2>1. ~Matchable(slots, S)
    BY <1>5 DEF MatchingInv, StuckForReason
  <2>2. S \in SUBSET T
    BY <1>5
  <2> HIDE DEF S, T
  <2>3. ~Matchable(slots, T)
    BY <2>1, <2>2, FewerMatchable
  <2> QED BY <2>3 DEF T
<1> QED BY <1>1, <1>8, <1>9, <1>10, <1>11, <1>12 DEF MatchingInv

(* What a finished call returns: slots of their own for the matched jobs,   *)
(* and a reason for each of the others.                                     *)
LEMMA CallReturns ==
  ASSUME request \in CapacityQueries, MatchingInv, MatchingOver
  PROVE  /\ DOMAIN slotOf \subseteq Compatible
         /\ \A i, j \in DOMAIN slotOf : i # j => slotOf[i] # slotOf[j]
         /\ \A j \in DOMAIN slotOf : slotOf[j] \in Members(slots[j])
         /\ \A j \in Compatible \ DOMAIN slotOf :
              ~Matchable(slots, {i \in DOMAIN slotOf : i < j} \cup {j})
<1>1. DOMAIN slotOf \subseteq Compatible
  BY DEF MatchingInv, RootsInOrder
<1>2. /\ \A i, j \in DOMAIN slotOf : i # j => slotOf[i] # slotOf[j]
      /\ \A j \in DOMAIN slotOf : slotOf[j] \in Members(slots[j])
  BY DEF MatchingInv, SlotsInverse
<1>3. ASSUME NEW j \in Compatible \ DOMAIN slotOf
      PROVE  ~Matchable(slots, {i \in DOMAIN slotOf : i < j} \cup {j})
  <2>1. CASE j = root
    BY <2>1, SearchFailed DEF MatchingOver
  <2>2. CASE j # root
    BY <2>2 DEF MatchingOver, MatchingInv, StuckForReason
  <2> QED BY <2>1, <2>2
<1> QED BY <1>1, <1>2, <1>3

-----------------------------------------------------------------------------
(* The two questions of the forecast.                                      *)

(* The first call gets the eligible workers. *)
LEMMA AskKeeps ==
  ASSUME AskCapacity
  PROVE  CapacityInv'
<1>1. PICK q \in CapacityQueries :
        request' = q /\ StartMatching(CompatibleIn(q), q.eligible)
  BY DEF AskCapacity
<1>2. step' = "wave" /\ slots' = q.eligible /\ Compatible' = CompatibleIn(q)
  BY <1>1 DEF AskCapacity, StartMatching, Compatible
<1>3. AllSlots' = UNION {Members(q.eligible[j]) : j \in CompatibleIn(q)}
  BY <1>2 DEF AllSlots
<1>4. \A j \in CompatibleIn(q) : Members(q.eligible[j]) \subseteq AllSlots'
  BY <1>3
<1>5. AllSlots' \subseteq WorkersOf(q)
  BY <1>3, QueueTyped
<1>6. \A j \in CompatibleIn(q) : q.eligible[j] \in Seq(AllSlots')
  BY <1>4, QueueTyped, ListOver
<1>7. NoSlot \notin AllSlots'
  BY <1>5, CapacityAssumption
<1>8. SlotsGiven'
  BY <1>1, <1>2, <1>6, <1>7 DEF SlotsGiven
<1>9. MatchingInv'
  BY <1>1, <1>8, CallBegins
<1> QED BY <1>1, <1>2, <1>9 DEF CapacityInv

(* The first wave and the bounds of the search for the number of waves. *)
LEMMA TakeFirstWaveKeeps ==
  ASSUME CapacityInv, TakeFirstWave
  PROVE  CapacityInv'
<1> USE DEF TakeFirstWave
<1>1. request \in CapacityQueries /\ MatchingInv /\ step = "wave" /\ MatchingOver
  BY DEF CapacityInv
<1>2. Compatible' = Compatible /\ request' = request /\ assigned' = slotOf
  BY DEF Compatible
<1>3. \A j \in Compatible : slots[j] = request.eligible[j]
  BY <1>1 DEF MatchingInv, SlotsGiven
<1>4. FirstWaveGood'
  <2>1. /\ DOMAIN slotOf \subseteq Compatible
        /\ \A i, j \in DOMAIN slotOf : i # j => slotOf[i] # slotOf[j]
        /\ \A j \in DOMAIN slotOf : slotOf[j] \in Members(request.eligible[j])
    BY <1>1, <1>3, CallReturns
  <2>2. ASSUME NEW j \in Compatible \ DOMAIN slotOf
        PROVE  ~Placeable(request, {i \in DOMAIN slotOf : i < j} \cup {j}, 1)
    <3> DEFINE S == {i \in DOMAIN slotOf : i < j} \cup {j}
    <3>1. ~Matchable(slots, S)
      BY <1>1, CallReturns
    <3>2. S \in SUBSET Compatible
      BY <2>1
    <3> HIDE DEF S
    <3>3. ~Matchable(request.eligible, S)
      BY <1>3, <3>1, <3>2 DEF Matchable
    <3>4. ~Placeable(request, S, 1)
      BY <1>1, <3>2, <3>3, OwnWorkers DEF Compatible
    <3> QED BY <3>4 DEF S
  <2> QED BY <1>2, <2>1, <2>2 DEF FirstWaveGood
<1>5. BoundsEnclose'
  <2> DEFINE n == Cardinality(Compatible)
  <2>1. n \in Nat /\ (n = 0 <=> Compatible = {})
    BY <1>1, QueueTyped, FS_CardinalityType, FS_EmptySet DEF Compatible
  <2>2. /\ Placeable(request, Compatible, n)
        /\ Compatible # {} => ~Placeable(request, Compatible, 0)
    BY <1>1, WavesWithin DEF Compatible
  <2>3. upper' = n /\ lower' = (IF Compatible = {} THEN 0 ELSE 1)
    OBVIOUS
  <2> HIDE DEF n
  <2>4. lower' - 1 = 0 \/ lower' = 0
    BY <2>3
  <2> QED BY <1>2, <2>1, <2>2, <2>3, <2>4 DEF BoundsEnclose
<1> QED BY <1>1, <1>2, <1>4, <1>5 DEF CapacityInv

(* Every call after it gets the slots of a number of waves between the      *)
(* bounds.                                                                  *)
LEMMA TryWavesKeeps ==
  ASSUME CapacityInv, TryWaves
  PROVE  CapacityInv'
<1> USE DEF TryWaves
<1>1. request \in CapacityQueries /\ step = "halve" /\ FirstWaveGood /\ BoundsEnclose
  BY DEF CapacityInv
<1>2. /\ Compatible' = Compatible /\ request' = request
      /\ UNCHANGED <<assigned, lower, upper>> /\ step' = "count"
  BY DEF Compatible
<1>3. FirstWaveGood' /\ BoundsEnclose'
  BY <1>1, <1>2 DEF FirstWaveGood, BoundsEnclose
<1>4. waves' \in Nat \ {0} /\ lower <= waves' /\ waves' < upper
  <2>1. lower \in Nat /\ upper \in Nat /\ lower < upper /\ lower # 0
    BY <1>1 DEF BoundsEnclose
  <2>2. waves' = (lower + upper) \div 2
    OBVIOUS
  <2> QED BY <2>1, <2>2
<1> DEFINE given == [j \in Compatible |-> WaveSlots(request.eligible[j], waves')]
<1>5. StartMatching(Compatible, given)
  OBVIOUS
<1>6. slots' = given
  BY DEF StartMatching
<1>7. ASSUME NEW j \in Compatible
      PROVE  /\ slots'[j] = WaveSlots(request.eligible[j], waves')
             /\ slots'[j] \in Seq(Members(request.eligible[j]) \X (0..(waves' - 1)))
             /\ Members(slots'[j]) = Members(request.eligible[j]) \X (0..(waves' - 1))
             /\ Members(request.eligible[j]) \subseteq WorkersOf(request)
  <2>1. /\ request.eligible[j] \in Seq(WorkersOf(request))
        /\ Members(request.eligible[j]) \subseteq WorkersOf(request)
    BY <1>1, QueueTyped DEF Compatible
  <2>2. slots'[j] = WaveSlots(request.eligible[j], waves')
    BY <1>6
  <2> QED BY <1>4, <2>1, <2>2, WaveMembers
<1>8. AllSlots' = UNION {Members(slots'[j]) : j \in Compatible}
  BY <1>2 DEF AllSlots
<1>9. ASSUME NEW j \in Compatible PROVE slots'[j] \in Seq(AllSlots')
  <2> DEFINE S == Members(request.eligible[j]) \X (0..(waves' - 1))
  <2>1. slots'[j] \in Seq(S)
    BY <1>7
  <2>2. Members(slots'[j]) \subseteq AllSlots'
    BY <1>8
  <2> HIDE DEF S
  <2> QED BY <2>1, <2>2, ListOver
<1>10. NoSlot \notin AllSlots'
  <2> SUFFICES ASSUME NEW j \in Compatible, NoSlot \in Members(slots'[j]) PROVE FALSE
    BY <1>8
  <2>1. 0..(waves' - 1) \subseteq Nat
    BY <1>4
  <2>2. NoSlot \in WorkersOf(request) \X Nat
    <3> DEFINE K == 0..(waves' - 1)
    <3>1. /\ NoSlot \in Members(request.eligible[j]) \X K
          /\ Members(request.eligible[j]) \subseteq WorkersOf(request) /\ K \subseteq Nat
      BY <1>7, <2>1
    <3> HIDE DEF K
    <3> QED BY <3>1
  <2> QED BY <1>1, <2>2, CapacityAssumption
<1>11. SlotsGiven'
  BY <1>2, <1>7, <1>9, <1>10 DEF SlotsGiven
<1>12. MatchingInv'
  <2> HIDE DEF given
  <2>1. request' \in CapacityQueries /\ StartMatching(CompatibleIn(request'), given)
    BY <1>1, <1>2, <1>5 DEF Compatible
  <2> QED BY <1>11, <2>1, CallBegins
<1> QED BY <1>1, <1>2, <1>3, <1>4, <1>12 DEF CapacityInv

(* A full matching lowers the upper bound, any other raises the lower one. *)
LEMMA HalveKeeps ==
  ASSUME CapacityInv, Halve
  PROVE  CapacityInv'
<1> USE DEF Halve
<1>1. /\ request \in CapacityQueries /\ step = "count" /\ FirstWaveGood /\ BoundsEnclose
      /\ MatchingInv /\ MatchingOver
      /\ waves \in Nat /\ lower <= waves /\ waves < upper
  BY DEF CapacityInv
<1>2. /\ Compatible' = Compatible /\ request' = request /\ assigned' = assigned
      /\ step' = "halve"
  BY DEF Compatible
<1>3. FirstWaveGood'
  BY <1>1, <1>2 DEF FirstWaveGood
<1>4. /\ DOMAIN slotOf \subseteq Compatible
      /\ \A i, j \in DOMAIN slotOf : i # j => slotOf[i] # slotOf[j]
      /\ \A j \in DOMAIN slotOf : slotOf[j] \in Members(slots[j])
      /\ \A j \in Compatible \ DOMAIN slotOf :
           ~Matchable(slots, {i \in DOMAIN slotOf : i < j} \cup {j})
  BY <1>1, CallReturns
<1>5. lower \in Nat \ {0} /\ upper \in Nat /\ waves \in Nat \ {0}
  BY <1>1 DEF BoundsEnclose
<1>6. \A j \in Compatible :
         Members(slots[j]) = Members(request.eligible[j]) \X (0..(waves - 1))
  <2> SUFFICES ASSUME NEW j \in Compatible
               PROVE  Members(slots[j]) = Members(request.eligible[j]) \X (0..(waves - 1))
    OBVIOUS
  <2>1. slots[j] = WaveSlots(request.eligible[j], waves)
    BY <1>1 DEF MatchingInv, SlotsGiven
  <2>2. request.eligible[j] \in Seq(WorkersOf(request))
    BY <1>1, QueueTyped DEF Compatible
  <2> QED BY <1>5, <2>1, <2>2, WaveMembers
<1>7. CASE /\ Cardinality(DOMAIN slotOf) = Cardinality(Compatible)
           /\ upper' = waves /\ UNCHANGED lower
  <2>1. DOMAIN slotOf = Compatible
    BY <1>1, <1>4, <1>7, QueueTyped, FS_Subset DEF Compatible
  <2>2. \A j \in Compatible : slotOf[j] \in Members(request.eligible[j]) \X (0..(waves - 1))
    BY <1>4, <1>6, <2>1
  <2>3. Placeable(request, Compatible, waves)
    BY <1>1, <1>4, <2>1, <2>2, WaveSlotsPlace DEF Compatible
  <2>4. BoundsEnclose'
    BY <1>1, <1>2, <1>5, <1>7, <2>3 DEF BoundsEnclose
  <2> QED BY <1>1, <1>2, <1>3, <2>4 DEF CapacityInv
<1>8. CASE /\ Cardinality(DOMAIN slotOf) # Cardinality(Compatible)
           /\ lower' = waves + 1 /\ UNCHANGED upper
  <2>1. PICK j \in Compatible : j \notin DOMAIN slotOf
    <3>1. DOMAIN slotOf # Compatible
      BY <1>8
    <3> QED BY <1>4, <3>1
  <2> DEFINE S == {i \in DOMAIN slotOf : i < j} \cup {j}
  <2>2. ~Matchable(slots, S) /\ S \in SUBSET Compatible
    BY <1>4, <2>1
  <2> HIDE DEF S
  <2>3. ~Matchable(slots, Compatible)
    BY <2>2, FewerMatchable
  <2>4. ~Placeable(request, Compatible, waves)
    BY <1>1, <1>6, <2>3, PlacesWaveSlots DEF Compatible
  <2>5. lower' - 1 = waves /\ lower' \in Nat /\ lower' # 0 /\ lower' <= upper'
    BY <1>1, <1>5, <1>8
  <2>6. BoundsEnclose'
    BY <1>1, <1>2, <1>5, <1>8, <2>4, <2>5 DEF BoundsEnclose
  <2> QED BY <1>1, <1>2, <1>3, <2>6 DEF CapacityInv
<1> QED BY <1>7, <1>8

(* Every step keeps what the forecast rests on. *)
LEMMA CapacityKeeps == CapacityInv /\ [CapacityNext]_capacityVars => CapacityInv'
<1> SUFFICES ASSUME CapacityInv, [CapacityNext]_capacityVars PROVE CapacityInv'
  OBVIOUS
<1>1. CASE AskCapacity
  BY <1>1, AskKeeps
<1>2. CASE NextRoot \/ NextJob \/ VisitSlot \/ FlipEdge
  <2>1. UNCHANGED afterMatching /\ Matching
    BY <1>2 DEF NextRoot, NextJob, VisitSlot, FlipEdge
  <2>2. request \in CapacityQueries /\ MatchingInv /\ step \in {"wave", "count"}
    BY <2>1 DEF CapacityInv, Matching
  <2>3. MatchingInv'
    BY <1>2, <2>1, <2>2, NextRootKeeps, NextJobKeeps, VisitSlotKeeps, FlipEdgeKeeps
  <2>4. step = "count" => FirstWaveGood' /\ BoundsEnclose'
    BY <2>1 DEF CapacityInv, FirstWaveGood, BoundsEnclose, afterMatching, Compatible
  <2> QED BY <2>1, <2>2, <2>3, <2>4 DEF CapacityInv, afterMatching
<1>3. CASE TakeFirstWave
  BY <1>3, TakeFirstWaveKeeps
<1>4. CASE TryWaves
  BY <1>4, TryWavesKeeps
<1>5. CASE Halve
  BY <1>5, HalveKeeps
<1>6. CASE ReportCapacity
  <2>1. FirstWaveGood /\ BoundsEnclose /\ step' = "done"
    BY <1>6 DEF ReportCapacity, CapacityInv
  <2>2. FirstWaveGood' /\ BoundsEnclose'
    BY <1>6, <2>1 DEF ReportCapacity, FirstWaveGood, BoundsEnclose, Compatible
  <2>3. lower' = upper'
    BY <1>6, <2>1 DEF ReportCapacity, BoundsEnclose
  <2> QED BY <1>6, <2>1, <2>2, <2>3 DEF ReportCapacity, CapacityInv
<1>7. CASE ReturnCapacity
  BY <1>7 DEF ReturnCapacity, CapacityInv
<1>8. CASE UNCHANGED capacityVars
  <2>1. MatchingInv => MatchingInv'
    <3> USE <1>8 DEF capacityVars, matching
    <3>1. Compatible' = Compatible /\ AllSlots' = AllSlots
      BY DEF Compatible, AllSlots
    <3>2. SlotsGiven => SlotsGiven'
      BY <3>1 DEF SlotsGiven
    <3>3. RootsInOrder /\ SlotsInverse => RootsInOrder' /\ SlotsInverse'
      BY <3>1 DEF RootsInOrder, SlotsInverse
    <3>4. SearchTree /\ SearchCovers => SearchTree' /\ SearchCovers'
      BY <3>1 DEF SearchTree, SearchCovers
    <3>5. StuckForReason => StuckForReason'
      BY <3>1 DEF StuckForReason
    <3> QED BY <3>2, <3>3, <3>4, <3>5 DEF MatchingInv
  <2>2. FirstWaveGood /\ BoundsEnclose => FirstWaveGood' /\ BoundsEnclose'
    BY <1>8 DEF capacityVars, FirstWaveGood, BoundsEnclose, Compatible
  <2> QED BY <1>8, <2>1, <2>2 DEF capacityVars, CapacityInv
<1> QED BY <1>1, <1>2, <1>3, <1>4, <1>5, <1>6, <1>7, <1>8 DEF CapacityNext

(* The forecast of a finished call. *)
LEMMA ForecastOptimal == CapacityInv => CapacityOptimal
<1> SUFFICES ASSUME CapacityInv, step = "done" PROVE FirstWaveByPriority /\ WavesMinimal
  BY DEF CapacityOptimal
<1>1. /\ request \in CapacityQueries /\ FirstWaveGood /\ BoundsEnclose /\ lower = upper
      /\ forecast = CapacityForecast(request, assigned, lower)
  BY DEF CapacityInv
<1>2. /\ forecast.assigned = assigned /\ forecast.waves = lower
      /\ forecast.state = [j \in 1..Len(request.eligible) |->
                             IF j \notin Compatible THEN "blocked"
                             ELSE IF j \in DOMAIN assigned THEN "first_wave" ELSE "deferred"]
  BY <1>1 DEF CapacityForecast, Compatible
<1>3. Compatible \subseteq 1..Len(request.eligible)
  BY DEF Compatible, CompatibleIn
<1>4. FirstWave = DOMAIN assigned
  BY <1>1, <1>2, <1>3 DEF FirstWave, FirstWaveGood
<1>5. FirstWaveByPriority
  BY <1>1, <1>2, <1>4 DEF FirstWaveByPriority, FirstWaveGood
<1>6. /\ lower \in Nat /\ Placeable(request, Compatible, lower)
      /\ lower > 0 => ~Placeable(request, Compatible, lower - 1)
  BY <1>1 DEF BoundsEnclose
<1>7. ASSUME FirstWave = Compatible PROVE lower <= 1
  <2> SUFFICES ASSUME lower > 1 PROVE FALSE
    BY <1>6
  <2>1. Compatible \in SUBSET CompatibleIn(request)
    BY DEF Compatible
  <2>2. Placeable(request, Compatible, 1)
    BY <1>1, <1>4, <1>7, <2>1, OneJobEach DEF FirstWaveGood
  <2>3. lower - 1 \in Nat /\ 1 <= lower - 1
    BY <1>6
  <2>4. Placeable(request, Compatible, lower - 1)
    BY <1>1, <2>1, <2>2, <2>3, PlaceableEasier
  <2> QED BY <1>6, <2>4
<1>8. ASSUME lower <= 1 PROVE FirstWave = Compatible
  <2> SUFFICES ASSUME NEW j \in Compatible \ DOMAIN assigned PROVE FALSE
    BY <1>1, <1>4 DEF FirstWaveGood
  <2> DEFINE S == {i \in DOMAIN assigned : i < j} \cup {j}
  <2>1. S \in SUBSET Compatible /\ ~Placeable(request, S, 1)
    BY <1>1 DEF FirstWaveGood
  <2> HIDE DEF S
  <2>2. Compatible \in SUBSET CompatibleIn(request)
    BY DEF Compatible
  <2>3. Placeable(request, S, 1)
    BY <1>1, <1>6, <1>8, <2>1, <2>2, PlaceableEasier
  <2> QED BY <2>1, <2>3
<1>9. WavesMinimal
  BY <1>2, <1>6, <1>7, <1>8 DEF WavesMinimal
<1> QED BY <1>5, <1>9

(* A forecast by itself is optimal. *)
LEMMA CallsOptimal == CapacitySpec => []CapacityOptimal
<1>1. Unasked => CapacityInv
  BY DEF Unasked, CapacityInv
<1> QED BY <1>1, CapacityKeeps, ForecastOptimal, PTL DEF CapacitySpec

(* Next to the transactions and the other queries it runs as by itself. *)
LEMMA CallsAlone == FleetSpec => CapacitySpec
<1>1. FleetInit => Unasked
  BY DEF FleetInit
<1>2. [FleetNext]_fleetVars => [CapacityNext]_capacityVars
  BY DEF FleetNext, RollupStep, QuestionStep, CapacityStep, fleetVars
<1> QED BY <1>1, <1>2, PTL DEF FleetSpec, FleetNext, fleetVars, CapacitySpec

(* For every queue and every pool of workers: the first wave of a capacity  *)
(* forecast is an assignment of jobs to workers of their own that no        *)
(* deferred job could have joined without displacing a job before it, and   *)
(* no schedule clears the queue in fewer waves than the forecast names.     *)
THEOREM CapacitiesOptimal == FleetSpec => []CapacityOptimal
BY CallsOptimal, CallsAlone, PTL
=============================================================================
