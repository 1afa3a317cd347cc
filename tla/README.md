# A TLA+ verification project for the Agent Evaluation Control Plane

This directory models the stateful core of `src/aecontrol`: the PostgreSQL-backed job queue with its
workers and tenant quotas, the hash-chained evidence ledger with its checkpoints, audit, publication
and offline recovery verification, the tenant registry with its API keys, the guardrail versions, the
fleet rollups with the schema migration that rebuilds them, one evaluation run with its sandbox, the
Kubernetes sandbox, the recovery drills and the controlled promotion; and, as algorithms against
reference definitions, the placement diagnostic, the GPU forecasts, the run comparison and the release
gate. TLC checks the models on small instances; TLAPS proves every safety property of the passing runs
for every value of the parameters (section 5). Source positions below are relative to the repository root.

## 1. Inventory

All durable state is in PostgreSQL (`src/aecontrol/store.py`, class `ArtifactStore`). API replicas,
workers, the CLI and scheduled publishers are separate processes that share nothing else, so the
hard behaviours are transactions of several statements that interleave at READ COMMITTED, processes
that die between two calls, and leases that are judged against a clock.

| Component | State | Operations | What is hard | What makes it correct |
| --- | --- | --- | --- | --- |
| Job queue (`store.py`, `api.py`) | `evaluation_jobs` | enqueue, lease, renew, complete, fail, cancel | late acknowledgements, lapsed and revived leases, lost replies | row columns agree; completed job links its last run; life cycle; nobody steals a live lease |
| Worker (`jobs.py`, `cli.py`) | `run_once` position, heartbeat task | lease, evaluate, save, acknowledge, renew | crash between save and acknowledge, heartbeat that dies, reused worker id | of finitely many jobs each is served, abandoned attempts are retried |
| Tenant quotas (`store.py`, `tenants.py`) | `tenant_quotas`, advisory lock | set policy, check at submission and at lease | check-then-act over several replicas, frozen `now()` | limits hold at every claim and submission |
| Artifact ledger (`store.py`, `integrity.py`) | evidence tables, `artifact_ledger` | save run, comparison, guardrail evidence; backfill; audit | two appenders, retries with other signatures, audit over several snapshots | one chain, evidence and ledger agree, evidence is immutable, no false alarm |
| Ledger checkpoints (`store.py`) | `ledger_checkpoints` | sign or reuse, audit | head moves while it is signed, two publishers | every checkpoint verifies for ever; one fresh envelope per head |
| Checkpoint publication (`checkpoints.py`) | S3 or file objects | publish, read back, replicate | partial replication, torn or unsynced file, lost reply | a receipt names copies that exist |
| Tenant registry and keys (`store.py`, `auth.py`) | `control_plane_tenants`, `tenant_api_keys` | create, suspend, issue, revoke, authenticate | authentication precedes the transaction, two rotations race | an admin key always remains; suspension is respected |
| Guardrail configurations (`store.py`, `guardrails.py`) | versions, activations | register, activate, check, report efficacy | commit order against sequence order; a check awaits the server between reading the version and saving | activations keep their order; evidence names the activation in force when its check began; every record is counted once |
| Fleet rollups (`store.py`, `fleet.py`) | rollup tables kept by triggers | every job and worker write, platform report | a rebuild while others write | rollup = aggregate of the rows; flags = refusals; totals miss nobody |
| Store lifecycle and schema (`store.py`, `database.py`) | pool, schema version | initialize, close, migrate | replicas start at once, lock order against running transactions, timeouts | nobody serves before the upgrade |
| Recovery verifier and drill (`recovery.py`, `recovery_drill.py`) | a restored cluster | restore, verify, archive, prune | lagging or damaged copies; crash, timeout or lost reply between calls | a faithful copy is accepted, a damaged one is not; a drill passes only with a valid archived report |
| Cluster promotion (`promotion.py`) | a CloudNativePG cluster | preflight, patch, wait | concurrent operator, timeout that loses a success | only a cluster that passed preflight is patched |
| Kubernetes and local sandboxes (`kubernetes_sandbox.py`, `sandbox.py`) | a Job and its pods | create, watch, logs, delete | partial failure, leftover objects | everything created is deleted |
| Evaluation engine, runtime, local sandbox, evaluators (`engine.py`, `runtime.py`, `sandbox.py`, `evaluators.py`) | tasks of one run | start, finish, raise, gather | one task of several fails; what a test leaves behind | a returned run is complete and sound; every task ends |
| Placement, capacity, demand, comparison, gate | none (pure) | computations | boundary values, missing data | agreement with a reference definition |
| Runtime adapters, signing backends, telemetry, SDK | none of their own | I/O | external services | not modelled |

How they interact: API handlers and workers call `ArtifactStore` methods, each of which is one
transaction (two for reads that follow a write). A worker's `save_run` appends to the ledger before
`complete_job` links the run. Submissions, claims and policy changes of one tenant meet on the
`resource-quota` advisory lock, saves and checkpoints on the `artifact-ledger` advisory lock,
key rotations on the tenant row (`FOR UPDATE`). Row-level security confines every statement to one
tenant, so each model is of one tenant, except `FleetRollups`: the platform report crosses tenants.

## 2. Modules

| Module | Models | State and actions |
| --- | --- | --- |
| `JobQueue` | queue, quotas, workers | one function per column of `evaluation_jobs` (`status`, `attempts`, `owner`, `lease`, `started`, `error`, `result`), the quota row and lock, one `pc` and heartbeat per worker. A transaction with a check and a write is two actions (`CheckSubmission`/`InsertJob`, `CheckUsage`/`Claim`) with the lock between them; a single UPDATE is one action (`CancelJob`, `CompleteJob`, `FailJob`, `Heartbeat`, `SetTenantQuota`). `Evaluate`, `SaveRun`, `Unwind` are the steps of `run_once`; `LeaseLapses`, `LeavesWindow`, `Crash`, `Restart` the environment. |
| `JobLifecycle` | the promise to clients | the state diagram of `docs/distributed-execution.md` with the attempt budget and the linked run |
| `LedgerAudit` | digests and the two audit checks | pure operators; SHA-256 is an injective tuple |
| `ArtifactLedger` | evidence, ledger, checkpoints, audit | committed rows and ledger, one transaction per process (`SaveRun`, `SaveComparison`, `SaveGuardrailEvidence`, `ReadHead`, `AppendEntry`, `SaveAgain`, `Rollback`, `LockHead`, `SignCheckpoint`), the schema transaction (`Backfill`, `CommitSchema`), and one action per SELECT of the audit |
| `TenantKeys` | registry and API keys | tenant status, key states, the row lock; a request is `Authenticate`, then `LockToIssue`/`InsertKey` or `LockToRevoke`/`UpdateKey`, or `Abandon` |
| `CheckpointPublication` | S3, replicated and file sinks | objects per destination and a file per checkpoint, one attempt per publisher: `NewCheckpoint` or `ReuseCheckpoint`, then `PutObject` and `VerifyCopy` per destination and `Report`, or `OpenFile`, `WriteFile` (write and flush) and `SyncFile`; calls fail with or without an effect, and `HostFails` takes away what was not synced |
| `KubernetesSandbox` | `run_test` of the Job executor | the three objects of a run, the status of Job and pod, one action per API call; `Cluster` is the Job controller and the kubelet |
| `RecoveryVerifier` | `recovery.py` | pure operators: the report on a restored database and published envelopes; `ArtifactLedger` applies it to copies of its reachable states |
| `Guardrails` | configuration versions, activations, checks | rows in commit order and the BIGSERIAL; `Register`; `AskServer`, `InsertActivation`, `CommitActivation`; `StartCheck`, `SaveEvidence`; `Abandon`; `Metrics` is the efficacy report |
| `FleetRollups` | rollups, report, store start | job and worker tables, rollup tables, open client transactions with their locks, the state of each replica's store and the schema transaction's locks (`Initialize`, `TakeMigrationLock`, `LockTable`, `CommitSchema`, `InitializeFails`, `Close`, `Restart`) |
| `Placement` | `diagnose_placement`; the WHERE clause of `lease_job` | pure operators, one translated from Python, one from SQL |
| `GpuCapacity` | `forecast_gpu_capacity` | the local variables of `_maximum_matching` and of `_minimum_clearance_waves`; one action per iteration of each loop: `NextRoot`, `NextJob`, `VisitSlot`, `FlipEdge`; `TryWaves`, `Halve`; the call is `AskCapacity`, `TakeFirstWave`, `ReportCapacity`, `ReturnCapacity` |
| `GpuDemand` | `forecast_gpu_demand` and its query | pure operators: the whole hours of the history, their slot of the week, the submissions in them |
| `FleetQueries` | the fleet and what operators ask about it | composes `FleetRollups`, `Placement`, `GpuCapacity` and `GpuDemand`: a question is asked while the transactions rest (`QuestionStep`, `CapacityStep`), otherwise they move (`RollupStep`) |
| `Evaluation` | one `EvaluationEngine.run` | the stage of every case under the semaphore: `LoadFails`, `StartCase`, `FinishCase`, `RaiseCase`, `CancelTasks`, `Gather`; `RunTest`, `SandboxRun`, `Execute` and `Passes` say what a case amounts to |
| `Comparison` | `compare_runs`, `evaluate_gate` | pure operators over fractions; `Exceeds` is the comparison of a float with a limit |
| `RecoveryDrill` | the drill orchestrator and its verifier Job | labelled clusters in creation order, their phase, verifier Job and archived report; one action per call, `VerifyDatabase`, `PutReport`, `HeadReport` and `JobFails` in the Job, `Stops` for every way a drill ends early; deletions are requested and end later (`ClusterChanges`, `JobRemoved`) |
| `Promotion` | the promotion orchestrator | the `Cluster` object's relevant fields and which runs hold its current `resourceVersion`; `LoadToken`, `Preflight`, `PatchCluster`, `PollCluster`, `Stops`, and the operator's and engineers' steps |
| `MC...` | instances for TLC | constant values and symmetry sets; `MCTenantServices`, `MCOperations` and `MCEvaluation` put components side by side (section 3), as `FleetQueries` does for `MCFleet` |
| `JobQueueProofs`, `ArtifactLedgerProofs`, `TenantServicesProofs`, `FleetProofs`, `CheckpointPublicationProofs`, `KubernetesSandboxProofs`, `OperationsProofs`, `EvaluationProofs` | theorems and their proofs | see section 5 |

Abstractions of `JobQueue`. Time is what the code compares it with: a lease is live or lapsed, a job
is or is not inside the rolling hour. Leases may lapse in any order because workers choose their own
`--lease-seconds`. `now()` is frozen when a transaction starts, before it waits for the advisory lock:
`CheckUsage` may therefore count any set between the live leases and all running rows, and `Claim`
may miss rows that lapsed since. Placement, `SKIP LOCKED` and that frozen clock together make the set
`visible` that `Claim` works on arbitrary. `started`, `error` and `result` hold the number of the
attempt they belong to instead of a time, a message or a run id. A tenant without a quota row is one
whose four limits are NULL. Submissions are open side by side (`submitting` is a set) and only the lock
keeps one from counting while another inserts. The set of jobs is finite and each is submitted once, so
`QueuedJobServed` is about finitely many submissions. The worker registry is not in the state: nothing but placement and the
fleet report read it, and `FleetRollups` has it.

Abstractions of `ArtifactLedger`. An envelope stands for digest, algorithm, key id and signature; two
saves of one artifact agree iff their envelopes do. The audit's digest and signature checks of single
rows are left out. The schema transaction holds exclusive table locks, so its appends are not
interleaved with others; a later start finds every artifact recorded and changes nothing.

Abstractions of the Kubernetes and S3 models. A call that fails may have taken effect; a request is
not executed after its failure was reported. Manifests are opaque. A destination in `Lax` accepts a
PUT but does not keep the object under COMPLIANCE retention, which only the read-back notices. A pod
of the sandbox is waiting, stuck on an image or configuration error, running, exited, killed (its
container reports a non-zero exit code), evicted without an exit code, or gone; Jobs have no retries,
so there is one pod. A checkpoint file is absent, torn, written (every byte can be read) or synced; a
failure of the host may take a written one away. The directory entry is taken to be on disk with the
synced file: the code does not sync the directory, which ext4 and XFS make up for. A drill's name may be reused once nothing of it is
left, which makes the number of drills unbounded. A `resourceVersion` is abstracted to whether it is
still the current one, and every write of the `Cluster`, status updates included, makes it stale.
Each promotion run has a token of its own, as `docs/cross-region-recovery.md:109` requires ("Never
reuse a token"): with a reused one `status.lastPromotionToken` proves nothing.

Abstractions of `RecoveryVerifier` and `Guardrails`. A restored copy is a prefix of ledger and
checkpoints of a reachable state, usable or not; a damaged one has a row or entry changed or removed,
or a ledger rebuilt over other evidence. The `before` field of an activation or a check is
history: what was committed when its request began.

Abstractions of `FleetRollups`. Only what the rollups repeat is in a job row: status, creation time,
lease; who may claim is `JobQueue`'s matter. The four groups of tables are locked in the order in which
the schema transaction meets them. Client transactions are one statement and its trigger, and for
`complete_job` the foreign-key check that follows; the deadlock detector and `lock_timeout` may abort
either side at any point. The model starts from an older deployment that still serves without
triggers, because that is when the rebuild is hard.

Abstractions of `Evaluation` and `Comparison`. A test is its exit status, whether it printed anything
and whether it outlived the timeout; an output is `"ok"` or other text, which is all any evaluator
looks at. Between the model's answer and the end of a case nothing awaits, so `FinishCase` is one
step. An exit status of 1 stands for every non-zero one, that of a test killed at its CPU or memory limit
included. `asyncio.run` of the CLI cancels what a failed run leaves (`CancelTasks`); the loop of a polling
worker does not. Rates are fractions where the code has floats. Rounding matters only next to a limit: `Exceeds`
lets a comparison of two fractions less than `1/Resolution` apart come out either way. So 8 of 10 cases
falling to 7 of 10 under a limit of 0.1 blocks in the code (`0.7 - 0.8 < -0.1` in binary64) and may block
in the model. What rounds to nearest keeps its order, so two cases stay exact: the aggregate delta, one
division, does not exceed a limit it only meets, and a limit of zero compares the two rates themselves.
The instance has `Resolution = 1000`, which separates all its fractions that differ; binary64 justifies any
value up to 2^50, and the theorem is for all.
Reports keep no bootstrap interval, which decides nothing.

## 3. Runs

| Run | Bounds | Shows |
| --- | --- | --- |
| `queue` | 2 CUDA jobs with 1 and 2 attempts, submitted at once or in turn, 2 workers, 1 crash, two policies that an operator switches | `RowConsistent`, `CompletedLinksLastRun`, `LiveLeaseNotStolen`, `ImplementsLifecycle`, `ClaimsWithinQuota`, `AdmissionsWithinQuota` |
| `queue_liveness` | 2 CUDA jobs, 1 worker, 1 and 2 attempts, 1 crash, limits of one, `FairSpec` | `QueuedJobServed`, `AbandonedJobRecovered` |
| `queue_stuck` | as before | `EveryAttemptEnds` is violated (finding 1) |
| `queue_overlap` | 2 jobs, 2 workers, one fixed policy | `ActiveWithinQuota` is violated (finding 2) |
| `ledger` | 3 artifacts, one per table, 2 envelopes, 2 processes, 2 checkpoints, one audit at a time, a verifier's limit of 2 entries | `ChainIntact`, `EvidenceRecorded`, `CheckpointsAnchored`, `FreshCheckpointUnique`, `NoFalseAlarm`, `EvidenceImmutable`; in every quiet state `RestoreJudged` (`FaithfulAccepted` and `DamageDetected`) over all prefixes and damaged copies, with ledgers on both sides of the limit |
| `tenant_services` | 4 keys (3 admin), 3 requests; 2 versions, 2 bundles, 2 requests, 3 activations, 2 checks | `AdminRemains`, `NoKeyWhileSuspended`; `EvidenceSound` (`EvidenceBound` and `EfficacyAddsUp`), `ActivationOrder` |
| `checkpoint_publication` | 3 destinations, one that does not retain, 2 required copies, 3 publishers, 2 checkpoints; or a directory (`OneSinkSpec`: the two share only the envelopes) | `ReceiptSound` (`CopiesRetained` and `FilesComplete`), `CleanAttemptCompletes` |
| `sandbox` | 1 run (runs share nothing), `FairSpec` | `IsolatedUntilCleanedUp`, `NothingLeftBehind`, `VerdictExplained`, `RunEnds` |
| `operations` | 3 drill names, limit 2, one drill at a time; 4 promotion runs and tokens, one token of another system, one rejected by policy | `LeftoversBounded` (`RetainedBounded` and `JobHasCluster`), `PassedMeansVerified`; `PatchesEligibleOnly`, `TokenAcceptable`, `SuccessMeansPromoted` |
| `fleet` | 2 jobs and a worker of 2 tenants, one unregistered, 2 clients, 2 replicas, 3 moments; every job of 32 requirement sets on workers with up to 2 of 72 kinds of GPU; 4 queued jobs, each on any of 3 workers, every iteration of the search; 2 submissions over 15 half-hours | `RollupsExact`, `ReportTruthful` (`SaturationTruthful` and `TotalsComplete`), `ServesUpgradedSchema`; `DiagnosisMatchesClaim`; `CapacityOptimal` (`FirstWaveByPriority` and `WavesMinimal`); `DemandFromWholeHours` |
| `evaluation` | 3 cases, 2 slots, 20 ways a case may end, with fairness; baselines of up to 2 and candidates of up to 3 results over 3 case ids, 18 policies, each with roundings at its limits | `ReturnedRunSound`, `CasesSettle`; `ReleaseDecided` (`ComparisonAddsUp` and `GateDecides`) |
| `evaluation_credit` | as before | `CreditEarned` is violated (finding 3) |

`TypeOK` of the queue bounds attempts by their budget and is checked and proved; the typing of the
other modules is part of the inductive invariants of section 5. No other run spends its time on it.

Components that share no state are explored side by side in one run: from the initial state of one
the other moves, never both, so the run has the sum of their states and every behaviour of each. The
pure algorithms are asked their questions in the same way, from the initial state of the component
they are checked next to.

Why the bounds are enough. Rows of the queue interact only through the quota and the order of
claims: a job with two attempts and two workers has every interleaving of lapse, reclaim, late
acknowledgement, cancellation and restart, and two jobs with limits of one put every quota at its
boundary. Two attempts suffice for liveness because the only distinction is whether budget is left.
Three artifacts give a chain with a middle, two processes every race for its head, two checkpoints
a reuse and a second head. Three admin keys allow a legal revocation after which two requests race
for the last two. Three destinations with two required copies allow a receipt with and without a
failure; three drill names hold two
retained clusters, one of them perhaps being deleted, and a new one, so a prune has one victim here and any
number in the theorem; three publishers are a writer, one who finds its file and a third; two good tokens
let one run promote, be demoted and another promote. Two activation requests overlap or not, and three
numbers leave one for a rollback to lose. Two clients and a migration are enough for every order of
write, commit, lock and rebuild on one row and across two; three moments let a lease lapse, an hour
and a worker's window pass. Four jobs on three workers need an augmenting path of full length and
more than one wave; with two ticks to the hour a history may begin and end within one. A limit of two entries makes the
third checkpointed artifact one too many for the verifier. Three cases
with two slots make one wait for the semaphore while another raises. `MaxCrashes`, `MaxCheckpoints`,
`MaxActivations`, `MaxEvidence` and `MaxTime` are the only bounds on behaviour; the proofs of section 5
hold for every value of them.

Deadlock is checked in every run but those of the sandbox and of the evaluation, where one call of
`run_test` or of `run` ends and then nothing more happens. Workers are interchangeable and so are
processes, envelopes, requests, admin keys, versions, bundles, publishers and drills: they are
declared symmetric in safety runs and never in liveness runs.

Fairness (`FairSpec`). Weak fairness on the steps of `run_once`: the process runs, the engine and its
adapters return or raise. Weak fairness on `Restart`: the worker Deployment restarts its container.
Weak fairness on the end of an open submission: PostgreSQL commits it or rolls it back. Weak fairness
on the lapse of a lease that no heartbeat renews: time passes. Strong fairness on `CheckUsage` and on
`Claim` with every row visible: `run_forever` polls for ever, advisory locks are granted in queue
order, and of infinitely many polls some start after a lapse and find the rows unlocked by others.
Nothing is assumed of clients, operators, heartbeats or crashes; clients submit finitely many jobs. In `KubernetesSandbox!FairSpec` every
API call returns or raises (weak fairness on the run's steps) and the deadline of the polling loop,
compared before each poll, passes (strong fairness); nothing is assumed of the cluster. In
`Evaluation` the event loop runs every task that is ready (weak fairness on `StartCase` and `Gather`),
and a started case finishes or raises, because the model clients and the executors have timeouts;
that this also settles the cases of a run that was given up is the point of `CasesSettle`, so nothing is
assumed of `CancelTasks`.

## 4. Findings

1. `queue_stuck`. `lease_job` requires `attempts < max_attempts` (`src/aecontrol/store.py:2375`) also
   of rows whose lease lapsed, and no other statement ends such a row. A worker that disappears on
   the last attempt leaves the job `running` for ever, although `docs/distributed-execution.md:37`
   says another worker can reclaim it and the diagram ends it in `failed`. Such a job consumes no
   quota (its lease is not live), and an operator may cancel it.
2. `queue_overlap`. `renew_job_lease` (`src/aecontrol/store.py:2477`) looks neither at the expiry nor
   at the tenant lock, so a heartbeat that was delayed past the expiry revives a lease which
   `lease_job` no longer counted, while `docs/architecture.md:36` says the lock preserves the total
   execution limit. `ClaimsWithinQuota` is what does hold: leases granted by claims stay within it.

3. `evaluation_credit`. The test executors replace an empty output by `ok` whatever the exit status
   (`src/aecontrol/sandbox.py:142` and `:222`, `src/aecontrol/kubernetes_sandbox.py:157`), and
   `HiddenTestSuccess` (`src/aecontrol/evaluators.py:25`) compares the output with `ok`. A hidden test
   that fails without a word, such as one killed at its CPU limit, is credited, and the comparison and
   the gate go by that credit, although `docs/evaluation-methodology.md:4` calls hidden tests
   release-quality evidence. `ReturnedRunSound` is what does hold: a credited test was started and
   not stopped at its timeout, and the status of the case is right.

Not findings, but worth knowing. `lease_job` orders by `priority DESC, created_at` and a job does not
age: as long as clients keep submitting jobs of a higher priority faster than workers take them, one of
a lower priority is never claimed. `job_outcome` (`src/aecontrol/kubernetes_sandbox.py:134`) looks at
`DeadlineExceeded` before it looks at the pod, and at the exit code before the reason of the
termination: a pod that waited for its image until the Job's deadline, and a container that was killed
from outside, are failed tests of the candidate, where `docs/kata-sandbox.md:82` counts image failures and
invalid pod states among the infrastructure errors. `VerdictExplained` is what holds. `_cleanup` of the sandbox (`src/aecontrol/kubernetes_sandbox.py:410`)
goes on after an error of `delete_job`, so the NetworkPolicy may be deleted while the pod still exists;
`docs/kata-sandbox.md:87` describes the case without errors, and the evaluation fails as that page
says. `IsolatedUntilCleanedUp` is what holds. A torn file of `FileCheckpointSink` makes every later
publication of that envelope fail; the next envelope, after five minutes or with a new head, has
another name. A publisher that finds a file with the bytes of its envelope reports it as published
without a sync of its own (`src/aecontrol/checkpoints.py:156`): if the writer has flushed and not yet
synced, and the host fails then, the reported file is gone. `FilesComplete` tells the two reports apart.
In `_verify_checkpoint` a query that raises leaves the transaction aborted, so with a
second checkpoint to verify there is no report but an error. Two overlapping activations may commit
in the other order than their numbers, and then the one that returned last is not the active one;
`ActivationOrder` is about those that do not overlap. `date_trunc` in `gpu_demand_forecast` works in
the session's time zone, `_floor_hour` in UTC. `_prune_failed_drills` (`src/aecontrol/recovery_drill.py:354`) and
`create_cluster` are separate calls, and `concurrencyPolicy: Forbid` does not cover the manual Job of
`docs/recovery-verification.md:101`. With `MaxOverlap = 2` TLC finds two overlapping drills that leave
three clusters, where line 84 of that page says two; an overlapping prune may also delete the cluster
of a drill that still runs, because it looks at the label and not at the outcome. A cluster whose deletion was requested stays listed until its
finalizers are done and counts against `max_failed_drills`, so a drill shortly after a successful one
may prune a failed cluster it could have kept. A worker that dies inside `run_test` leaves the
ConfigMap and the NetworkPolicy behind; only the Job has a TTL. A promotion that outlasts
`timeout_seconds` may complete later; a repeated run then stops in the preflight. `fail_job` requeues without the queued-jobs check; the limit is
documented at submission only, so `AdmissionsWithinQuota` counts jobs that wait for their first
attempt. `complete_job` and `fail_job` do not look at the expiry either: an attempt whose lease lapsed
and was not reclaimed may still be acknowledged. A checkpoint request for a longer retention within
five minutes of another for the same head is answered with the shorter one. A starting
replica's schema transaction locks `ledger_checkpoints` (`src/aecontrol/store.py:384`) before
`artifact_ledger`, and `create_ledger_checkpoint` uses the two the other way round, so PostgreSQL may
have to abort one of them; `FleetRollups` models the same kind of cycle on the job tables.
`initialize` (`src/aecontrol/store.py:147`) looks at `_closed` before it waits for its lock, so a
caller may go on to a store that was closed meanwhile; a closed pool does not reopen, and it fails.

## 5. Proofs

Every theorem holds for every value of the constants that satisfies the named assumptions of the
component's module, which TLC evaluates in the runs:

| Assumption | Says |
| --- | --- |
| `JobQueue!ConstantsAssumption` | finitely many jobs; `NoJob` and `NoWorker` are no job and no worker; budgets are at least one; policies are records of integers |
| `ArtifactLedger!ConstantsAssumption` | the null values are no artifact, envelope or process; each artifact belongs to one of the three tables |
| `TenantKeys!ConstantsAssumption` | which keys are admin keys; the null values are none of the others |
| `FleetRollups!FleetAssumption` | finitely many jobs, worker ids and registered tenants; each request thread belongs to a replica; capabilities have a natural number of GPUs; `NoReplica` and `NoRow` are none of the others |
| `FleetQueries!QueriesAssumption` | the types of a placement question (natural or integer numbers, or `Null`, which is no number and no string) and of a demand question (integer times) |
| `GpuCapacity!CapacityAssumption` | a queue is a sequence of finite sequences of workers; `NoSlot` is no worker and no wave slot |
| `GpuDemand!DemandAssumption` | an hour has a tick, a week an hour, and the lookback is positive |
| `CheckpointPublication!ConstantsAssumption` | a finite sequence of distinct destinations, of which the required number is at least one |
| `Promotion!ConstantsAssumption` | each run has a token; `NoToken` is none |
| `Comparison!ResolutionAssumption` | `Resolution` is a positive natural number |
| `Evaluation!SuiteAssumption` | trials are of the modelled kinds; `Concurrency` is in 1..32 as `EvaluationEngine` requires |
| `RecoveryVerifier!LimitAssumption` | the verifier's limit is at least one and at most 1000000, the range its settings accept |

Few of the safety properties are inductive as they stand. TLC checked the larger inductive invariants
(`SafeInv`, `LedgerInv`, `PublicationInv`, `SandboxInv`, `AloneInv`, `CapacityInv`) on the instances of section 3 before
they were proved.

**Queue** (`JobQueueProofs`): `TypeCorrect` (`TypeOK` with the attempt budget), `RowsConsistent`,
`CompletionLinksLastRun`, `LeasesExclusive` and the refinement `QueueImplementsLifecycle`. `SafeInv`
adds

- `WorkerBusy`: a worker between claim and unwinding has a job;
- `AttemptFenced`: if the row of a job names a worker that works on that job, the attempt in
  the worker's hands is the row's attempt. This is what makes the worker id a sufficient fence: a
  worker claims only when idle, so its old attempt is over before it can own the row again;
- `RunSavedFirst`: a worker about to complete has saved the run of its attempt;
- `SubmissionNew`: the jobs of open submissions are not in the table.

The refinement theorem uses `SafeInv` to show that `CompleteJob` links the last attempt and that
`FailJob` requeues or fails according to the budget; every other step is a life-cycle step of one job
or leaves the abstract variables alone.

**Quotas** (`JobQueueProofs`): `QuotaBoundsClaims` and `QuotaBoundsAdmissions`, for every policy set.
`QuotaInv` adds `LockOwner` (only the transaction between its two statements holds the lock),
`ClaimHeadroom` and `SubmissionHeadroom` (what the first statement counted is still an upper bound).
The argument is monotonicity (`HeadroomKept`): while the lock is held every other step only removes
jobs from the sets that are counted, except renewals, whose jobs are in `revived` and not in `Granted`.

**Ledger** (`ArtifactLedgerProofs`): `ChainIsIntact`, `EvidenceIsRecorded`, `CheckpointsStayAnchored`,
`FreshCheckpointsUnique`, `AuditNeverAlarms` and `EvidenceNeverChanges`. `LedgerInv` adds
`OpenTransactions` (the head that a transaction read under the advisory lock is still the head, its
artifact is not yet recorded, and a publisher about to sign has seen no fresh checkpoint of that head)
and `AuditCurrent` (what an open audit has read is a prefix of the ledger; for each entry of it whose
table was read later the row was there; checkpoints it read are anchored). That is why SELECTs of
different moments raise no alarm: the ledger is read first and only grows. `AcceptanceIsProof` is about
the recovery verifier: whatever a database holds, if `verify` accepts it on a checkpoint of a reachable
ledger, its rows up to there are the ledger's and its evidence is the recorded evidence, verified by
the keyring. Its hypothesis is that the query returns a sequence of rows. The hash of an entry contains
the previous hash, so equal heads force equal rows from the end downwards; that induction is made with
a least counterexample (`LeastNumber`), because induction rules with a predicate as parameter are
out of reach. `RestoresJudged` is the whole of `RestoreJudged`. That no damaged copy passes is
`AcceptanceIsProof`. That a faithful copy passes needs what the query returns from an intact chain: the
rows up to a checkpoint are its first entries (`FirstRows`), and a recount of their hashes is the chain
that `ChainIntact` describes. `Shaped` adds the shape of rows and checkpoints to `LedgerInv`. The proof
attempt found that acceptance has a condition: a checkpoint beyond `max_ledger_entries` is refused
however faithful the copy (`src/aecontrol/recovery.py`, `_verify_checkpoint`), which `FaithfulAccepted`
now says and the instance reaches.

**Tenant keys and guardrails** (`TenantServicesProofs`): `AdminAlwaysRemains` and
`NoKeyIssuedSuspended`; `KeysInv` adds `RowHeld` (a request between its SELECT FOR UPDATE and its write
holds the row, the tenant it saw active is active, and another active admin key is there).
`ActivationsOrdered` and `EvidenceIsSound`; `GuardrailsInv` adds `Numbered` (from its INSERT on an
activation has a number that was given out, above everything committed when it was asked for, and the
registered digest of its version) and `RequestsSound` (numbers of open requests are distinct and not
committed, and what a check holds is `InForce`: the last of the activations committed when it began, or
none if there were none). `CellsAddUp` is the efficacy report:
four disjoint cells whose union are the labelled checks, since every stored check has one of three
labels (`Labelled`).

**Rollups and report** (`FleetProofs`): `RollupsAreExact`, `ReplicasServeUpgraded` and
`FleetTypeCorrect`. `FleetInv` adds `FleetTyped` (tables hold rows, an open transaction is about to put
one), `TablesExclusive` (nobody has an open write to a table that the schema transaction has locked),
`WritesFire` (once the triggers are published every open write fires them) and `ReadyUpgraded` (a store
that serves is of the old deployment or its schema transaction committed): the triggers are published
at a moment without open writes, so none is missed and none counted twice. `ReportsTruthful` follows
from the exact rollups: what the report counts per tenant is what `_tenant_quota_usage` counts in the
tables (`UsageOfTenant`), so its flags are the refusals (`FlagsAreRefusals`), and sums over the
reported tenants are counts over all rows (`SumOfParts`, `TotalsMissNothing`), because a tenant with a
row is reported, registered or not. A sum over a set folds in an order nobody knows; `SumIs` says that
any function of sets that grows by f(x) when x is added is that sum, by a least set on which the two
differ. `QueriesOnlyRead` carries all of this over to the composition with the queries.

**Placement** (`FleetProofs`): `DiagnosesMatchClaims`. Case by case over missing numbers, the Python
test of a GPU and the SQL one agree (`SameGpuTest`), and a reason is given exactly when no GPU passes
(`NoGpuReason`).

**Capacity** (`FleetProofs`): `CapacitiesOptimal`, for any queue and any lists of eligible workers.
`MatchingInv` is the invariant of one call of `_maximum_matching`: `slot_to_job` and `job_to_slot` are
inverse except at the slot that is being handed over (`SlotsInverse`), the search tree reaches slots
through jobs and jobs through their slots (`SearchTree`), and what the search has not looked at is
still queued (`SearchCovers`). A search that ends without a free slot has therefore reached a set of
jobs whose slots all belong to the others of the set, one too few for everyone (`SlotsTooFew`, with the
pigeonhole theorem): the root could not have joined the matched jobs before it (`SearchFailed`), and
since augmenting only adds to the matched jobs that stays so (`StuckForReason`). A matching of wave
slots is the same as an assignment with at most that many jobs per worker (`WaveSlotsPlace`,
`PlacesWaveSlots`: the k-th job of a worker takes its wave k), so the bounds of the binary search
enclose the answer (`BoundsEnclose`). The result is about the forecast when there is one; that the
loops end is not claimed by a theorem.

**Demand** (`FleetProofs`): `DemandsFromWholeHours`, for any resolution of the clock and length of the
week. `HourFacts`, `HoursApart` and `HourWithin` are the arithmetic of rounding to hours: an hour begins
no earlier than a moment iff it begins no earlier than that moment rounded up, and ends by a moment iff
it begins before that moment rounded down, so the hours counted are the whole ones and a submission
belongs to exactly one.

**Publication** (`CheckpointPublicationProofs`): `ReceiptsAreSound` and `CleanAttemptsComplete`.
`PublicationInv` says of each attempt that the destinations before its index are divided into verified
copies and failures (`Accounted`), that a verified copy is stored at a destination that retains it
(`CopiesVerified`; objects are never deleted), and that without a failing call only a destination
without retention fails. For the directory `WritersAlone` says that O_EXCL leaves one writer to each
file, which finds it as it left it: only that writer makes it written and synced, and nothing but a
failing host takes bytes away.

**Sandbox** (`KubernetesSandboxProofs`): `CandidateIsIsolated`, `NothingIsLeftBehind` and
`VerdictsExplained`. `SandboxInv` follows the calls: the policy is confirmed before the Job is
requested (`CreationOrder`), the policy is there as long as the Job unless the cleanup collected an
error (`JobCovered`), what the cleanup passed without an error is gone (`CleanedUp`), and a verdict is
the exit code of the container or the deadline of the Job (`VerdictSound`).

**Promotion and drills** (`OperationsProofs`): `SuccessIsPromotion`, `TokensAccepted` and
`PatchesEligible`. `PromotionInv` adds `VersionFence` (a run that is about to patch under a current
`resourceVersion` still faces an eligible Cluster, because every write of the object ends the
freshness of all runs), `TokenLoaded` (a run past `LoadToken` has an accepted token) and
`LastPromoted` (the status names only promoted tokens). `PassedDrillsVerified` holds for any number of
overlapping drills: `ReportFirst` says that a Job succeeds, and a drill goes on to delete it, only with
its valid report archived. Deletions are requests; a Job is `JobRetained` while nobody has asked
for its deletion. `LeftoversAreBounded` has the hypothesis `MaxOverlap = 1`, the CronJob's
`concurrencyPolicy: Forbid`, because overlapping drills can each make room for one cluster and then
both create theirs; `AloneInv` says that the clusters that are not among the listed victims leave room
for one more from the listing to the creation. Both have `MaxFailed` at least one, as the
settings require.

**Runs, comparison and gate** (`EvaluationProofs`): `ReturnedRunsSound`, for any dataset, evaluators and
concurrency (a gathered run has only finished cases; a status and a credit depend on the trial alone).
`ReleasesDecided` is about any two runs and any policy with fractions of positive denominator as
limits: the dictionaries of `compare_runs` hold the last result of each case (`DictionaryHoldsLast`),
the four classes divide the pairs (`ClassesAddUp`), so every delta is the number of lost cases over the
number of pairs (`AggregateAddsUp`, `SliceAddsUp`); each rule of the gate is then an inequality between
integers (`HiddenRule`, `SliceRule`, `ForbiddenRule`), decided exactly or, within `1/Resolution` of its
limit, either way (`LimitCompared`), and the outcome follows from the precedence of
the findings (`OutcomePrecedence`).

Model-checked only: liveness (`QueuedJobServed`, `AbandonedJobRecovered`, `RunEnds`, `CasesSettle`) and
the three findings. The prover has no fairness and no ENABLED. Every invariant and every action
property of the passing runs is proved. That a capacity forecast is ever reported is not stated as a
property: its loops run over finite lists, and the queries of the instance all come to `done`.

What made the last of these provable was the form of the model. A recursive definition of the matching
or of the hash chain can only be unfolded on given inputs, because induction rules take a predicate as
parameter and the provers cannot instantiate it. As a state machine the matching has an inductive
invariant like everything else, and the chain and the sums are compared with their reference at a
least counterexample.

## 6. Plan

1. Done: queue, workers, quotas; ledger, checkpoints, audit, recovery verification; tenant keys;
   guardrail versions and evidence; checkpoint publication; fleet rollups and schema migration;
   placement, forecasts, comparison and gate; evaluation runs; Kubernetes sandbox; recovery drill;
   promotion; the proofs of section 5.
2. Models that could follow: the lock order of the schema transaction on the ledger tables; retention
   periods of reused checkpoints.

## 7. Not modelled

Request and response translation of the runtime adapters, signing backends, telemetry export, the
SDK and the rendering of reports keep no state and are I/O. The scripted agents and the plugin
loader are data. Row-level security is PostgreSQL's; `FleetRollups` uses what it shows a tenant.
Argument construction and resource limits of the process and podman sandboxes, the column migrations
of the schema, pool sizes and token parsing are left out. The time zone of a database session is named
above and not modelled.

## 8. Running

    tlc -config JobQueue.cfg MCJobQueue
    tlapm ArtifactLedgerProofs.tla

`PROJECT.json` lists every run, the mutants that each property refutes, and the source lines of every
definition.
