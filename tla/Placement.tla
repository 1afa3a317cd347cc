----------------------------- MODULE Placement ------------------------------
(***************************************************************************)
(* diagnose_placement, which tells an operator why a job does not start,   *)
(* and the WHERE clause of lease_job, which decides whether it starts: two *)
(* translations of the same requirements, one in Python and one in SQL.    *)
(*                                                                         *)
(* A job: [status, accelerator, labels, memory, compute, free, util, mig]. *)
(* A GPU: [memory, used, compute, util, mig].  A worker: [accelerators,    *)
(* labels, gpus].  Null is None and NULL; the compute of a GPU is Null     *)
(* when its text is not a number.                                          *)
(***************************************************************************)
EXTENDS Integers, FiniteSets, FiniteSetsExt

CONSTANT Null

MaxZero(n) == IF n > 0 THEN n ELSE 0

-----------------------------------------------------------------------------
(* placement.py *)

(* GpuMatchesBlind takes missing free-memory telemetry for an idle GPU. *)
GpuMatchesBlind(job, gpu) ==
    /\ job.mig # Null => gpu.mig = job.mig
    /\ gpu.memory >= job.memory
    /\ job.compute # Null => gpu.compute # Null /\ gpu.compute >= job.compute
    /\ job.free > 0 =>
         MaxZero(gpu.memory - (IF gpu.used = Null THEN 0 ELSE gpu.used)) >= job.free
    /\ job.util # Null => gpu.util # Null /\ gpu.util <= job.util
GpuMatches(job, gpu) ==
    /\ job.mig # Null => gpu.mig = job.mig
    /\ gpu.memory >= job.memory
    /\ job.compute # Null => gpu.compute # Null /\ gpu.compute >= job.compute
    /\ job.free > 0 => gpu.used # Null /\ MaxZero(gpu.memory - gpu.used) >= job.free
    /\ job.util # Null => gpu.util # Null /\ gpu.util <= job.util

(* Nobody reports a value that is good enough. *)
AllShort(values, P(_)) == \A v \in values : ~P(v)
Known(gpus, field) == {g[field] : g \in gpus} \ {Null}
FreeMemory(gpus) == {MaxZero(g.memory - g.used) : g \in {h \in gpus : h.used # Null}}

(* _gpu_reasons: every requirement that no GPU meets, or that no single one *)
(* meets them all.                                                          *)
GpuReasons(job, gpus) ==
    LET shortfalls ==
          {r \in {"memory", "compute", "free", "util", "mig"} :
             CASE r = "memory" -> AllShort(Known(gpus, "memory"), LAMBDA v : v >= job.memory)
               [] r = "compute" -> job.compute # Null
                    /\ AllShort(Known(gpus, "compute"), LAMBDA v : v >= job.compute)
               [] r = "free" -> job.free > 0
                    /\ AllShort(FreeMemory(gpus), LAMBDA v : v >= job.free)
               [] r = "util" -> job.util # Null
                    /\ AllShort(Known(gpus, "util"), LAMBDA v : v <= job.util)
               [] r = "mig" -> job.mig # Null /\ job.mig \notin Known(gpus, "mig")}
        unconstrained ==
          job.memory = 0 /\ job.compute = Null /\ job.free = 0 /\ job.util = Null /\ job.mig = Null
    IN CASE unconstrained -> {}
         [] ~unconstrained /\ gpus = {} -> {"no telemetry"}
         [] ~unconstrained /\ \E g \in gpus : GpuMatches(job, g) -> {}
         [] OTHER -> IF shortfalls = {} THEN {"no single GPU"} ELSE shortfalls

DiagnoseWorker(job, worker, active) ==
    (IF active THEN {} ELSE {"stale heartbeat"})
    \cup (IF job.accelerator \in worker.accelerators THEN {} ELSE {"accelerator"})
    \cup (IF job.labels \subseteq worker.labels THEN {} ELSE {"label"})
    \cup GpuReasons(job, worker.gpus)

(* diagnose_placement over workers that are all recorded; active says whose *)
(* heartbeat is within the window.                                          *)
DiagnosePlacement(job, workers, active) ==
    LET reasons == [w \in DOMAIN workers |-> DiagnoseWorker(job, workers[w], w \in active)]
        matching == {w \in DOMAIN workers : reasons[w] = {}}
    IN [schedulable |-> job.status = "queued" /\ matching # {},
        matching |-> matching,
        reasons |-> reasons,
        blockers |->
          (IF job.status = "queued" THEN {} ELSE {"status"})
          \cup (CASE DOMAIN workers = {} -> {"no workers"}
                  [] DOMAIN workers # {} /\ active = {} -> {"no active worker"}
                  [] active # {} /\ matching = {} -> {"no match"}
                  [] OTHER -> {})]

-----------------------------------------------------------------------------
(* lease_job: a comparison with NULL is not true. *)

AtLeast(a, b) == a # Null /\ b # Null /\ a >= b
Equal(a, b) == a # Null /\ b # Null /\ a = b

ClaimsGpu(job, gpu) ==
    /\ AtLeast(gpu.memory, job.memory)
    /\ job.compute = Null \/ AtLeast(gpu.compute, job.compute)
    /\ job.free = 0 \/ (gpu.used # Null /\ AtLeast(MaxZero(gpu.memory - gpu.used), job.free))
    /\ job.util = Null \/ (gpu.util # Null /\ AtLeast(job.util, gpu.util))
    /\ job.mig = Null \/ Equal(gpu.mig, job.mig)

(* The requirements of the clause; attempts, quota and lease are JobQueue's. *)
ClaimMatches(job, worker) ==
    /\ job.accelerator \in worker.accelerators
    /\ job.labels \subseteq worker.labels
    /\ \/ job.memory = 0 /\ job.compute = Null /\ job.free = 0
          /\ job.util = Null /\ job.mig = Null
       \/ \E g \in worker.gpus : ClaimsGpu(job, g)
=============================================================================
