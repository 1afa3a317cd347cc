----------------------------- MODULE MCJobQueue -----------------------------
(* Small instances of JobQueue for TLC. *)
EXTENDS JobQueue, TLC

CONSTANTS a, b,     \* jobs
          v, w      \* workers

(* b was submitted later with a higher priority. *)
Ranks == [j \in Jobs |-> IF j = b THEN 1 ELSE 0]
OneOrTwoAttempts == [j \in Jobs |-> IF j = b THEN 2 ELSE 1]

Limits(queued, hourly, running, cuda) ==
    [queued |-> queued, hourly |-> hourly, running |-> running, cuda |-> cuda]
OneOfEach == Limits(1, 2, 1, 1)
OneCuda == Limits(NoLimit, 1, NoLimit, 1)

TightPolicy == {OneOfEach}
QuotaPolicies == {OneOfEach, OneCuda}

WorkerSymmetry == Permutations(Workers)
=============================================================================
