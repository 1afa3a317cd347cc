------------------------------ MODULE MCFleet -------------------------------
(***************************************************************************)
(* A small instance of FleetQueries: one tenant with quotas, one that is   *)
(* not registered, a replica that serves and one that starts, and the      *)
(* queries of small sets.                                                  *)
(***************************************************************************)
EXTENDS FleetQueries

CONSTANTS a, b, k, old, fresh, c, d, Registrant, Stranger

Owners == [x \in {a, b, k} |-> IF x = a THEN Registrant ELSE Stranger]
Homes == [x \in {c, d} |-> IF x = c THEN old ELSE fresh]
Quotas == [t \in {Registrant} |->
             [queued |-> 1, hourly |-> 1, running |-> NoLimit, cuda |-> 1]]
Offers == {[accelerators |-> {"cpu", "cuda"}, gpus |-> 1]}

-----------------------------------------------------------------------------
(* Placement: every requirement set or not, on workers with one GPU of any  *)
(* kind or with two, with missing, failing and sufficient telemetry.        *)
SomeGpus == [memory : {1, 2}, used : {Null, 0, 2}, compute : {Null, 2},
             util : {Null, 1, 2}, mig : {Null, "1g.10gb"}]
JobsWith(statuses, accelerators, labelSets) ==
    [memory : {0, 2}, compute : {Null, 2}, free : {0, 1}, util : {Null, 1},
     mig : {Null, "1g.10gb"}, status : statuses, accelerator : accelerators,
     labels : labelSets]
Worker(gpus) == [accelerators |-> {"cpu", "cuda"}, labels |-> {}, gpus |-> gpus]
CpuWorker == [accelerators |-> {"cpu"}, labels |-> {"zone"}, gpus |-> {}]
Pools == {<<CpuWorker, Worker({})>>, <<CpuWorker, Worker({CHOOSE g \in SomeGpus : g.util # Null})>>}
Placements ==
    [kind : {"placement"}, job : JobsWith({"queued", "running"}, {"cpu", "cuda"}, {{}, {"zone"}}),
     workers : Pools, active : SUBSET {1, 2}]
    \cup [kind : {"placement"}, job : JobsWith({"queued"}, {"cuda"}, {{}}),
          workers : {<<Worker({g, h})>> : g, h \in SomeGpus}, active : {{1}}]
    \cup [kind : {"placement"}, job : JobsWith({"queued"}, {"cuda"}, {{}}),
          workers : {<<>>}, active : {{}}]

(* Capacity: four queued jobs, any subset of three workers for each. *)
Lists == {<<>>, <<"u">>, <<"v">>, <<"w">>, <<"u", "v">>, <<"u", "w">>, <<"v", "w">>,
          <<"u", "v", "w">>}
Queues ==
    [eligible : [1..4 -> Lists],
     profile : {[j \in 1..4 |-> IF j = 4 THEN "1g.10gb" ELSE Null]},
     estimates : {[p \in {Null} |-> [p90 |-> 2, samples |-> 1]]}]

(* Demand: two submissions of CUDA jobs, no earlier than the first job of   *)
(* any kind, and any observation time.                                      *)
Histories ==
    UNION {[kind : {"demand"}, submitted : {[x \in {s, t} |-> IF x = s THEN 2 ELSE 1]},
            inception : {n \in 0..5 : n <= s /\ n <= t}, observed : 9..14, backlog : {1},
            workers : {0, 1}, estimate : {[average |-> 2, samples |-> 1]}] :
           s, t \in 0..14}
    \cup [kind : {"demand"}, submitted : {<<>>}, inception : {NoHistory}, observed : 9..14,
          backlog : {0}, workers : {1}, estimate : {NoHistory}]
=============================================================================
