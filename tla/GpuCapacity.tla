---------------------------- MODULE GpuCapacity -----------------------------
(***************************************************************************)
(* forecast_gpu_capacity: which queued CUDA jobs start in the first wave,  *)
(* and how many waves clear the queue.  Jobs are the positions of the      *)
(* queue in claiming order (priority, then age); eligible[j] is the list   *)
(* of active workers on which the placement diagnostic would put job j.    *)
(*                                                                         *)
(* The calls of _maximum_matching are steps: a root job, a job taken from  *)
(* the search queue, a slot of it, an edge of the augmenting path.         *)
(***************************************************************************)
EXTENDS Integers, Sequences, FiniteSets, FiniteSetsExt

CONSTANTS
    CapacityQueries,    \* [eligible, profile, estimates]
    NoSlot,             \* None
    NoRequest,
    HighSamples         \* samples of a "high" estimate

VARIABLES
    request,            \* the queue under forecast, or NoRequest
    step,               \* where forecast_gpu_capacity stands
    slots,              \* eligible_slots of the current call
    pending,            \* job_ids that have not been root_job yet
    root,               \* root_job
    queue, visited,     \* the search: queue and visited_jobs
    current, rest,      \* the job taken from it, and its slots still to see
    parent,             \* slot_parent; its domain is visited_slots
    free,               \* free_slot
    jobOf, slotOf,      \* slot_to_job and job_to_slot
    assigned,           \* first_wave
    lower, upper, waves,
    forecast

matching == <<slots, pending, root, queue, visited, current, rest, parent, free, jobOf, slotOf>>
capacityVars == <<request, step, matching, assigned, lower, upper, waves, forecast>>

Members(list) == {list[i] : i \in 1..Len(list)}

(* WorkersOf: everyone some job of the query may run on. *)
WorkersOf(q) == UNION {Members(q.eligible[j]) : j \in 1..Len(q.eligible)}
CompatibleIn(q) == {j \in 1..Len(q.eligible) : q.eligible[j] # <<>>}
Compatible == CompatibleIn(request)

ASSUME CapacityAssumption ==
    \A q \in CapacityQueries :
        /\ q # NoRequest
        /\ q.eligible \in Seq(Seq(WorkersOf(q)))
        /\ NoSlot \notin WorkersOf(q) /\ NoSlot \notin WorkersOf(q) \X Nat

NoEntries == [x \in {} |-> x]
Put(map, key, value) == [x \in DOMAIN map \cup {key} |-> IF x = key THEN value ELSE map[x]]

-----------------------------------------------------------------------------
(* _maximum_matching: breadth-first augmenting paths from every job in turn. *)

StartMatching(jobIds, eligibleSlots) ==
    /\ slots' = eligibleSlots /\ pending' = jobIds
    /\ jobOf' = NoEntries /\ slotOf' = NoEntries
    /\ root' = 0 /\ queue' = <<>> /\ visited' = {} /\ current' = 0 /\ rest' = <<>>
    /\ parent' = NoEntries /\ free' = NoSlot

Matching == step \in {"wave", "count"}
SearchOver == queue = <<>> /\ rest = <<>> /\ free = NoSlot
MatchingOver == Matching /\ SearchOver /\ pending = {}

afterMatching == <<request, step, assigned, lower, upper, waves, forecast>>

NextRoot ==
    /\ Matching /\ SearchOver /\ pending # {}
    /\ root' = Min(pending)
    /\ pending' = pending \ {root'}
    /\ queue' = <<root'>> /\ visited' = {root'} /\ parent' = NoEntries
    /\ UNCHANGED <<slots, current, rest, free, jobOf, slotOf, afterMatching>>

NextJob ==
    /\ Matching /\ free = NoSlot /\ rest = <<>> /\ queue # <<>>
    /\ current' = Head(queue)
    /\ queue' = Tail(queue)
    /\ rest' = slots[current']
    /\ UNCHANGED <<slots, pending, root, visited, parent, free, jobOf, slotOf, afterMatching>>

(* The inner loop.  A free slot ends both loops; the incumbent of a slot    *)
(* that is taken is searched later.  VisitSlotGreedy never asks it to move. *)
VisitSlotGreedy ==
    /\ Matching /\ free = NoSlot /\ rest # <<>>
    /\ parent' = Put(parent, Head(rest), current)
    /\ \/ /\ Head(rest) \in DOMAIN jobOf
          /\ rest' = Tail(rest)
          /\ UNCHANGED <<queue, free>>
       \/ /\ Head(rest) \notin DOMAIN jobOf
          /\ free' = Head(rest)
          /\ queue' = <<>> /\ rest' = <<>>
    /\ UNCHANGED <<slots, pending, root, visited, current, jobOf, slotOf, afterMatching>>
VisitSlot ==
    /\ Matching /\ free = NoSlot /\ rest # <<>>
    /\ LET slot == Head(rest) IN
       \/ /\ slot \in DOMAIN parent
          /\ rest' = Tail(rest)
          /\ UNCHANGED <<queue, visited, parent, free>>
       \/ /\ slot \notin DOMAIN parent /\ slot \notin DOMAIN jobOf
          /\ parent' = Put(parent, slot, current)
          /\ free' = slot
          /\ queue' = <<>> /\ rest' = <<>>
          /\ UNCHANGED visited
       \/ /\ slot \notin DOMAIN parent /\ slot \in DOMAIN jobOf
          /\ parent' = Put(parent, slot, current)
          /\ rest' = Tail(rest)
          /\ IF jobOf[slot] \in visited THEN UNCHANGED <<queue, visited>>
             ELSE /\ visited' = visited \cup {jobOf[slot]}
                  /\ queue' = Append(queue, jobOf[slot])
          /\ UNCHANGED free
    /\ UNCHANGED <<slots, pending, root, current, jobOf, slotOf, afterMatching>>

(* One edge of the path that ends in a free slot. *)
FlipEdge ==
    /\ Matching /\ free # NoSlot
    /\ LET j == parent[free] IN
       /\ jobOf' = Put(jobOf, free, j)
       /\ slotOf' = Put(slotOf, j, free)
       /\ free' = IF j \in DOMAIN slotOf THEN slotOf[j] ELSE NoSlot
    /\ UNCHANGED <<slots, pending, root, queue, visited, current, rest, parent, afterMatching>>

-----------------------------------------------------------------------------
(* _minimum_clearance_waves: a binary search over matchings of wave slots. *)

WaveSlots(list, n) ==
    [i \in 1..(Len(list) * n) |-> <<list[(i - 1) \div n + 1], (i - 1) % n>>]

(* TakeFirstWaveShort takes one wave per job for more than there can be. *)
TakeFirstWaveShort ==
    /\ step = "wave" /\ MatchingOver
    /\ assigned' = slotOf
    /\ lower' = (IF Compatible = {} THEN 0 ELSE 1) /\ upper' = Cardinality(Compatible) - 1
    /\ step' = "halve"
    /\ UNCHANGED <<request, matching, waves, forecast>>
TakeFirstWave ==
    /\ step = "wave" /\ MatchingOver
    /\ assigned' = slotOf
    /\ lower' = (IF Compatible = {} THEN 0 ELSE 1) /\ upper' = Cardinality(Compatible)
    /\ step' = "halve"
    /\ UNCHANGED <<request, matching, waves, forecast>>

TryWaves ==
    /\ step = "halve" /\ lower < upper
    /\ waves' = (lower + upper) \div 2
    /\ StartMatching(Compatible, [j \in Compatible |-> WaveSlots(request.eligible[j], waves')])
    /\ step' = "count"
    /\ UNCHANGED <<request, assigned, lower, upper, forecast>>

Halve ==
    /\ step = "count" /\ MatchingOver
    /\ \/ /\ Cardinality(DOMAIN slotOf) = Cardinality(Compatible)
          /\ upper' = waves /\ UNCHANGED lower
       \/ /\ Cardinality(DOMAIN slotOf) # Cardinality(Compatible)
          /\ lower' = waves + 1 /\ UNCHANGED upper
    /\ step' = "halve"
    /\ UNCHANGED <<request, matching, assigned, waves, forecast>>

(* estimates: profile -> [p90, samples] for the profiles with completed     *)
(* jobs; profile[j] is the required_mig_profile.                            *)
CapacityForecast(q, wave, clearance) ==
    LET asked == {q.profile[j] : j \in CompatibleIn(q)}
        complete == asked # {} /\ asked \subseteq DOMAIN q.estimates
    IN [state |-> [j \in 1..Len(q.eligible) |->
                     IF j \notin CompatibleIn(q) THEN "blocked"
                     ELSE IF j \in DOMAIN wave THEN "first_wave" ELSE "deferred"],
        assigned |-> wave,
        waves |-> clearance,
        seconds |-> IF complete THEN clearance * Max({q.estimates[p].p90 : p \in asked})
                    ELSE NoSlot,
        confidence |->
          IF ~complete THEN "unavailable"
          ELSE IF \A p \in asked : q.estimates[p].samples >= HighSamples
               THEN "high" ELSE "low"]

ReportCapacity ==
    /\ step = "halve" /\ lower >= upper
    /\ forecast' = CapacityForecast(request, assigned, lower)
    /\ step' = "done"
    /\ UNCHANGED <<request, matching, assigned, lower, upper, waves>>

-----------------------------------------------------------------------------
Unasked ==
    /\ request = NoRequest /\ step = "idle" /\ forecast = NoRequest
    /\ slots = NoEntries /\ pending = {} /\ root = 0 /\ queue = <<>> /\ visited = {}
    /\ current = 0 /\ rest = <<>> /\ parent = NoEntries /\ free = NoSlot
    /\ jobOf = NoEntries /\ slotOf = NoEntries
    /\ assigned = NoEntries /\ lower = 0 /\ upper = 0 /\ waves = 0

AskCapacity ==
    /\ step = "idle"
    /\ \E q \in CapacityQueries :
          /\ request' = q
          /\ StartMatching(CompatibleIn(q), q.eligible)
    /\ step' = "wave"
    /\ UNCHANGED <<assigned, lower, upper, waves, forecast>>

(* The answer is returned; the next call starts afresh. *)
ReturnCapacity ==
    /\ step = "done"
    /\ request' = NoRequest /\ step' = "idle" /\ forecast' = NoRequest
    /\ StartMatching({}, NoEntries)
    /\ assigned' = NoEntries /\ lower' = 0 /\ upper' = 0 /\ waves' = 0

CapacityNext ==
    \/ AskCapacity \/ NextRoot \/ NextJob \/ VisitSlot \/ FlipEdge
    \/ TakeFirstWave \/ TryWaves \/ Halve \/ ReportCapacity \/ ReturnCapacity

CapacitySpec == Unasked /\ [][CapacityNext]_capacityVars

-----------------------------------------------------------------------------
(* Can the jobs of s all start, with at most n jobs on a worker? *)
Placeable(q, s, n) ==
    \E f \in [s -> WorkersOf(q)] :
        /\ \A j \in s : f[j] \in Members(q.eligible[j])
        /\ \A w \in WorkersOf(q) : Cardinality({j \in s : f[j] = w}) <= n

FirstWave == {j \in DOMAIN forecast.state : forecast.state[j] = "first_wave"}

(* The first wave is an assignment of jobs to distinct eligible workers,    *)
(* and a deferred job could not have started together with the first-wave   *)
(* jobs before it in the queue.                                             *)
FirstWaveByPriority ==
    /\ DOMAIN forecast.assigned = FirstWave
    /\ \A i, j \in FirstWave : i # j => forecast.assigned[i] # forecast.assigned[j]
    /\ \A j \in FirstWave : forecast.assigned[j] \in Members(request.eligible[j])
    /\ \A j \in Compatible \ FirstWave :
         ~Placeable(request, {i \in FirstWave : i < j} \cup {j}, 1)

(* The clearance waves are the fewest rounds in which every compatible job  *)
(* gets a turn: one round when nothing is deferred, none when all is        *)
(* blocked.                                                                 *)
WavesMinimal ==
    /\ Placeable(request, Compatible, forecast.waves)
    /\ forecast.waves > 0 => ~Placeable(request, Compatible, forecast.waves - 1)
    /\ (FirstWave = Compatible) <=> forecast.waves <= 1

(* The capacity forecast is optimal among all assignments: the first wave   *)
(* in the order of the queue, the waves in their number.                    *)
CapacityOptimal == step = "done" => FirstWaveByPriority /\ WavesMinimal
=============================================================================
