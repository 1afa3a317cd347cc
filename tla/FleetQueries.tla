---------------------------- MODULE FleetQueries ----------------------------
(***************************************************************************)
(* The fleet and what operators ask about it: the rollups and their report *)
(* next to the placement diagnostic and the two GPU forecasts.  A query    *)
(* reads its inputs once and shares nothing with the transactions, so it   *)
(* is asked while they rest in their initial state; its inputs are any     *)
(* that the tables may hold.                                               *)
(***************************************************************************)
EXTENDS FleetRollups, Placement, GpuCapacity, GpuDemand

CONSTANTS
    PlacementQueries,   \* [kind, job, workers, active]
    DemandQueries,      \* [kind, submitted, inception, observed, backlog, workers, estimate]
    NoQuestion

VARIABLES question, answer

answerVars == <<question, answer>>

(* Missing numbers are Null.  The lists of workers are functions from any   *)
(* index set.                                                               *)
OrNull(values) == values \cup {Null}
Demands ==
    [status : STRING, accelerator : STRING, labels : SUBSET STRING, memory : Nat,
     compute : OrNull(Int), free : Nat, util : OrNull(Int), mig : OrNull(STRING)]
Gpus ==
    [memory : Nat, used : OrNull(Nat), compute : OrNull(Int), util : OrNull(Int),
     mig : OrNull(STRING)]

ASSUME QueriesAssumption ==
    /\ Null \notin Int /\ Null \notin STRING
    /\ \A q \in PlacementQueries :
         /\ q # NoQuestion /\ q.kind = "placement" /\ q.job \in Demands
         /\ \A w \in DOMAIN q.workers : q.workers[w].gpus \subseteq Gpus
    /\ \A q \in DemandQueries :
         /\ q # NoQuestion /\ q.kind = "demand"
         /\ q.observed \in Int /\ q.inception \in Int \cup {NoHistory}
         /\ DOMAIN q.submitted \subseteq Int

-----------------------------------------------------------------------------
AskPlacement ==
    \E q \in PlacementQueries :
        question' = q /\ answer' = DiagnosePlacement(q.job, q.workers, q.active)
AskDemand ==
    \E q \in DemandQueries :
        /\ question' = q
        /\ answer' = DemandForecast(q.submitted, q.inception, q.observed, q.backlog,
                                    q.workers, q.estimate)

FleetInit == Init /\ question = NoQuestion /\ answer = NoQuestion /\ Unasked
Unanswered == question = NoQuestion /\ step = "idle"
RollupStep == Unanswered /\ Next /\ UNCHANGED <<answerVars, capacityVars>>
QuestionStep ==
    /\ Init /\ step = "idle"
    /\ \/ question = NoQuestion /\ (AskPlacement \/ AskDemand)
       \/ question # NoQuestion /\ question' = NoQuestion /\ answer' = NoQuestion
    /\ UNCHANGED <<vars, capacityVars>>
CapacityStep == Init /\ question = NoQuestion /\ CapacityNext /\ UNCHANGED <<vars, answerVars>>

FleetSpec ==
    FleetInit /\ [][RollupStep \/ QuestionStep \/ CapacityStep]_<<vars, answerVars, capacityVars>>

-----------------------------------------------------------------------------
Asked(kind) == question # NoQuestion /\ question.kind = kind

(* The diagnostic calls a worker eligible exactly when it is active and     *)
(* lease_job would hand it the job, and it names a blocker exactly when the *)
(* job is not schedulable, with telemetry missing or not.                   *)
DiagnosisMatchesClaim ==
    Asked("placement") =>
        /\ \A w \in DOMAIN question.workers :
             w \in answer.matching <=>
                w \in question.active /\ ClaimMatches(question.job, question.workers[w])
        /\ answer.schedulable <=> answer.blockers = {}

(* The hours of the question that lie within the history as a whole. *)
WholeHours ==
    {h \in (question.observed - LookbackHours * TicksPerHour)..question.observed :
        /\ h % TicksPerHour = 0
        /\ question.inception # NoHistory => h >= question.inception
        /\ h + TicksPerHour <= question.observed}
HourOf(t) == CHOOSE h \in (t - TicksPerHour + 1)..t : h % TicksPerHour = 0

(* A forecast hour averages over exactly the hours of the history that were *)
(* observed from their beginning to their end and fall on the same slot of  *)
(* the week, and over the jobs submitted in those hours; the jobs of the    *)
(* partial first and last hours are in neither figure.                      *)
DemandFromWholeHours ==
    Asked("demand") =>
        \A n \in 1..HorizonHours :
            LET f == answer.hours[n]
                same == {h \in WholeHours : SlotOf(h) = f.slot}
            IN /\ f.slot = SlotOf(question.observed + n * TicksPerHour)
               /\ f.occurrences = Cardinality(same)
               /\ f.arrivals = SumFunctionOnSet(question.submitted,
                     {t \in DOMAIN question.submitted : HourOf(t) \in same})
=============================================================================
