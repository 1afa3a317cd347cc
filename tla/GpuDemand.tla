----------------------------- MODULE GpuDemand ------------------------------
(***************************************************************************)
(* forecast_gpu_demand: the arrivals of CUDA jobs in the coming hours,     *)
(* averaged over the same hours of past weeks.  Times are counted in ticks *)
(* from the start of an hour that is slot 0 of its week; fractions are     *)
(* <<numerator, denominator>>.                                             *)
(***************************************************************************)
EXTENDS Integers, Sequences, FiniteSets, SequencesExt

CONSTANTS
    NoHistory,          \* None
    TicksPerHour,       \* resolution of the clock
    WeekHours,          \* (weekday, hour) slots
    LookbackHours,      \* DEFAULT_LOOKBACK_DAYS * 24
    HorizonHours,       \* DEFAULT_HORIZON_HOURS
    HighHours, HighJobs, HighDurations   \* the HIGH_CONFIDENCE thresholds

ASSUME DemandAssumption ==
    /\ TicksPerHour \in Nat \ {0} /\ WeekHours \in Nat \ {0}
    /\ LookbackHours \in Nat \ {0} /\ HorizonHours \in Nat
    /\ NoHistory \notin Int

FloorHour(t) == (t \div TicksPerHour) * TicksPerHour
CeilHour(t) == IF t = FloorHour(t) THEN t ELSE FloorHour(t) + TicksPerHour
Later(a, b) == IF a > b THEN a ELSE b
SlotOf(t) == (t \div TicksPerHour) % WeekHours
HoursFrom(a, b) == {h \in a..b : h < b /\ h % TicksPerHour = 0}

(* The hours of history that count.  FirstHourFloored takes the hour in     *)
(* which the history begins for a whole one.                                *)
FirstHourFloored(historyStart, observed) ==
    FloorHour(Later(historyStart, observed - LookbackHours * TicksPerHour))
FirstHour(historyStart, observed) ==
    CeilHour(Later(historyStart, observed - LookbackHours * TicksPerHour))

(* gpu_demand_forecast: the history begins with the first job of any kind,  *)
(* and its CUDA submissions are selected from then until the observation.   *)
HistoryStart(inception, observed) ==
    LET lookback == observed - LookbackHours * TicksPerHour IN
    IF inception = NoHistory THEN lookback ELSE Later(inception, lookback)
Selected(submitted, start, observed) ==
    {t \in DOMAIN submitted : start <= t /\ t < observed}

(* submitted: tick -> CUDA jobs created then. *)
DemandHours(submitted, start, observed) ==
    LET first == FirstHour(start, observed)
        last == FloorHour(observed)
        counted(s) == {t \in Selected(submitted, start, observed) :
                         first <= FloorHour(t) /\ FloorHour(t) < last /\ SlotOf(t) = s}
    IN [n \in 1..HorizonHours |->
          LET slot == SlotOf(last + n * TicksPerHour) IN
          [slot |-> slot,
           occurrences |-> Cardinality({h \in HoursFrom(first, last) : SlotOf(h) = slot}),
           arrivals |-> SumFunctionOnSet(submitted, counted(slot))]]

Plus(a, b) == <<a[1] * b[2] + b[1] * a[2], a[2] * b[2]>>
Predicted(hours) ==
    FoldLeft(LAMBDA sum, h : IF h.occurrences = 0 THEN sum
                             ELSE Plus(sum, <<h.arrivals, h.occurrences>>),
             <<0, 1>>, hours)

(* estimate: NoHistory or [average, samples] over all CUDA jobs, in ticks. *)
DemandForecast(submitted, inception, observed, backlog, workers, estimate) ==
    LET start == HistoryStart(inception, observed)
        first == FirstHour(start, observed)
        last == FloorHour(observed)
        hours == DemandHours(submitted, start, observed)
        historical == SumFunctionOnSet(submitted,
            {t \in Selected(submitted, start, observed) :
                first <= FloorHour(t) /\ FloorHour(t) < last})
        historyHours == Cardinality(HoursFrom(first, last))
        total == Plus(<<backlog, 1>>, Predicted(hours))
        demand == total[1] * estimate.average
        supply == workers * HorizonHours * TicksPerHour * total[2]
        confidence ==
            IF historical = 0 \/ estimate = NoHistory \/ historyHours = 0 THEN "unavailable"
            ELSE IF /\ historyHours >= HighHours
                    /\ historical >= HighJobs
                    /\ estimate.samples >= HighDurations THEN "high" ELSE "low"
    IN [hours |-> hours, historical |-> historical, historyHours |-> historyHours,
        confidence |-> confidence,
        saturation |-> IF confidence = "unavailable" \/ workers = 0 THEN "unavailable"
                       ELSE IF demand > supply THEN "over_capacity"
                       ELSE IF 10 * demand >= 8 * supply THEN "at_risk"
                       ELSE "within_capacity"]
=============================================================================
