----------------------------- MODULE Dispatching -----------------------------
(* The dispatcher turns the forecasts of a warehouse's routes into transport *)
(* requests: how many trucks to order for each half-hour slot.  POST         *)
(* /dispatch reads the forecast rows of a time range, adds their steps up    *)
(* per slot, sizes the order, and stores it in one database transaction that *)
(* leaves alone every slot whose order would hardly change (antiflapping).   *)
(* The scheduler's pipeline calls it after every prediction cycle, the       *)
(* dashboard at will, so several transactions can be open at once; Postgres  *)
(* runs them at READ COMMITTED.                                              *)
(*                                                                           *)
(* One warehouse is modelled: no query or write crosses warehouses.  Times   *)
(* count steps of step_interval_minutes; a row with anchor a holds one value *)
(* for each step a+1 .. a+Horizon, taken to be the same for all of them.     *)
(* Containers are whole numbers and the buffer is in thousandths; the floats  *)
(* of the code differ from these only where the load fills a whole number of *)
(* trucks exactly, and then may order one more (RoundsUp).                   *)
EXTENDS Integers, FiniteSetsExt, Bags

CONSTANTS
    Route,
    Volume,         \* the values a forecast may hold
    Horizon,        \* forecast_steps: how far a forecast reaches
    Window,         \* forecast_hours_ahead, in steps: the range of a dispatch
    Lookback,       \* the 24 hours of get_recent_forecasts, in steps
    Dispatcher,     \* requests that can be in progress at once
    Capacity,       \* truck_capacity
    BufferPm,       \* buffer_pct, in thousandths
    Adaptive,       \* adaptive_buffer
    MinTrucks,      \* min_trucks
    RoundsUp,       \* totals whose quotient the floats put just above a whole number
    None,
    LastAnchor,     \* bound: the last time at which anything is forecast
    MaxRows         \* bound: how many forecast rows are stored

ASSUME DispatchAssumption ==
    /\ Volume \subseteq Nat
    /\ Horizon \in Nat \ {0}
    /\ Window \in Nat \ {0}
    /\ Lookback \in Nat /\ Lookback >= Horizon
    /\ Capacity \in Nat \ {0}
    /\ BufferPm \in Nat
    /\ Adaptive \in BOOLEAN
    /\ MinTrucks \in Nat
    /\ RoundsUp \subseteq Nat
    /\ LastAnchor \in Nat
    /\ MaxRows \in Nat
    /\ None \notin [containers: Nat, trucks: Nat] \cup Nat

\* ANTIFLAP_DELTA_THRESHOLD
Threshold == 1

Slot == 1..(LastAnchor + Horizon)

\* A primary row and, while a shadow is loaded, a shadow row of each prediction.
Forecast == [route: Route, anchor: 0..LastAnchor, model: {"primary", "shadow"}, value: Volume]

VARIABLES
    now,        \* the current step
    forecasts,  \* table forecasts, which has no key but its serial: a bag of rows
    plan,       \* table transport_requests: the order of each slot, or None
    job,        \* where each dispatch request is
    asked       \* history: the containers the last stored decision counted per slot

vars == <<now, forecasts, plan, job, asked>>

IdleJob == [pc |-> "idle", explicit |-> FALSE, want |-> [s \in Slot |-> None],
            save |-> {}, locked |-> {}]

\* The slots a request is about.
Requested(d) == {s \in Slot : job[d].want[s] # None}

-----------------------------------------------------------------------------
(* Sizing an order: DispatchCalculator *)

\* compute_adaptive_buffer: from 0.25 for nothing down to 0.05 at 50 and more.
AdaptiveBuffer(total) == 250 - 4 * (IF total < 50 THEN total ELSE 50)

Buffer(total) == IF Adaptive THEN AdaptiveBuffer(total) ELSE BufferPm

\* Containers with their safety margin, in thousandths.
Buffered(total) == total * (1000 + Buffer(total))

CeilDiv(a, b) == (a + b - 1) \div b

\* The float of total * (1 + buffer) / capacity can only lie on the wrong side
\* of a whole number when the exact quotient is one: 330 * 1.1 / 33 is
\* 11.000000000000002, which math.ceil takes to 12.
Excess(total) ==
    IF total \in RoundsUp /\ Buffered(total) % (1000 * Capacity) = 0 THEN 1 ELSE 0

\* math.ceil of that float.
Trucks(total) == CeilDiv(Buffered(total), 1000 * Capacity) + Excess(total)

\* Mutant: int() in place of math.ceil().
CalculateTrucks_Floor(total) ==
    IF total = 0 THEN 0
    ELSE Max({MinTrucks, Buffered(total) \div (1000 * Capacity)})

CalculateTrucks(total) ==
    IF total = 0 THEN 0
    ELSE IF Trucks(total) < MinTrucks THEN MinTrucks
    ELSE Trucks(total)

Order(total) == [containers |-> total, trucks |-> CalculateTrucks(total)]

Distance(a, b) == IF a < b THEN b - a ELSE a - b

\* Mutant: the threshold is one truck wider.
Unchanged_Wide(old, new) == old # None /\ Distance(old.trucks, new.trucks) <= Threshold + 1

\* Mutant: one truck fewer is taken for jitter, one more is not.
Unchanged_Narrow(old, new) ==
    old # None /\ old.trucks >= new.trucks /\ old.trucks - new.trucks <= Threshold

\* apply_antiflap_filter: the stored order stands.
Unchanged(old, new) == old # None /\ Distance(old.trucks, new.trucks) <= Threshold

-----------------------------------------------------------------------------
(* What an order is worth afterwards: GET /api/v1/metrics/business *)

\* backfill_transport_request_actuals: the vehicles the observed units fill.
ActualVehicles(units) == CeilDiv(units, Capacity)

\* Mutant: a difference of the tolerance itself does not count.
Accurate_Strict(order, units) == Distance(order.trucks, ActualVehicles(units)) < 2

\* ORDER_ACCURACY_TOLERANCE: the order counts towards order_accuracy.
Accurate(order, units) == Distance(order.trucks, ActualVehicles(units)) <= 2

-----------------------------------------------------------------------------
(* Reading forecasts: get_recent_forecasts for the range start .. start+Window-1 *)

InRange(s, start) == start <= s /\ s < start + Window

Covers(f, s) == f.anchor + 1 <= s /\ s <= f.anchor + Horizon

\* Mutant: the anchor is taken for the time the forecast is about.
Fetched_ByAnchor(start) ==
    {f \in BagToSet(forecasts) : f.anchor >= start /\ f.anchor < start + Window}

Fetched(start) ==
    {f \in BagToSet(forecasts) : f.anchor >= start - Lookback /\ f.anchor < start + Window}

\* aggregate_forecasts_by_warehouse: every step of every row, per slot.  Equal
\* rows count once each.
Containers == [f \in BagToSet(forecasts) |-> f.value * forecasts[f]]

Total(rows, s) == SumFunctionOnSet(Containers, {f \in rows : Covers(f, s)})

\* What the slots with a step in the range add up to.
Wanted(start) ==
    [s \in Slot |-> IF InRange(s, start) /\ \E f \in Fetched(start) : Covers(f, s)
                    THEN Total(Fetched(start), s)
                    ELSE None]

-----------------------------------------------------------------------------
(* The environment: time passes and predictions are stored *)

Tick ==
    /\ now < LastAnchor
    /\ now' = now + 1
    /\ UNCHANGED <<forecasts, plan, job, asked>>

\* save_forecasts, at the end of a prediction for the current anchor: nothing
\* keeps a second cycle at the same anchor from adding another row.
SaveForecasts(f) ==
    /\ f.anchor = now
    /\ BagCardinality(forecasts) < MaxRows
    /\ forecasts' = forecasts (+) SetToBag({f})
    /\ UNCHANGED <<now, plan, job, asked>>

-----------------------------------------------------------------------------
(* POST /dispatch *)

\* With a time range.  No row in it answers 404 and changes nothing.
CreateDispatch(d, start) ==
    /\ job[d].pc = "idle"
    /\ \E s \in Slot : Wanted(start)[s] # None
    /\ job' = [job EXCEPT ![d] = [IdleJob EXCEPT !.pc = "begin", !.want = Wanted(start)]]
    /\ UNCHANGED <<now, forecasts, plan, asked>>

\* With the forecast steps in the request body; one step is enough here.
CreateExplicit(d, s, total) ==
    /\ job[d].pc = "idle"
    /\ job' = [job EXCEPT ![d] = [IdleJob EXCEPT !.pc = "begin", !.explicit = TRUE,
                                                !.want[s] = total]]
    /\ UNCHANGED <<now, forecasts, plan, asked>>

\* save_transport_requests, first statement: the committed orders of the slots
\* are read without a lock, and the filter decides on them.
FetchExisting(d) ==
    /\ job[d].pc = "begin"
    /\ job' = [job EXCEPT ![d].pc = "write",
                          ![d].save = {s \in Requested(d) :
                                          ~Unchanged(plan[s], Order(job[d].want[s]))}]
    /\ UNCHANGED <<now, forecasts, plan, asked>>

\* Mutant: the requests are written in no particular order.
NextSlots_AnyOrder(d) == job[d].save \ job[d].locked

\* Mutant: the filtered requests are written as well.
NextSlots_Unfiltered(d) == Requested(d) \ job[d].locked

\* The next INSERT: executemany goes by slot start, as the aggregate is sorted.
NextSlots(d) ==
    {s \in job[d].save \ job[d].locked : \A x \in job[d].save \ job[d].locked : s <= x}

\* INSERT .. ON CONFLICT DO UPDATE: waits for whoever has written the slot and
\* not yet committed, then locks it; the new order is unconditional.
Upsert(d) ==
    /\ job[d].pc = "write"
    /\ \E s \in NextSlots(d) :
          /\ \A e \in Dispatcher \ {d} : s \notin job[e].locked
          /\ job' = [job EXCEPT ![d].locked = @ \cup {s}]
    /\ UNCHANGED <<now, forecasts, plan, asked>>

Commit(d) ==
    /\ job[d].pc = "write"
    /\ job[d].locked = job[d].save
    /\ plan' = [s \in Slot |-> IF s \in job[d].save THEN Order(job[d].want[s]) ELSE plan[s]]
    /\ asked' = [s \in Slot |-> IF s \in Requested(d) THEN job[d].want[s] ELSE asked[s]]
    /\ job' = [job EXCEPT ![d] = IdleJob]
    /\ UNCHANGED <<now, forecasts>>

\* The database fails or the service dies: the transaction leaves nothing.
Rollback(d) ==
    /\ job[d].pc # "idle"
    /\ job' = [job EXCEPT ![d] = IdleJob]
    /\ UNCHANGED <<now, forecasts, plan, asked>>

-----------------------------------------------------------------------------
(* Specification *)

Init ==
    /\ now = 0
    /\ forecasts = EmptyBag
    /\ plan = [s \in Slot |-> None]
    /\ job = [d \in Dispatcher |-> IdleJob]
    /\ asked = [s \in Slot |-> None]

Advance(d) == FetchExisting(d) \/ Upsert(d) \/ Commit(d)

Next ==
    \/ Tick
    \/ \E f \in Forecast : SaveForecasts(f)
    \/ \E d \in Dispatcher :
          \/ \E start \in 0..now : CreateDispatch(d, start)
          \/ \E s \in Slot, total \in Volume : CreateExplicit(d, s, total)
          \/ Advance(d)
          \/ Rollback(d)

Spec == Init /\ [][Next]_vars

\* A transaction goes on; Postgres hands a row lock to its waiters in turn, so
\* none of them is passed over for ever.
FairSpec == Spec /\ \A d \in Dispatcher : SF_vars(Advance(d))

-----------------------------------------------------------------------------
(* Properties *)

Job == [pc: {"idle", "begin", "write"}, explicit: BOOLEAN,
        want: [Slot -> Nat \cup {None}],
        save: SUBSET Slot, locked: SUBSET Slot]

TypeOK ==
    /\ now \in 0..LastAnchor
    /\ IsABag(forecasts) /\ BagToSet(forecasts) \subseteq Forecast
    /\ plan \in [Slot -> [containers: Nat, trucks: Nat] \cup {None}]
    /\ job \in [Dispatcher -> Job]
    /\ \A d \in Dispatcher : job[d].locked \subseteq job[d].save
                             /\ job[d].save \subseteq Requested(d)
    /\ asked \in [Slot -> Nat \cup {None}]

\* The query that bounds anchors by a lookback misses no step of any stored
\* forecast inside the requested range, wherever the range lies; the query it
\* replaced, on anchors inside the range, did (postgres.py:239-246).
NoStepLost ==
    \A start \in 0..(LastAnchor + Horizon), f \in BagToSet(forecasts) :
        (\E s \in Slot : InRange(s, start) /\ Covers(f, s)) => f \in Fetched(start)

\* Antiflapping: a stored order is never replaced by one within the threshold
\* of it (save_transport_requests, "are left untouched").
NoChurn ==
    [][\A s \in Slot :
          (plan[s] # None /\ plan'[s] # plan[s]) =>
              ~(Distance(plan[s].trucks, plan'[s].trucks) <= Threshold)]_vars

\* Skipped decisions do not add up: however many were skipped in a row, the
\* stored order is within the threshold of what the last decision called for.
StaysClose ==
    \A s \in Slot : plan[s] # None =>
        Distance(plan[s].trucks, CalculateTrucks(asked[s])) <= Threshold

\* And so the trucks ordered, with one more, carry the containers counted last
\* with their safety margin.
ShortByAtMostOne ==
    \A s \in Slot : plan[s] # None =>
        1000 * Capacity * (plan[s].trucks + Threshold) >= Buffered(asked[s])

\* If what was counted last then arrives exactly, the order counts as accurate:
\* the truck that the margin or the floats may add, the one that antiflapping
\* may leave too many or too few, and the roundings stay within the tolerance
\* of get_business_metrics, as long as the margin is less than a truckful.  At
\* a truckful exactly it can fail: 330 at 0.10 and 33 ask for 12, antiflapping
\* may leave 13, and 10 are filled.
RightForecastIsAccurate ==
    \A s \in Slot :
        (/\ plan[s] # None /\ MinTrucks <= 1
         /\ asked[s] * Buffer(asked[s]) < 1000 * Capacity)
        => Accurate(plan[s], asked[s])

\* Every dispatch request ends: transactions that wait for each other's slots
\* never wait in a circle, since all of them write in slot order.
DispatchAnswered ==
    \A d \in Dispatcher : job[d].pc # "idle" ~> job[d].pc = "idle"

\* A slot's demand is the sum over the routes of the warehouse of one forecast
\* each (business-logic.md, step 1), whichever stored forecast of it is taken.
OneForecastPerRoute ==
    \A d \in Dispatcher :
        (job[d].pc = "begin" /\ ~job[d].explicit) =>
            \A s \in Requested(d) :
                LET rows == {f \in BagToSet(forecasts) : Covers(f, s)}
                IN  \E pick \in SUBSET rows :
                        /\ \A f, g \in pick : f.route = g.route => f = g
                        /\ job[d].want[s] = MapThenSumSet(LAMBDA f : f.value, pick)
=============================================================================
