---------------------------- MODULE StatusHistory ----------------------------
(* The table route_status_history, which three services write and read       *)
(* without telling each other: the prediction service appends a row with     *)
(* every prediction and reads its features back from the newest ones, the    *)
(* scheduler copies the last statuses forward and fills in the labels, the   *)
(* retraining service replaces the table and trains on what is labelled.     *)
(*                                                                           *)
(* Times count steps of step_interval_minutes.  A row is kept under (route,  *)
(* timestamp), unique in the table.  What the eight statuses of a row say is *)
(* told apart by the step at which they were measured, which is the row's    *)
(* own step unless somebody copied an older row; a label likewise.           *)
EXTENDS Integers, FiniteSetsExt

CONSTANTS
    Route,      \* a set of numbers, as the queries order by route_id
    Warehouse,
    Home,       \* the warehouse of each route
    Lag,        \* the 2 hours between an observation and its label, in steps
    LastStep,   \* bound: the last step that is modelled
    None

ASSUME StatusHistoryAssumption ==
    /\ Route \subseteq Nat
    /\ Home \in [Route -> Warehouse]
    /\ Lag \in Nat \ {0}
    /\ LastStep \in Nat
    /\ None \notin Nat

Time == 0..LastStep

Row == [seen: Time, label: Time \cup {None}]

ASSUME NoneAssumption == None \notin Row

History == [Route -> [Time -> Row \cup {None}]]

Stored(h, r) == {t \in Time : h[r][t] # None}

\* No row holds what was measured after its own step.
OfThePast(h) == \A r \in Route : \A t \in Stored(h, r) : h[r][t].seen <= t

RowsOf(h) == {k \in Route \X Time : h[k[1]][k[2]] # None}

\* Mutant: the upsert replaces the whole row, its label included.
Appended_ReplacesRow(h, r, t, seen) ==
    [h EXCEPT ![r][t] = [seen |-> seen, label |-> None]]

\* append_status_observation: ON CONFLICT the statuses are replaced and the
\* label stays.
Appended(h, r, t, seen) ==
    [h EXCEPT ![r][t] = [seen |-> seen, label |-> IF @ = None THEN None ELSE @.label]]

\* Mutant: the anchor does not bound the rows.
LatestStatuses_Unbounded(h, rs, asOf) ==
    [r \in {q \in rs : Stored(h, q) # {}} |-> h[r][Max(Stored(h, r))].seen]

\* get_latest_statuses: of each route the newest row not after the anchor;
\* routes without one do not occur.
LatestStatuses(h, rs, asOf) ==
    [r \in {q \in rs : \E t \in Stored(h, q) : t <= asOf} |->
        h[r][Max({t \in Stored(h, r) : t <= asOf})].seen]

\* The rows backfill_target_2h finds: no label yet, two hours old, and with an
\* observation of the route two hours on.
Labelled(h, r, t, now) ==
    /\ h[r][t] # None /\ h[r][t].label = None
    /\ t + Lag <= now
    /\ t + Lag \in Time /\ h[r][t + Lag] # None

\* backfill_target_2h: the statuses of the later row become the label.
BackfillLabels(h, now) ==
    [r \in Route |-> [t \in Time |->
        IF Labelled(h, r, t, now)
        THEN [h[r][t] EXCEPT !.label = h[r][t + Lag].seen]
        ELSE h[r][t]]]

\* The sum of the labels of a warehouse at a slot, as the set of its summands.
SlotLabels(h, w, s) ==
    {<<r, h[r][s].label>> : r \in {q \in Route : /\ Home[q] = w
                                                 /\ h[q][s] # None
                                                 /\ h[q][s].label # None}}

\* fetch_training_data: what is labelled from the window's start on.
TrainingRows(h, window, reference) ==
    {k \in RowsOf(h) : k[2] >= reference - window /\ h[k[1]][k[2]].label # None}

=============================================================================
