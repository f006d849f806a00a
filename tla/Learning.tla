------------------------------ MODULE Learning ------------------------------
(* What the models learn from and what they are then shown.  The prediction  *)
(* service builds the features of a request from the newest rows of the      *)
(* route and the observation it has just been sent; hours later the same     *)
(* rows, labelled by now, are training data of the retraining service; and   *)
(* Team Track builds features of its own from the table as it stands, to     *)
(* fill in an uploaded template.  The three have only the table in common.   *)
(*                                                                           *)
(* A prediction is one action here: its statements interleave with others in *)
(* Operations, and requests for different routes share no row but in the     *)
(* average of the warehouse.  A value is the set of the observations it is   *)
(* the average of, each known by its route and the step it was measured at.  *)
EXTENDS StatusHistory, Sequences

CONSTANTS
    Lags, Periods, Windows, Horizon, DaySteps, Holidays, Zero, Filled,
    HistoryWindow,  \* history_window: the rows that are read for a prediction
    ColdStart,      \* COLD_START_THRESHOLD, in rows
    TrainingWindow, \* training_window_days, in steps
    MinRows,        \* min_training_rows
    OotSteps,       \* OOT_STEPS: the steps held out for validation
    Template,       \* the templates that are uploaded, sets of [id, route, at]
    Start,          \* the step the dataset was uploaded at
    Uploaded,       \* the tables it may have filled
    MaxPredictions  \* bound: how many predictions are made of each route

\* What a value is the average of.
Observation == SUBSET (Route \X Time)

ASSUME LearningAssumption ==
    /\ \A value \in Observation : value # None
    /\ None \notin Seq(Observation)
    /\ Filled # None
    /\ Lags \cup Periods \cup Windows \subseteq Nat \ {0}
    /\ Horizon \in Nat \ {0}
    /\ DaySteps \in Nat \ {0}
    /\ Holidays \subseteq Nat
    /\ HistoryWindow \in Nat \ {0}
    /\ \A n \in Lags \cup Periods \cup Windows : n <= HistoryWindow
    /\ {ColdStart, TrainingWindow, MinRows} \subseteq Nat
    /\ OotSteps \in Nat \ {0}
    /\ Template \subseteq SUBSET [id: Int, route: Route, at: Nat]
    /\ \A x \in Template : IsFiniteSet(x) /\ \A i, j \in x : i.id = j.id => i = j
    /\ Start \in Time
    /\ Uploaded \subseteq History
    /\ \A h \in Uploaded : \A k \in RowsOf(h) :
           /\ k[2] <= Start /\ h[k[1]][k[2]].seen <= Start
           /\ h[k[1]][k[2]].label # None => k[2] + Lag <= Start
    /\ MaxPredictions \in [Route -> Nat]

INSTANCE Features

VARIABLES
    now,        \* the current step
    history,    \* table route_status_history
    served,     \* history: of each route and anchor the last prediction
    made        \* bound: how many predictions have been made of each route

vars == <<now, history, served, made>>

FrameRow == [at: Time, seen: Observation, label: Observation \cup {None, Zero}]

-----------------------------------------------------------------------------
(* Frames *)

\* Mutant: a label is read before it is there.
FrameRows_NoNull(h, r, times) ==
    {[at |-> t, seen |-> {<<r, h[r][t].seen>>}, label |-> {<<r, h[r][t].label>>}] : t \in times}

\* The rows of a route, as a frame has them.
FrameRows(h, r, times) ==
    {[at |-> t, seen |-> {<<r, h[r][t].seen>>},
      label |-> IF h[r][t].label = None THEN None ELSE {<<r, h[r][t].label>>}] : t \in times}

\* Of a set of steps the newest n.
NewestTimes(times, n) == {t \in times : Cardinality({u \in times : u > t}) < n}

Chronological(rows) ==
    [i \in 1..Cardinality(rows) |->
        CHOOSE x \in rows : Cardinality({y \in rows : y.at < x.at}) = i - 1]

\* get_route_status_history, get_route_history_windows: the newest rows of the
\* route, whatever the anchor.
RouteRows(h, r) == FrameRows(h, r, NewestTimes(Stored(h, r), HistoryWindow))

Of(h, w, t) == {r \in Route : Home[r] = w /\ h[r][t] # None}

\* get_warehouse_avg_history: at each step the averages over the routes that
\* have a row, of the labels over those that have one.
WarehouseRows(h, w) ==
    {[at |-> t, seen |-> {<<r, h[r][t].seen>> : r \in Of(h, w, t)},
      label |-> IF SlotLabels(h, w, t) = {} THEN None ELSE SlotLabels(h, w, t)] :
        t \in NewestTimes({u \in Time : Of(h, w, u) # {}}, HistoryWindow)}

\* The current observation is appended and the frame sorted by its timestamps;
\* two rows of one timestamp come out in either order.
Frames(rows, current) ==
    LET older == Chronological({x \in rows : x.at < current.at})
        same  == Chronological({x \in rows : x.at = current.at})
        newer == Chronological({x \in rows : x.at > current.at})
    IN  {older \o same \o <<current>> \o newer, older \o <<current>> \o same \o newer}

-----------------------------------------------------------------------------
(* Predictions and labels *)

Tick ==
    /\ now < LastStep
    /\ now' = now + 1
    /\ UNCHANGED <<history, served, made>>

\* _run_single_prediction: the newest rows are read, the observation is stored,
\* and for a short history the warehouse is averaged over, the observation
\* just stored included.
Predict(r, anchor, seen) ==
    LET rows    == RouteRows(history, r)
        grown   == Appended(history, r, anchor, seen)
        current == [at |-> anchor, seen |-> {<<r, seen>>}, label |-> Zero]
        cold    == Cardinality(rows) < ColdStart
    IN  /\ made[r] < MaxPredictions[r]
        /\ made' = [made EXCEPT ![r] = @ + 1]
        /\ history' = grown
        /\ \E frame \in Frames(IF cold THEN WarehouseRows(grown, Home[r]) ELSE rows, current) :
              served' = [served EXCEPT ![r][anchor] =
                  [frame |-> frame, past |-> FrameRows(history, r, Stored(history, r)),
                   regular |-> ~cold /\ \A t \in Stored(history, r) : t < anchor]]
        /\ UNCHANGED now

\* A client posts what it has measured.
PredictMeasured(r) == Predict(r, now, now)

\* A prediction cycle, or a replay of an earlier one, posts the last statuses
\* as of its anchor.
PredictCarried(r, anchor) ==
    /\ anchor <= now
    /\ r \in DOMAIN LatestStatuses(history, {r}, anchor)
    /\ Predict(r, anchor, LatestStatuses(history, {r}, anchor)[r])

\* backfill_target_2h.
Backfill ==
    /\ history' = BackfillLabels(history, now)
    /\ history' # history
    /\ UNCHANGED <<now, served, made>>

-----------------------------------------------------------------------------
(* The two kinds of file that may be uploaded *)

\* The columns that tell them apart; of the eight statuses, two.
Column == {"id", "route_id", "timestamp", "office_from_id", "status_1", "status_8", "target_2h"}

HistoryColumns == Column \ {"id"}

TemplateColumns == {"id", "route_id", "timestamp"}

Observed == {"office_from_id", "status_1", "status_8", "target_2h"}

LooksLikeTemplate(columns) == TemplateColumns \subseteq columns /\ columns \cap Observed = {}

LooksLikeHistory(columns) == HistoryColumns \subseteq columns

\* _validate_schema of POST /upload-dataset.
AsHistory(columns) ==
    IF LooksLikeTemplate(columns) THEN "wrong_flow"
    ELSE IF HistoryColumns \subseteq columns THEN "taken" ELSE "missing"

\* Mutant: the history check is left to the dataset upload.
AsTemplate_Any(columns) == IF TemplateColumns \subseteq columns THEN "taken" ELSE "missing"

\* _coerce_template_df of the Team Track endpoints.
AsTemplate(columns) ==
    IF LooksLikeHistory(columns) THEN "wrong_flow"
    ELSE IF TemplateColumns \subseteq columns THEN "taken" ELSE "missing"

-----------------------------------------------------------------------------
(* Team Track: evaluate_team_track *)

\* The anchor of a route: its newest row.
Anchor(h, r) == Max(Stored(h, r))

\* Mutant: the last target is left as it is.
TeamFrame_Unknown(h, r) == Chronological(RouteRows(h, r))

\* The frame of a route: the newest rows, the target of the last one set to 0.
TeamFrame(h, r) ==
    LET rows == Chronological(RouteRows(h, r))
    IN  [rows EXCEPT ![Len(rows)].label = Zero]

\* LocalInferenceFeatureEngine.build_features, the clone: the same features of
\* the same constants, the warehouse that of the newest row.
TeamRow(h, r, step) == ServingRow(TeamFrame(h, r), step, r, Home[r])

Group(template, r) == {x \in template : x.route = r}

\* _ensure_template_matches_live_history: every route has history, and its
\* timestamps are the forecast_steps steps after its anchor.
Matches(h, template) ==
    \A r \in {x.route : x \in template} :
        /\ Stored(h, r) # {}
        /\ Cardinality(Group(template, r)) = Horizon
        /\ {x.at : x \in Group(template, r)} = Anchor(h, r) + 1 .. Anchor(h, r) + Horizon

\* The forecast a row is given, by its position in its group by timestamp.
StepOf(template, x) == Cardinality({y \in Group(template, x.route) : y.at <= x.at})

\* Mutant: the group is taken in the order of the ids.
Predicted_ById(template, x) ==
    [id |-> x.id, route |-> x.route,
     step |-> Cardinality({y \in Group(template, x.route) : y.id <= x.id})]

Predicted(template, x) == [id |-> x.id, route |-> x.route, step |-> StepOf(template, x)]

Refused == <<>>

\* POST /team-track/submission: a file with the columns of a template is
\* predicted route by route from the table as it stands, nothing is stored, and
\* the rows of the answer come in the order of their ids.
Submission(h, columns, template) ==
    IF AsTemplate(columns) # "taken" \/ template = {} \/ ~Matches(h, template) THEN Refused
    ELSE [i \in 1..Cardinality(template) |->
             Predicted(template,
                 CHOOSE x \in template : Cardinality({y \in template : y.id < x.id}) = i - 1)]

-----------------------------------------------------------------------------
(* Training: fetch_training_data, build_features, train_model *)

\* The frame of a route up to one of its rows.
TrainingFrame(h, r, t) ==
    Chronological(FrameRows(h, r, {u \in Time : /\ <<r, u>> \in TrainingRows(h, TrainingWindow, now)
                                                /\ u <= t}))

Frame == TrainingRows(history, TrainingWindow, now)

FrameSteps == {k[2] : k \in Frame}

\* Fewer rows, or fewer timestamps, and nothing is trained.
Trainable == Cardinality(Frame) >= MinRows /\ Cardinality(FrameSteps) > OotSteps

\* Mutant: each route holds out its own last steps.
HeldOut_PerRoute ==
    {k \in Frame : Cardinality({u \in Frame : u[1] = k[1] /\ u[2] > k[2]}) < OotSteps}

\* The rows of the last timestamps, over all routes.
HeldOut == {k \in Frame : k[2] \in NewestTimes(FrameSteps, OotSteps)}

Trained == Frame \ HeldOut

\* NaiveSeasonalBaseline groups by route, hour and weekday; two steps an hour.
SeasonKey(k) == <<k[1], (k[2] % DaySteps) \div 2, (k[2] \div DaySteps) % 7>>

\* The training rows whose mean it predicts for a row: its group, or all.
BaselineOf(k) ==
    LET group == {u \in Trained : SeasonKey(u) = SeasonKey(k)}
    IN  IF group = {} THEN Trained ELSE group

-----------------------------------------------------------------------------
(* Specification *)

Init ==
    /\ now = Start
    /\ history \in Uploaded
    /\ served = [r \in Route |-> [t \in Time |-> None]]
    /\ made = [r \in Route |-> 0]

Next ==
    \/ Tick
    \/ \E r \in Route : PredictMeasured(r) \/ \E t \in Time : PredictCarried(r, t)
    \/ Backfill

Spec == Init /\ [][Next]_vars

-----------------------------------------------------------------------------
(* Properties *)

Answer == [frame: Seq(FrameRow), past: SUBSET FrameRow, regular: BOOLEAN]

TypeOK ==
    /\ now \in Time
    /\ history \in History
    /\ served \in [Route -> [Time -> Answer \cup {None}]]
    /\ made \in [Route -> Nat]

\* The statuses a training row is made of are those its prediction saw, and no
\* row of the route has come, gone or changed since.
SameRows(r, t) ==
    {[at |-> x.at, seen |-> x.seen] : x \in served[r][t].past}
        = {[at |-> u, seen |-> {<<r, history[r][u].seen>>}] : u \in Stored(history, r) \cap 0..t - 1}

\* The route is trained on from its first row to the one at t.
AllTrainedOn(r, t) == \A u \in Stored(history, r) \cap 0..t : <<r, u>> \in Frame

Current(r, t) == history[r][t] # None /\ {<<r, history[r][t].seen>>} =
                     served[r][t].frame[Len(served[r][t].frame)].seen

Comparable(r, t) ==
    served[r][t] # None /\ served[r][t].regular /\ SameRows(r, t) /\ Current(r, t)

StatusPart(row) == [n \in {m \in DOMAIN row : m[1] \in {"status", "statuses"}} |-> row[n]]

\* A column that looks back past the first of so many rows of a route.
LooksBeyond(n, rows) ==
    /\ n[1] = "status"
    /\ \/ n[2] \in {"lag", "diff"} /\ n[3] >= rows
       \/ n[2] = "mean" /\ rows = 1

\* The inventory columns a labelled row is learned from, as the trainer leaves
\* them, and those its prediction was asked with, as the engine fills them in.
Learned(r, t) == StatusPart(TrainingRow(TrainingFrame(history, r, t)))

Asked(r, t) ==
    LET row == ServingRow(served[r][t].frame, 1, r, Home[r])
    IN  StatusPart(Aligned(row, DOMAIN TrainingRow(TrainingFrame(history, r, t))))

\* Once a row is labelled the trainer gives it the very inventory features that
\* the prediction at its anchor was made from, though that read only the last
\* history_window rows (_add_grouped_rolling_features, "Matches
\* InferenceFeatureEngine"): all but those that look back past the first row of
\* the route, and exactly those the one learns as NaN and the other fills in.
InventoryFeaturesAgree ==
    \A r \in Route, t \in Time :
        (Comparable(r, t) /\ AllTrainedOn(r, t)) =>
            \A n \in DOMAIN Learned(r, t) :
                IF LooksBeyond(n, Len(TrainingFrame(history, r, t)))
                THEN Learned(r, t)[n] = None /\ Asked(r, t)[n] = Filled
                ELSE Learned(r, t)[n] # None /\ Asked(r, t)[n] = Learned(r, t)[n]

\* As long as no label has come since, Team Track predicts a route from what
\* the last live prediction of its anchor saw, if the table has no more rows of
\* the route than one frame holds (team_track.py, "reproduce the current
\* inference feature contract").
TeamTrackSeesTheSame ==
    \A r \in Route, t \in Time :
        (/\ Comparable(r, t) /\ t = Anchor(history, r)
         /\ served[r][t].past = FrameRows(history, r, Stored(history, r) \ {t})
         /\ Cardinality(Stored(history, r)) <= HistoryWindow)
        => \A h \in 1..Horizon :
               TeamRow(history, r, h)
                   = ServingRow(served[r][t].frame, h, r, Home[r])

\* Every row that is validated on is later than every row of any route that
\* the model was trained on, or the baseline it is compared with.
HoldoutIsLater ==
    Trainable =>
        /\ Trained # {} /\ HeldOut # {}
        /\ \A k \in HeldOut : \A u \in Trained \cup BaselineOf(k) : u[2] < k[2]

\* Every id of an accepted template gets, in the order of the ids, the forecast
\* of its own route for its own timestamp.
SubmissionPairsSteps ==
    \A template \in Template :
        LET rows == Submission(history, TemplateColumns, template)
        IN  rows # Refused =>
                /\ \A i, j \in DOMAIN rows : i < j => rows[i].id < rows[j].id
                /\ {[id |-> rows[i].id, route |-> rows[i].route,
                     at |-> Anchor(history, rows[i].route) + rows[i].step] : i \in DOMAIN rows}
                       = template

\* No file that the dataset upload takes for history is ever answered with a
\* submission, and one that either upload sends on to the other has the columns
\* the other wants.
FlowsAreExclusive ==
    \A columns \in SUBSET Column :
        /\ AsHistory(columns) = "taken" =>
               \A template \in Template : Submission(history, columns, template) = Refused
        /\ AsHistory(columns) = "wrong_flow" => AsTemplate(columns) = "taken"
        /\ AsTemplate(columns) = "wrong_flow" => AsHistory(columns) = "taken"

=============================================================================
