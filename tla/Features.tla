------------------------------ MODULE Features ------------------------------
(* What a model sees of a route: the feature row.  The prediction service    *)
(* (InferenceFeatureEngine) and the retraining service's clone of it for     *)
(* Team Track (LocalInferenceFeatureEngine) compute it for the last row of a *)
(* short history, the trainer (ModelTrainer.build_features) for every row of *)
(* its training frame at once.                                               *)
(*                                                                           *)
(* A frame is a sequence of rows [at, seen, label] in the order of their     *)
(* timestamps.  A feature is not a number here but what it is computed from: *)
(* a lag the value it picks, a difference its two values, a rolling or       *)
(* historical statistic the values in its window.  The inventory sums and    *)
(* shares of a row are functions of its statuses, which "seen" stands for.   *)
EXTENDS Integers, Sequences, FiniteSets

CONSTANTS
    Lags,       \* TARGET_LAGS, INVENTORY_LAGS, DETAILED_STATUS_LAGS
    Periods,    \* TARGET_DIFF_PERIODS, INVENTORY_DIFF_PERIODS
    Windows,    \* TARGET_ROLLING_WINDOWS, INVENTORY_ROLLING_WINDOWS
    Horizon,    \* forecast_steps
    DaySteps,   \* the steps of a day, 48 in the code
    Holidays,   \* HOLIDAY_DATES, as days
    None,       \* NaN
    Zero,       \* the 0.0 that stands in for a target nobody knows yet
    Filled      \* the fill value of a column: a median of the training frame, or 0

-----------------------------------------------------------------------------
(* Rows *)

\* A row is a function on the names of its columns, and a row beside another
\* is both, with the columns of the first where they share one.
row ++ other ==
    [n \in DOMAIN row \cup DOMAIN other |-> IF n \in DOMAIN row THEN row[n] ELSE other[n]]

\* The row of one column.
Single(name, value) == [n \in {<<name>>} |-> value]

-----------------------------------------------------------------------------
(* The calendar: _add_time_features *)

\* Weekday, part of the day (its quarter), slot and holiday of a step.
Calendar(t) ==
    Single("dow", (t \div DaySteps) % 7)
    ++ Single("pod", ((t % DaySteps) * 4) \div DaySteps)
    ++ Single("slot", t % DaySteps)
    ++ Single("holiday", (t \div DaySteps) \in Holidays)

-----------------------------------------------------------------------------
(* Features of a series *)

\* shift(lag), and values[n - 1 - lag]: the value so many ROWS earlier.
LagOf(s, lag) == IF lag < Len(s) THEN s[Len(s) - lag] ELSE None

\* The last value less the one so many rows earlier; NaN if either is.
DiffOf(s, period) ==
    IF period < Len(s) /\ None \notin {s[Len(s)], s[Len(s) - period]}
    THEN <<s[Len(s)], s[Len(s) - period]>>
    ELSE None

Before(s) == SubSeq(s, 1, Len(s) - 1)

Newest(s, n) == SubSeq(s, IF Len(s) > n THEN Len(s) - n + 1 ELSE 1, Len(s))

Holds(w, v) == \E i \in DOMAIN w : w[i] = v

\* _add_rolling_features: the window ends before the current value; numpy's
\* mean, max and min are NaN if any value is, the deviation of fewer than two
\* values is 0.
ServingStat(kind, s, window) ==
    LET w == Newest(Before(s), window)
    IN  IF kind = "std" /\ Len(w) < 2 THEN <<>>
        ELSE IF w = <<>> \/ Holds(w, None) THEN None ELSE w

\* What a window holds besides NaN, each value in its place.
Valid(w) == [i \in {j \in DOMAIN w : w[j] # None} |-> w[i]]

\* Mutant: the rolling window is taken without shift(1).
TrainingStat_Unshifted(kind, s, window) ==
    LET w == Valid(Newest(s, window))
    IN  IF kind = "std" /\ Cardinality(DOMAIN w) < 2 THEN <<>>
        ELSE IF DOMAIN w = {} THEN None ELSE w

\* _add_grouped_rolling_features: the same window on shift(1); pandas passes
\* over NaN, min_periods is 1, and 2 for the deviation, else 0.
TrainingStat(kind, s, window) ==
    LET w == Valid(Newest(Before(s), window))
    IN  IF kind = "std" /\ Cardinality(DOMAIN w) < 2 THEN <<>>
        ELSE IF DOMAIN w = {} THEN None ELSE w

SeriesNames(series) ==
    ({series} \X {"lag"} \X Lags) \cup ({series} \X {"diff"} \X Periods)
        \cup ({series} \X {"mean", "std"} \X Windows)

\* The features of the last value of a series, as the engine or as the trainer
\* computes them; "mean" is the maximum and the minimum as well.
SeriesFeatures(series, s, side) ==
    [n \in SeriesNames(series) |->
        CASE n[2] = "lag" -> LagOf(s, n[3])
          [] n[2] = "diff" -> DiffOf(s, n[3])
          [] n[2] \in {"mean", "std"} /\ side = "serving" -> ServingStat(n[2], s, n[3])
          [] n[2] \in {"mean", "std"} /\ side = "training" -> TrainingStat(n[2], s, n[3])]

Statuses(frame) == [i \in DOMAIN frame |-> frame[i].seen]

Targets(frame) == [i \in DOMAIN frame |-> frame[i].label]

\* _compute_target_hist_features: all targets but the last one, whatever the
\* group; alone, the last one itself.
TargetHistory(s) ==
    IF Len(s) < 2 THEN s ELSE IF Holds(Before(s), None) THEN None ELSE Before(s)

-----------------------------------------------------------------------------
(* Static aggregates: save_static_aggs, _merge_static_aggs *)

\* The groups that are saved, in their order, and whose columns each has: of
\* the single statuses, of the inventory totals.
Tables == <<[by |-> {"route"}, of |-> {"status", "total"}],
            [by |-> {"office"}, of |-> {"status", "total"}],
            [by |-> {"route", "dow"}, of |-> {"status", "total"}],
            [by |-> {"route", "pod"}, of |-> {"status", "total"}],
            [by |-> {"route", "slot"}, of |-> {"total"}]>>

\* What a row is grouped by: route and office, and its weekday, part of day
\* and slot.
GroupKey(route, office, calendar) ==
    [k \in {"route", "office", "dow", "pod", "slot"} |->
        CASE k = "route" -> route [] k = "office" -> office [] OTHER -> calendar[<<k>>]]

\* Each table is joined in turn, and a column it shares with an earlier one
\* replaces that one's: of every column the last table's group remains.
MergedAggs(key) ==
    [n \in {<<"aggregate", "status">>, <<"aggregate", "total">>} |->
        LET last == CHOOSE i \in DOMAIN Tables :
                        /\ n[2] \in Tables[i].of
                        /\ \A j \in DOMAIN Tables : n[2] \in Tables[j].of => j <= i
        IN  [k \in Tables[last].by |-> key[k]]]

-----------------------------------------------------------------------------
(* Feature rows *)

\* _fill_na
FillNa(row) == [n \in DOMAIN row |-> IF row[n] = None THEN Filled ELSE row[n]]

\* InferenceFeatureEngine.build_features, row h: the future's calendar, and all
\* else of the last row of the frame.
ServingRow(frame, h, route, office) ==
    LET last == frame[Len(frame)]
        calendar == Calendar(last.at + h)
    IN  FillNa(calendar
               ++ Single("horizon_step", h)
               ++ Single("statuses", last.seen)
               ++ SeriesFeatures("status", Statuses(frame), "serving")
               ++ SeriesFeatures("target", Targets(frame), "serving")
               ++ Single("target_hist", TargetHistory(Targets(frame)))
               ++ MergedAggs(GroupKey(route, office, calendar)))

\* ModelTrainer.build_features, the row at the end of the frame: grouped shifts
\* reach back to the beginning of the route's frame.
TrainingRow(frame) ==
    LET last == frame[Len(frame)]
    IN  Calendar(last.at)
        ++ Single("horizon_step", 1)
        ++ Single("statuses", last.seen)
        ++ SeriesFeatures("status", Statuses(frame), "training")
        ++ SeriesFeatures("target", Targets(frame), "training")

\* _align_features: the columns the model was trained on, missing ones as NaN.
Aligned(row, names) == [n \in names |-> IF n \in DOMAIN row THEN row[n] ELSE None]

=============================================================================
