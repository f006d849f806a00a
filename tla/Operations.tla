----------------------------- MODULE Operations -----------------------------
(* The working day of the system around its database.  The scheduler runs    *)
(* prediction cycles (every half hour, and more on request), each of which   *)
(* copies the last known statuses of every route to its anchor, asks the     *)
(* prediction service for forecasts in chunks and then the dispatcher for    *)
(* transport requests, warehouse by warehouse; a backfill job turns later    *)
(* observations into labels and labels into the actuals of past requests.    *)
(* Clients post observations of their own.  An upload replaces the whole     *)
(* snapshot in one transaction, promotes a model trained on it and starts    *)
(* another cycle.  Nothing keeps these apart but the locks of Postgres.      *)
(*                                                                           *)
(* How an order is sized and kept is Dispatching, how a model is promoted is *)
(* ModelPromotion; here an order is known by the cycle that asked for it,    *)
(* and a promotion by its two effects on the prediction service.             *)
EXTENDS StatusHistory

CONSTANTS
    Version,     \* versions minted by training runs
    Seed,        \* the version of the shipped artifacts
    Uploaded,    \* the rows of the dataset that may be uploaded, a History
    Retention,   \* upload_retention_days, in steps
    Horizon,     \* forecast_steps
    Window,      \* forecast_hours_ahead, in steps
    ChunkSize,   \* batch_size
    ColdStart,   \* COLD_START_THRESHOLD, in rows
    MaxCycles,   \* bound: how many cycles are run
    Scenario     \* bounds: what a behaviour starts from and what it may contain

INSTANCE ModelManager

Cycle == 1..MaxCycles

\* Who asks for predictions: a cycle, or a client of POST /predict.
Caller == Cycle \cup {0}

Client == 0

\* Of each kind of event, how many a behaviour may hold.
Budget == [clients: Nat, replays: Nat, uploads: Nat, promotes: Nat, backfills: Nat, faults: Nat]

\* What a cycle does, but for dispatching a warehouse: then it is the warehouse.
Stage == {"none", "statuses", "post", "wait", "warehouses", "ask", "ended"}

ASSUME OperationsAssumption ==
    /\ Stage \cap Warehouse = {}
    /\ Uploaded \in History
    /\ OfThePast(Uploaded)
    /\ RowsOf(Uploaded) # {}
    /\ Retention \in Nat
    /\ Horizon \in Nat \ {0}
    /\ Window \in Nat \ {0}
    /\ ChunkSize \in Nat \ {0}
    /\ ColdStart \in Nat
    /\ MaxCycles \in Nat
    /\ \A x \in Scenario : /\ x.rows \in History
                           /\ OfThePast(x.rows)
                           /\ x.now \in Time
                           /\ x.cycles \in 0..MaxCycles
                           /\ x.model \in Known \cup {None}
                           /\ x.budget \in Budget
                           /\ x.cycles + x.budget.replays + x.budget.uploads <= MaxCycles

VARIABLES
    now,        \* the current step
    history,    \* table route_status_history
    routes,     \* table routes
    forecasts,  \* table forecasts: what was predicted, by which model and under which name
    orders,     \* table transport_requests: the order of each warehouse and slot
    manager,    \* the models of the prediction service
    cycle,      \* where each prediction cycle is
    task,       \* where each prediction is, by caller and route
    upload,     \* where the upload is
    backfill,   \* where the backfill job is
    left,       \* bound: the cycles and the events that may still come
    mixed,      \* history: something was in progress while the snapshot was replaced
    unread      \* history: the versions whose metadata could not be read at a load

Tables == <<history, routes, forecasts, orders>>
Actors == <<cycle, task, upload, backfill>>
vars == <<now, Tables, manager, Actors, left, mixed, unread>>

Spend(kind) == left.budget[kind] > 0 /\ left' = [left EXCEPT !.budget[kind] = @ - 1]

NoCycle == [pc |-> "none", started |-> 0, anchor |-> 0, carry |-> <<>>, todo |-> {},
            chunk |-> {}, asked |-> {}, want |-> {}, status |-> None]

NoTask == [pc |-> "none", anchor |-> 0, seen |-> 0, cold |-> FALSE, by |-> None,
           shadow |-> None, name |-> None]

NoUpload == [pc |-> "none", rows |-> {}, forecasts |-> {}, orders |-> {}, fresh |-> {},
             warehouses |-> {}, runs |-> 0]

CycleRuns(c) == cycle[c].pc \notin {"none", "ended"}

TaskRuns(k, r) == task[k][r].pc \notin {"none", "done", "error"}

InProgress == \/ \E c \in Cycle : CycleRuns(c)
              \/ \E k \in Caller, r \in Route : TaskRuns(k, r)

\* The transaction of refresh_snapshot is open.
Replacing == upload.pc \in {"fill", "rebuild"}

-----------------------------------------------------------------------------
(* The prediction cycle: PipelineOrchestrator.run_prediction_cycle *)

\* A step of time.  A cycle's requests time out after 120 and 30 seconds, so
\* that no cycle outlasts the step after the one it began in.
Tick ==
    /\ now < LastStep
    /\ \A c \in Cycle : CycleRuns(c) => cycle[c].started = now
    /\ now' = now + 1
    /\ UNCHANGED <<Tables, manager, Actors, left, mixed, unread>>

Runs == Cardinality({c \in Cycle : cycle[c].pc # "none"})

\* The cycle is counted and the active routes are read; without any it ends.
Begin(c, anchor) ==
    /\ c = Runs + 1
    /\ cycle' = [cycle EXCEPT ![c] =
            [NoCycle EXCEPT !.pc = IF routes = {} THEN "ended" ELSE "statuses",
                            !.status = IF routes = {} THEN "no_routes" ELSE None,
                            !.started = now, !.anchor = anchor, !.todo = routes]]
    /\ mixed' = (mixed \/ Replacing)

\* The interval job, or POST /pipeline/trigger: the anchor is the current step.
StartCycle(c) ==
    /\ left.cycles > 0
    /\ left' = [left EXCEPT !.cycles = @ - 1]
    /\ Begin(c, now)
    /\ UNCHANGED <<now, Tables, manager, task, upload, backfill, unread>>

\* POST /pipeline/trigger?reference_ts=: the anchor is an earlier step.
StartReplay(c, anchor) ==
    /\ anchor < now
    /\ Spend("replays")
    /\ Begin(c, anchor)
    /\ UNCHANGED <<now, Tables, manager, task, upload, backfill, unread>>

\* get_latest_statuses as of the anchor, one prediction for each route found.
FetchStatuses(c) ==
    /\ cycle[c].pc = "statuses"
    /\ LET latest == LatestStatuses(history, cycle[c].todo, cycle[c].anchor)
       IN  cycle' = [cycle EXCEPT ![c].carry = latest, ![c].todo = DOMAIN latest,
                                  ![c].pc = IF DOMAIN latest = {} THEN "warehouses" ELSE "post"]
    /\ UNCHANGED <<now, Tables, manager, task, upload, backfill, left, mixed, unread>>

\* The next batch_size routes, in the order of their ids.
NextChunk(c) == {r \in cycle[c].todo : Cardinality({q \in cycle[c].todo : q < r}) < ChunkSize}

\* POST /predict/batch: the prediction service starts one task for each route.
PostChunk(c) ==
    /\ cycle[c].pc = "post"
    /\ cycle' = [cycle EXCEPT ![c].pc = "wait", ![c].chunk = NextChunk(c),
                              ![c].todo = @ \ NextChunk(c)]
    /\ task' = [task EXCEPT ![c] = [r \in Route |->
            IF r \in NextChunk(c)
            THEN [NoTask EXCEPT !.pc = "queued", !.anchor = cycle[c].anchor,
                                !.seen = cycle[c].carry[r]]
            ELSE task[c][r]]]
    /\ UNCHANGED <<now, Tables, manager, upload, backfill, left, mixed, unread>>

\* Mutant: the chunk is answered when all its predictions have succeeded.
ChunkAnswered_WhenGood(c) ==
    /\ cycle[c].pc = "wait"
    /\ \A r \in cycle[c].chunk : task[c][r].pc = "done"
    /\ cycle' = [cycle EXCEPT ![c].pc = IF cycle[c].todo = {} THEN "warehouses" ELSE "post",
                              ![c].chunk = {}]
    /\ UNCHANGED <<now, Tables, manager, task, upload, backfill, left, mixed, unread>>

\* gather() returns when every task has, failed ones included, and the answer
\* is 200 however many there were of those.
ChunkAnswered(c) ==
    /\ cycle[c].pc = "wait"
    /\ \A r \in cycle[c].chunk : ~TaskRuns(c, r)
    /\ cycle' = [cycle EXCEPT ![c].pc = IF cycle[c].todo = {} THEN "warehouses" ELSE "post",
                              ![c].chunk = {}]
    /\ UNCHANGED <<now, Tables, manager, task, upload, backfill, left, mixed, unread>>

\* Mutant: a failed chunk is logged and the cycle goes on, as it does for a
\* failed dispatch.
ChunkFails_GoesOn(c) ==
    /\ cycle[c].pc = "wait"
    /\ Spend("faults")
    /\ cycle' = [cycle EXCEPT ![c].pc = IF cycle[c].todo = {} THEN "warehouses" ELSE "post",
                              ![c].chunk = {}]
    /\ UNCHANGED <<now, Tables, manager, task, upload, backfill, mixed, unread>>

\* The request times out or is refused: the cycle has failed, the rest is not
\* asked for and nothing is dispatched.  The prediction service goes on with
\* the tasks it has.
ChunkFails(c) ==
    /\ cycle[c].pc = "wait"
    /\ Spend("faults")
    /\ cycle' = [cycle EXCEPT ![c].pc = "ended", ![c].status = "failed",
                              ![c].todo = {}, ![c].chunk = {}]
    /\ UNCHANGED <<now, Tables, manager, task, upload, backfill, mixed, unread>>

\* get_distinct_warehouses, of the routes there are by now.
ReadWarehouses(c) ==
    /\ cycle[c].pc = "warehouses"
    /\ cycle' = [cycle EXCEPT ![c].pc = "ask", ![c].asked = {Home[r] : r \in routes}]
    /\ UNCHANGED <<now, Tables, manager, task, upload, backfill, left, mixed, unread>>

-----------------------------------------------------------------------------
(* Dispatching a warehouse *)

Steps(f) == f.anchor + 1 .. f.anchor + Horizon

\* The slots a dispatch of w from start on finds forecasts for; forecasts of
\* the primary and of the shadow alike.
Wanted(w, start) ==
    {s \in Time : /\ start <= s /\ s < start + Window
                  /\ \E f \in forecasts : Home[f.route] = w /\ s \in Steps(f)}

\* POST /dispatch: the forecasts are read.  None is answered with 404, which
\* the cycle passes over.
AskDispatcher(c, w) ==
    /\ cycle[c].pc = "ask" /\ w \in cycle[c].asked
    /\ cycle' = [cycle EXCEPT ![c].asked = @ \ {w},
                              ![c].pc = IF Wanted(w, cycle[c].anchor) = {} THEN "ask" ELSE w,
                              ![c].want = Wanted(w, cycle[c].anchor)]
    /\ UNCHANGED <<now, Tables, manager, task, upload, backfill, left, mixed, unread>>

\* Mutant: an order that is written again is planned again.
Upserted_Afresh(order, c) == [by |-> c, actual |-> None]

\* ON CONFLICT DO UPDATE leaves the status and the actuals of a stored order.
Upserted(order, c) == [by |-> c, actual |-> IF order = None THEN None ELSE order.actual]

\* The orders of the wanted slots are stored, but for those that antiflapping
\* leaves as they are.
SaveOrders(c, w) ==
    /\ cycle[c].pc = w
    /\ ~(Replacing /\ \E s \in cycle[c].want : <<w, s>> \in upload.orders)
    /\ \E kept \in SUBSET {s \in cycle[c].want : orders[w][s] # None} :
          orders' = [orders EXCEPT ![w] = [s \in Time |->
              IF s \in cycle[c].want \ kept THEN Upserted(orders[w][s], c) ELSE orders[w][s]]]
    /\ cycle' = [cycle EXCEPT ![c].pc = "ask", ![c].want = {}]
    /\ UNCHANGED <<now, history, routes, forecasts, manager, task, upload, backfill, left, mixed, unread>>

\* Any other answer, or none, is logged and the next warehouse is asked.
DispatchFails(c) ==
    /\ cycle[c].pc \in Warehouse
    /\ Spend("faults")
    /\ cycle' = [cycle EXCEPT ![c].pc = "ask", ![c].want = {}]
    /\ UNCHANGED <<now, Tables, manager, task, upload, backfill, mixed, unread>>

\* All warehouses were asked: the run is recorded as a success.
EndCycle(c) ==
    /\ cycle[c].pc = "ask" /\ cycle[c].asked = {}
    /\ cycle' = [cycle EXCEPT ![c].pc = "ended", ![c].status = "success"]
    /\ UNCHANGED <<now, Tables, manager, task, upload, backfill, left, mixed, unread>>

\* Mutant: the steps are matched by the anchor of their forecast, as they once
\* were.
Listed_ByAnchor(w, s) == {f.route : f \in {g \in forecasts : Home[g.route] = w /\ g.anchor = s}}

\* GET /api/v1/transport-requests: the routes an order is explained by, those
\* with a forecast for its slot, whoever made it and when.
Listed(w, s) == {f.route : f \in {g \in forecasts : Home[g.route] = w /\ s \in Steps(g)}}

-----------------------------------------------------------------------------
(* A prediction: _run_single_prediction *)

Go(k, r, changed) == task' = [task EXCEPT ![k][r] = changed]

\* POST /predict by a client that has measured the statuses itself.
PostObservation(r) ==
    /\ Spend("clients")
    /\ ~TaskRuns(Client, r) /\ r \in routes
    /\ Go(Client, r, [NoTask EXCEPT !.pc = "queued", !.anchor = now, !.seen = now])
    /\ mixed' = (mixed \/ Replacing)
    /\ UNCHANGED <<now, Tables, manager, cycle, upload, backfill, unread>>

\* Mutant: nobody asks whether a model is loaded.
ReadHistory_NoModel(k, r) ==
    /\ task[k][r].pc = "queued"
    /\ Go(k, r, [task[k][r] EXCEPT
                    !.pc = "append", !.cold = Cardinality(Stored(history, r)) < ColdStart])
    /\ UNCHANGED <<now, Tables, manager, cycle, upload, backfill, left, mixed, unread>>

\* Without a model the prediction is refused; else the newest rows are read.
ReadHistory(k, r) ==
    /\ task[k][r].pc = "queued"
    /\ Go(k, r, [task[k][r] EXCEPT
                    !.pc = IF manager.primary.model = None THEN "error" ELSE "append",
                    !.cold = Cardinality(Stored(history, r)) < ColdStart])
    /\ UNCHANGED <<now, Tables, manager, cycle, upload, backfill, left, mixed, unread>>

\* The observation is stored, measured or copied.  A row that the open upload
\* has deleted or inserted makes the statement wait for its commit.
AppendObservation(k, r) ==
    LET t == task[k][r].anchor
    IN  /\ task[k][r].pc = "append"
        /\ ~(Replacing /\ <<r, t>> \in upload.rows \cup upload.fresh)
        /\ history' = Appended(history, r, t, task[k][r].seen)
        /\ Go(k, r, [task[k][r] EXCEPT !.pc = IF task[k][r].cold THEN "average" ELSE "compute"])
        /\ UNCHANGED <<now, routes, forecasts, orders, manager, cycle, upload, backfill, left, mixed, unread>>

\* Cold start: the average of the warehouse stands in for a short history.
ReadAverage(k, r) ==
    /\ task[k][r].pc = "average"
    /\ Go(k, r, [task[k][r] EXCEPT !.pc = "compute"])
    /\ UNCHANGED <<now, Tables, manager, cycle, upload, backfill, left, mixed, unread>>

\* Both models predict.  With a shadow its forecast is saved first; without
\* one the primary's name is read at once.
Compute(k, r) ==
    /\ task[k][r].pc = "compute"
    /\ Go(k, r, [task[k][r] EXCEPT
                    !.pc = IF HasShadow(manager) THEN "shadow" ELSE "primary",
                    !.by = manager.primary.model,
                    !.shadow = manager.shadow.model,
                    !.name = IF HasShadow(manager) THEN ShadowVersion(manager)
                             ELSE RuntimeVersion(manager.primary)])
    /\ UNCHANGED <<now, Tables, manager, cycle, upload, backfill, left, mixed, unread>>

Forecast(k, r, kind) ==
    [from |-> k, route |-> r, anchor |-> task[k][r].anchor, kind |-> kind,
     by |-> IF kind = "shadow" THEN task[k][r].shadow ELSE task[k][r].by,
     name |-> task[k][r].name, beside |-> task[k][r].shadow]

\* Mutant: the shadow's name is read when its forecast has been saved.
SaveShadow_LateName(k, r) ==
    /\ task[k][r].pc = "shadow"
    /\ forecasts' = forecasts \cup
            {[Forecast(k, r, "shadow") EXCEPT !.name = ShadowVersion(manager)]}
    /\ Go(k, r, [task[k][r] EXCEPT !.pc = "primary", !.name = RuntimeVersion(manager.primary)])
    /\ UNCHANGED <<now, history, routes, orders, manager, cycle, upload, backfill, left, mixed, unread>>

\* The shadow's forecast is saved, and only then the primary's name is read.
SaveShadow(k, r) ==
    /\ task[k][r].pc = "shadow"
    /\ forecasts' = forecasts \cup {Forecast(k, r, "shadow")}
    /\ Go(k, r, [task[k][r] EXCEPT !.pc = "primary", !.name = RuntimeVersion(manager.primary)])
    /\ UNCHANGED <<now, history, routes, orders, manager, cycle, upload, backfill, left, mixed, unread>>

SavePrimary(k, r) ==
    /\ task[k][r].pc = "primary"
    /\ forecasts' = forecasts \cup {Forecast(k, r, "primary")}
    /\ Go(k, r, [task[k][r] EXCEPT !.pc = "done"])
    /\ UNCHANGED <<now, history, routes, orders, manager, cycle, upload, backfill, left, mixed, unread>>

\* The database refuses: before the features are built the prediction fails,
\* afterwards only the row is lost.
TaskFails(k, r) ==
    /\ TaskRuns(k, r) /\ task[k][r].pc # "compute"
    /\ Spend("faults")
    /\ Go(k, r, CASE task[k][r].pc = "shadow" ->
                        [task[k][r] EXCEPT !.pc = "primary", !.name = RuntimeVersion(manager.primary)]
                  [] task[k][r].pc = "primary" -> [task[k][r] EXCEPT !.pc = "done"]
                  [] OTHER -> [task[k][r] EXCEPT !.pc = "error"])
    /\ UNCHANGED <<now, Tables, manager, cycle, upload, backfill, mixed, unread>>

-----------------------------------------------------------------------------
(* Backfill: BackfillRunner.run_backfill, one interval job *)

\* backfill_target_2h; rows of an open upload make it wait for the commit.
BackfillTargets ==
    /\ backfill = "idle"
    /\ Spend("backfills")
    /\ ~(Replacing /\ \E k \in upload.rows : Labelled(history, k[1], k[2], now))
    /\ history' = BackfillLabels(history, now)
    /\ backfill' = "actuals"
    /\ UNCHANGED <<now, routes, forecasts, orders, manager, cycle, task, upload, mixed, unread>>

\* The orders backfill_transport_request_actuals finds: without actuals, two
\* hours old, and with a label of some route of the warehouse at the slot.
Mature(w, s) ==
    /\ orders[w][s] # None /\ orders[w][s].actual = None
    /\ s + Lag <= now
    /\ SlotLabels(history, w, s) # {}

\* The labels are added up into the actuals and the order is completed.
BackfillActuals ==
    /\ backfill = "actuals"
    /\ ~(Replacing /\ \E k \in upload.orders : Mature(k[1], k[2]))
    /\ orders' = [w \in Warehouse |-> [s \in Time |->
            IF Mature(w, s) THEN [orders[w][s] EXCEPT !.actual = SlotLabels(history, w, s)]
            ELSE orders[w][s]]]
    /\ backfill' = "idle"
    /\ UNCHANGED <<now, history, routes, forecasts, manager, cycle, task, upload, left, mixed, unread>>

\* The second statement fails: its turn comes with the next pass.
BackfillFails ==
    /\ backfill = "actuals"
    /\ Spend("faults")
    /\ backfill' = "idle"
    /\ UNCHANGED <<now, Tables, manager, cycle, task, upload, mixed, unread>>

-----------------------------------------------------------------------------
(* Uploading a dataset: POST /upload-dataset *)

UploadMax == Max({k[2] : k \in RowsOf(Uploaded)})

\* The rows within the retention window, its first step included.
Retained == {k \in RowsOf(Uploaded) : k[2] >= UploadMax - Retention}

OrderKeys == {k \in Warehouse \X Time : orders[k[1]][k[2]] # None}

\* refresh_snapshot, the DELETEs: what is committed by now will be gone.
ClearSnapshot ==
    /\ upload.pc = "none"
    /\ Spend("uploads")
    /\ upload' = [upload EXCEPT !.pc = "fill", !.rows = RowsOf(history),
                                !.forecasts = forecasts, !.orders = OrderKeys]
    /\ mixed' = (mixed \/ InProgress)
    /\ UNCHANGED <<now, Tables, manager, cycle, task, backfill, unread>>

\* What the transaction sees: rows that others committed since it began stay,
\* also in the place of an uploaded row (ON CONFLICT DO NOTHING).
Seen(fresh) ==
    [r \in Route |-> [t \in Time |->
        IF <<r, t>> \in fresh THEN Uploaded[r][t]
        ELSE IF <<r, t>> \in upload.rows THEN None ELSE history[r][t]]]

WarehousesOf(h) == {Home[r] : r \in {q \in Route : Stored(h, q) # {}}}

\* Mutant: the rows are inserted before the old ones are deleted.
Inserted_First == {k \in Retained : history[k[1]][k[2]] = None}

\* What the INSERT takes: retained rows whose place is free, or was emptied.
Inserted == {k \in Retained : k \in upload.rows \/ history[k[1]][k[2]] = None}

\* The retained rows are inserted and the warehouses derived from the table.
FillSnapshot ==
    /\ upload.pc = "fill"
    /\ upload' = [upload EXCEPT !.pc = "rebuild", !.fresh = Inserted,
                                !.warehouses = WarehousesOf(Seen(Inserted))]
    /\ UNCHANGED <<now, Tables, manager, cycle, task, backfill, left, mixed, unread>>

\* Mutant: the routes of the last snapshot are kept.
RebuiltRoutes_Kept(h) == routes \cup {r \in Route : Stored(h, r) # {}}

RebuiltRoutes(h) == {r \in Route : Stored(h, r) # {}}

\* The routes are derived from the table, and the transaction commits.  It
\* fails on the foreign key of a route whose warehouse was not there yet.
CommitSnapshot ==
    /\ upload.pc = "rebuild"
    /\ IF WarehousesOf(Seen(upload.fresh)) \subseteq upload.warehouses
       THEN /\ history' = Seen(upload.fresh)
            /\ routes' = RebuiltRoutes(Seen(upload.fresh))
            /\ forecasts' = forecasts \ upload.forecasts
            /\ orders' = [w \in Warehouse |-> [s \in Time |->
                             IF <<w, s>> \in upload.orders THEN None ELSE orders[w][s]]]
            /\ upload' = [NoUpload EXCEPT !.pc = "train"]
       ELSE upload' = [NoUpload EXCEPT !.pc = "failed"] /\ UNCHANGED Tables
    /\ UNCHANGED <<now, manager, cycle, task, backfill, left, mixed, unread>>

AbortSnapshot ==
    /\ Replacing
    /\ Spend("faults")
    /\ upload' = [NoUpload EXCEPT !.pc = "failed"]
    /\ UNCHANGED <<now, Tables, manager, cycle, task, backfill, mixed, unread>>

\* run_retrain_cycle with FORCE_PRIMARY, first effect: the new model is in the
\* shadow slot.  Without labelled rows it is skipped, and the upload done.
TrainOnSnapshot(v) ==
    /\ upload.pc = "train"
    /\ IF TrainingRows(history, Retention, UploadMax) = {}
       THEN upload' = [upload EXCEPT !.pc = "done"] /\ manager' = manager
       ELSE /\ upload' = [upload EXCEPT !.pc = "promote"]
            /\ manager' = LoadShadow(manager, v, TRUE)
    /\ UNCHANGED <<now, Tables, cycle, task, backfill, left, mixed, unread>>

\* Second effect: it becomes the primary.
PromoteUploaded ==
    /\ upload.pc = "promote" /\ HasShadow(manager)
    /\ upload' = [upload EXCEPT !.pc = "trigger"]
    /\ manager' = PromoteShadow(manager)
    /\ UNCHANGED <<now, Tables, cycle, task, backfill, left, mixed, unread>>

\* Somebody else has emptied the slot, or the call failed: no trigger.
PromotionRefused ==
    /\ upload.pc = "promote"
    /\ IF HasShadow(manager) THEN Spend("faults") ELSE left' = left
    /\ upload' = [upload EXCEPT !.pc = "done"]
    /\ UNCHANGED <<now, Tables, manager, cycle, task, backfill, mixed, unread>>

\* _trigger_pipeline waits for the cycle's end.
TriggerCycle(c) ==
    /\ upload.pc = "trigger"
    /\ Begin(c, now)
    /\ upload' = [upload EXCEPT !.pc = "wait", !.runs = c]
    /\ UNCHANGED <<now, Tables, manager, task, backfill, left, unread>>

\* Mutant: the upload waits for a cycle that succeeds.
UploadDone_OnSuccess ==
    /\ \/ upload.pc = "wait" /\ cycle[upload.runs].status = "success" /\ left' = left
       \/ upload.pc \in {"trigger", "wait"} /\ Spend("faults")
    /\ upload' = [upload EXCEPT !.pc = "done"]
    /\ UNCHANGED <<now, Tables, manager, cycle, task, backfill, mixed, unread>>

\* The cycle's answer, or 120 seconds, or a scheduler that cannot be reached:
\* all the same to the upload.
UploadDone ==
    /\ \/ upload.pc = "wait" /\ ~CycleRuns(upload.runs) /\ left' = left
       \/ upload.pc \in {"trigger", "wait"} /\ Spend("faults")
    /\ upload' = [upload EXCEPT !.pc = "done"]
    /\ UNCHANGED <<now, Tables, manager, cycle, task, backfill, mixed, unread>>

\* The metadata of the loaded model cannot be read: the call has failed, and the
\* model is in the slot.
ShadowUnread(v) ==
    /\ manager' = LoadShadowUnread(manager, v)
    /\ unread' = unread \cup {v}

\* The upload's own model: no promotion and no trigger.
UploadedUnread(v) ==
    /\ upload.pc = "train" /\ TrainingRows(history, Retention, UploadMax) # {}
    /\ Spend("faults")
    /\ ShadowUnread(v)
    /\ upload' = [upload EXCEPT !.pc = "done"]
    /\ UNCHANGED <<now, Tables, cycle, task, backfill, mixed>>

\* A retrain or an operator loads a challenger, or makes it the primary.
LoadChallenger(v) ==
    /\ Spend("promotes")
    /\ manager' = LoadShadow(manager, v, TRUE)
    /\ UNCHANGED <<now, Tables, Actors, mixed, unread>>

ChallengerUnread(v) ==
    /\ Spend("promotes")
    /\ ShadowUnread(v)
    /\ UNCHANGED <<now, Tables, Actors, mixed>>

PromoteChallenger ==
    /\ Spend("promotes")
    /\ HasShadow(manager)
    /\ manager' = PromoteShadow(manager)
    /\ UNCHANGED <<now, Tables, Actors, mixed, unread>>

-----------------------------------------------------------------------------
(* Specification *)

\* A behaviour starts from the rows, routes and model of a scenario.
Init ==
    /\ \E x \in Scenario :
          /\ now = x.now
          /\ history = x.rows
          /\ routes = {r \in Route : Stored(x.rows, r) # {}}
          /\ manager = IF x.model = None THEN NoModels
                       ELSE [NoModels EXCEPT !.primary = [model |-> x.model, meta |-> x.model,
                                                          from |-> "canonical"]]
          /\ left = [cycles |-> x.cycles, budget |-> x.budget]
    /\ forecasts = {}
    /\ orders = [w \in Warehouse |-> [s \in Time |-> None]]
    /\ cycle = [c \in Cycle |-> NoCycle]
    /\ task = [k \in Caller |-> [r \in Route |-> NoTask]]
    /\ upload = NoUpload
    /\ backfill = "idle"
    /\ mixed = FALSE
    /\ unread = {}

CycleStep(c) ==
    \/ FetchStatuses(c)
    \/ PostChunk(c)
    \/ ChunkAnswered(c)
    \/ ReadWarehouses(c)
    \/ \E w \in Warehouse : AskDispatcher(c, w) \/ SaveOrders(c, w)
    \/ EndCycle(c)

TaskStep(k, r) ==
    \/ ReadHistory(k, r)
    \/ AppendObservation(k, r)
    \/ ReadAverage(k, r)
    \/ Compute(k, r)
    \/ SaveShadow(k, r)
    \/ SavePrimary(k, r)

UploadStep ==
    \/ FillSnapshot
    \/ CommitSnapshot
    \/ \E v \in Version : TrainOnSnapshot(v)
    \/ PromoteUploaded
    \/ PromotionRefused
    \/ \E c \in Cycle : TriggerCycle(c)
    \/ UploadDone

Next ==
    \/ Tick
    \/ \E c \in Cycle :
          \/ StartCycle(c)
          \/ \E anchor \in Time : StartReplay(c, anchor)
          \/ CycleStep(c)
          \/ ChunkFails(c)
          \/ DispatchFails(c)
    \/ \E r \in Route : PostObservation(r)
    \/ \E k \in Caller, r \in Route : TaskStep(k, r) \/ TaskFails(k, r)
    \/ BackfillTargets
    \/ BackfillActuals
    \/ BackfillFails
    \/ ClearSnapshot
    \/ UploadStep
    \/ AbortSnapshot
    \/ \E v \in Version : LoadChallenger(v) \/ ChallengerUnread(v) \/ UploadedUnread(v)
    \/ PromoteChallenger

Spec == Init /\ [][Next]_vars

\* Every handler goes on once the statement or the call it awaits returns.
FairSpec ==
    /\ Spec
    /\ \A c \in Cycle : WF_vars(CycleStep(c))
    /\ \A k \in Caller, r \in Route : WF_vars(TaskStep(k, r))
    /\ WF_vars(UploadStep)
    /\ WF_vars(BackfillActuals)

-----------------------------------------------------------------------------
(* Properties *)

Name == Known \cup {None}

CycleRecord == [pc: Stage \cup Warehouse,
                started: Time, anchor: Time, carry: UNION {[rs -> Time] : rs \in SUBSET Route},
                todo: SUBSET Route, chunk: SUBSET Route, asked: SUBSET Warehouse,
                want: SUBSET Time, status: {None, "no_routes", "failed", "success"}]

TaskRecord == [pc: {"none", "queued", "append", "average", "compute", "shadow", "primary",
                    "done", "error"},
               anchor: Time, seen: Time, cold: BOOLEAN, by: Name, shadow: Name, name: Name]

ForecastRow == [from: Caller, route: Route, anchor: Time, kind: {"primary", "shadow"},
                by: Known, name: Name, beside: Name]

OrderRow == [by: Cycle, actual: {None} \cup SUBSET (Route \X Time)]

UploadRecord == [pc: {"none", "fill", "rebuild", "train", "promote", "trigger", "wait", "done",
                      "failed"},
                 rows: SUBSET (Route \X Time), forecasts: SUBSET ForecastRow,
                 orders: SUBSET (Warehouse \X Time), fresh: SUBSET (Route \X Time),
                 warehouses: SUBSET Warehouse, runs: Cycle \cup {0}]

TypeOK ==
    /\ now \in Time
    /\ history \in History
    /\ routes \in SUBSET Route
    /\ forecasts \in SUBSET ForecastRow
    /\ orders \in [Warehouse -> [Time -> OrderRow \cup {None}]]
    /\ manager \in Manager
    /\ cycle \in [Cycle -> CycleRecord]
    /\ task \in [Caller -> [Route -> TaskRecord]]
    /\ upload \in UploadRecord
    /\ backfill \in {"idle", "actuals"}
    /\ left \in [cycles: Nat, budget: Budget]
    /\ mixed \in BOOLEAN
    /\ unread \in SUBSET Version

\* A forecast row names the model that made it, whatever is loaded or promoted
\* while it is saved, with two exceptions: a primary row whose prediction had a
\* shadow beside it may carry the shadow's name, if that became the primary in
\* between, and a primary whose metadata could not be read when it was loaded as
\* shadow goes by another's.  The scheduler's quality check scores models by
\* these names.
ForecastsNameTheirMaker ==
    \A f \in forecasts :
        /\ f.kind = "shadow" => f.name = f.by
        /\ f.kind = "primary" /\ f.beside = None => f.name = f.by \/ f.by \in unread

\* Statuses are never copied from the future into the past: a row holds what
\* was measured at its own step or earlier, replays included
\* (get_latest_statuses, as_of).
StatusesOfThePast == OfThePast(history)

\* An order is placed by a cycle only when all its predictions have come to an
\* end: a cycle whose chunk timed out dispatches nothing on half the routes,
\* though the tasks of that chunk go on (run_prediction_cycle,
\* raise_for_status).
OrdersFollowPredictions ==
    \A w \in Warehouse, s \in Time :
        orders[w][s] # None =>
            \A r \in DOMAIN cycle[orders[w][s].by].carry :
                task[orders[w][s].by][r].pc \in {"done", "error"}

\* Every order that is listed is listed with routes, later cycles, replays and
\* failures notwithstanding (get_transport_requests_window; only an upload that
\* overlaps the dispatch takes the forecasts away and leaves the orders).
OrdersAreExplained ==
    \A w \in Warehouse, s \in Time : orders[w][s] # None => mixed \/ Listed(w, s) # {}

\* The actuals of an order are labels of its warehouse at its slot, and those
\* labels still stand, however often their rows were written since
\* (append_status_observation keeps them, backfill_target_2h fills only gaps).
ActualsFromLabels ==
    \A w \in Warehouse, s \in Time :
        (orders[w][s] # None /\ orders[w][s].actual # None) =>
            \/ mixed
            \/ /\ orders[w][s].actual \subseteq SlotLabels(history, w, s)
               /\ s + Lag <= now

\* Once an order has its actuals, only a replay of a past cycle plans it anew:
\* the accuracy of orders (/api/v1/metrics/business) compares the two.
CompletedStands ==
    [][\A w \in Warehouse, s \in Time :
          (/\ orders[w][s] # None /\ orders[w][s].actual # None
           /\ orders'[w][s] # None /\ orders'[w][s] # orders[w][s])
          => /\ cycle[orders'[w][s].by].anchor < cycle[orders'[w][s].by].started
             /\ orders'[w][s].actual = orders[w][s].actual]_vars

\* When nothing else was in progress, an upload leaves tables that agree: the
\* routes are those of the retained rows, and forecasts and orders speak of
\* none but them (upload.py, "the retained dataset, active model, and derived
\* tables stay aligned").
SnapshotAligned ==
    upload.pc \in {"train", "promote", "trigger", "wait", "done"} =>
        /\ routes = {k[1] : k \in Retained}
        /\ \A k \in RowsOf(history) : k[1] \in routes
        /\ \A f \in forecasts : f.route \in routes
        /\ \A w \in Warehouse, s \in Time : orders[w][s] # None => \E r \in routes : Home[r] = w

AlignedUnlessOverlapped == mixed \/ SnapshotAligned

\* The retained rows themselves are all there after the commit, under whatever
\* was going on.
RetainedRowsKept ==
    upload.pc \in {"train", "promote", "trigger", "wait", "done"} =>
        \A k \in Retained : history[k[1]][k[2]] # None

\* Every cycle ends, also when predictions wait for the rows of an upload.
CycleEnds == \A c \in Cycle : CycleRuns(c) ~> cycle[c].pc = "ended"

\* Every upload is answered, though it waits for a cycle it has started itself.
UploadAnswered == upload.pc # "none" ~> upload.pc \in {"done", "failed"}

=============================================================================
