# Verification of the WildHack forecasting and dispatch services

TLA+ models, TLC runs and TLAPS proofs of the control logic of the services
under `src/services`: how a trained model becomes the one that answers
predictions, how forecasts become truck orders, and how the system watches its
own quality. Every definition is translated from the source; `PROJECT.json`
("map") names the lines each one stands for.

## 1. The system

Five processes (Docker containers, `restart: unless-stopped`) share one
Postgres database and one `models/` volume and talk HTTP. Each Python service is
one asyncio event loop: coroutines interleave at their awaits and nowhere else,
except for work handed to an executor thread.

| Component | State | Operations | Hard behaviour | What makes it correct | Modelled |
|---|---|---|---|---|---|
| **Model promotion**: retraining service `core/orchestration.py`, `core/registry.py`, `api/routes.py`; prediction service `core/model.py` and its model endpoints | `_retrain_lock`; artifacts and canonical files on disk; table `model_metadata`; the predictor's primary and shadow slots and feature tables | `run_retrain_cycle` (retrain, upload), `promote_version`, `load_shadow`, `promote_to_shadow`, `promote_to_primary`, predictor start-up, `/model/reload`, `/model/shadow/*` | four processes and a thread write slots, files and rows; two-request promotion; httpx timeouts with the call still served; crashes between any two steps; torn files | only registered models are ever served; a slot and its label agree; the canonical pair is whole; a comparison is not stale; an upload's promise holds; every request is answered | `ModelManager`, `ModelPromotion`, `ModelSlots` |
| **Dispatcher planning**: `core/dispatcher.py`, `api/routes.py`, `storage/postgres.py` | tables `forecasts` (read), `transport_requests` | `POST /dispatch` with a range or explicit steps: range query, aggregation, sizing, antiflapping, upsert | overlapping READ COMMITTED transactions, row locks, rounding, skipped updates, many rows per slot | no step lost; orders do not churn and do not drift; the load is carried; every request ends | `Dispatching` |
| **Quality checks**: scheduler `core/quality.py` | streak and its version, in memory; reads forecast/actual pairs | `run_quality_check`, `_trigger_retrain`, `_trigger_shadow_promote` | interval job and manual trigger share the streak; lost answers; restarts; the shadow is guessed from pair counts | the streak is earned by the version it names; a promotion is deserved; the current shadow is the one judged | `QualityChecks` |
| **Pipeline**: scheduler `core/pipeline.py`, `main.py` | run counter, last status, table `pipeline_runs` | prediction cycle: statuses, chunked batch predict, one dispatch per warehouse, run record | overlapping cycles, replays of earlier anchors, chunk failure half-way, failed dispatches reported as success | statuses come from the past of the anchor; orders follow the predictions they are made from; every cycle ends | `Operations` |
| **Forecasting**: prediction service `POST /predict`, `/predict/batch`, `core/feature_engine.py` | none of its own; writes `forecasts` and status history | history query, append, cold start, features, primary and shadow prediction, two saves | the label is read after awaits that follow the model call; rows appended by others | a stored forecast is labelled with the model that computed it; a model is shown the features it learnt | `Operations`, `Features`, `Learning` |
| **Backfill**: scheduler `core/backfill.py`, two SQL updates | labels in `route_status_history`, actuals and status in `transport_requests` | every 30 minutes: `target_2h` of old rows, actuals of orders | partial labels frozen into an order; late upserts of completed orders; rows replaced under it | what an order was completed with still stands | `StatusHistory`, `Operations` |
| **Dataset upload and snapshot**: retraining `api/upload.py`, `storage/postgres.py` | snapshot tables | `POST /upload-dataset` | replacing history under running cycles, clients and backfill; a cycle of its own | retained rows are there, derived tables agree with them; every upload is answered | `Operations` |
| **Training**: `core/trainer.py`, `baseline.py` | files | frames, features, split, baseline, aggregates, LightGBM, scoring | the same features computed three times in two services | training and serving agree; validation is later than training | `Features`, `Learning`; its files and score in `ModelPromotion` |
| **Team Track**: `core/team_track.py` | none | templates, history windows, a clone of the feature engine, submission | rows in any order; a history that moves on | every template row gets its own forecast, from what a live prediction would see; what is offered loads | `Features`, `Learning`; its bundle in `ModelPromotion` |
| **Dispatcher read API**: `api/routes_v1.py` | none | transport requests with their routes; listings, KPIs | orders and forecasts are joined long after | a listed order is explained; a right forecast counts as accurate | one query in `Operations`, order accuracy in `Dispatching` |
| **Dashboard, infrastructure, scripts, experiments** | none or deployment only | proxies | none | - | not modelled |

Interactions: the scheduler calls `/predict/batch` (prediction), `/dispatch`
(dispatcher), `/retrain` and `/models/{v}/promote` (retraining); retraining calls
`/model/shadow/load`, `/model/shadow/promote`, `/model/reload-features`
(prediction) and `/pipeline/trigger` (scheduler); prediction and dispatcher meet
in table `forecasts`; the quality checks read what prediction wrote and what
backfill labelled.

## 2. Plan

1. Model promotion: the slots, the protocol and what it implements, with its
   type invariant and its two served-model invariants proved. *Done.*
2. Dispatching: sizing, range query, antiflapping transaction. *Done.*
3. Quality checks: streak, retrain and promote calls. *Done.*
4. The table three services share, and a working day around it: cycles,
   predictions, dispatches, backfill, upload, with the slot operators of
   `ModelManager`. *Done.*
5. What training, live prediction and Team Track make of the same rows. *Done.*
6. Proofs: every invariant and action property of the passing runs, and the
   refinement step by step (section 5). *Done.*
7. Left: an abstract order book that a single dispatcher implements and several do
   not; an agreement of training and prediction for rows whose older rows have left the
   training window (there it holds only of what does not reach beyond it); the
   three hazards without a property.

## 3. Modules

### ModelManager, ModelPromotion, ModelSlots

`ModelManager` is `prediction-service/app/core/model.py` as operators on a record
`[primary, shadow]`. A slot keeps the version of the model object and the version
its metadata names, because they are two fields written at two moments, and
whether it came from a versioned artifact or from `model.pkl`, whose name says
nothing about its version. Two methods may fail with half their work done: `load`
and `load_shadow` assign the model before they open its metadata, and undo nothing when
that cannot be read. The first is two steps, because other processes write the pair in
between, and may end after the first (`LoadFails`); the second is one step
(`LoadShadow`) or its first half alone (`LoadShadowUnread`). Mock mode is not modelled.

`ModelPromotion` is the protocol. A `Job` is a handler that runs
`run_retrain_cycle` under `_retrain_lock` (`/retrain`, `/upload-dataset`); a
`Caller` is a handler of `/models/{v}/promote` or `/models/{v}/shadow`, which takes
no lock. `task[p].pc` is the await the handler stands at. Steps that are
synchronous in the code are one action, with two exceptions that the properties
need in pieces: the copy block of `promote_to_primary`, four file copies during
which `loop` keeps all other coroutines of the service from running while the
prediction service, executor threads and crashes go on; and `save_static_aggs`,
which runs in a thread and opens (`Torn`) and fills each canonical file. Its
write of the versioned file is joined to the opening of the canonical one. A
request to the prediction service is an element of `calls`: sending, serving and
receiving are three steps, a timeout abandons a request that may still be served.
A shadow load whose metadata cannot be read (`ShadowLoadFails`, a file error) is answered
with an error and leaves its model in the slot, where the next promote, of whatever
version, finds it: a promote of one version, and between its two calls a shadow load of another
that fails in this way, make the other the primary under the name of the first.
`PromotedIsWhole` therefore exempts the versions in `unread`, a history variable of those
this has happened to, and says that no other one is touched.
`Fault` says which disturbances a run admits, `MaxFaults` how many. `ready` are the
versions whose cycle got `save_static_aggs` to its end, which is what
`evaluation_ready` says once they are registered; `Bundle` is what Team Track
loads for a run, from a version offered or from the canonical files.

Left out: authentication; the counters and times in answers; `reload_features`
reads both tables in one step; a Job waiting for the lock (both handlers answer
409 instead); the merge and snapshot of an upload, which happen before its cycle.

`ModelSlots` is the promise seen from outside: one primary, at most one shadow, a
durable version to which restarts and reloads go back, and a registry which a
version must have entered before it can appear. `ModelPromotion!ImplementsSlots`
is the refinement.

### Dispatching

One warehouse (nothing crosses warehouses), time in steps, a forecast row carries
one value for all its steps, containers are whole numbers and the safety margin is
in thousandths. The code computes the number of trucks in floats, which are on the other
side of a whole number only where the exact quotient is one: 330 containers with a tenth
of margin fill 11 trucks of 33, and `math.ceil` gets 11.000000000000002 and says 12.
`RoundsUp` are the totals with which that happens, `Excess` the truck it costs. `CreateDispatch` is the range query and the aggregation (one
statement), `FetchExisting` the unlocked read of the stored orders with the
filter, `Upsert` one insert, which takes the row lock or waits, `Commit` makes all
of them visible, `Rollback` none. `forecasts` is a bag: the table has no key that
would keep two cycles from storing the same forecast. `Containers` is what each
forecast contributes, `Total` what a slot adds up to (`SumFunctionOnSet` of the
community modules). `asked` is a history
variable: what the last stored decision counted. `Accurate` is what
`/metrics/business` counts an order as, against the vehicles that the backfill
computes from observed units.

### QualityChecks

A `Check` is a run of `run_quality_check`, by the interval job or by
`POST /quality/trigger`; its awaits are the query, the retrain call and the promote
call, and everything between two of them is one action. `window` holds the slots
of the prediction cycles of the last six hours. An older cycle has more of its
steps observed, so a cycle counts one pair for every interval since it ran.
Which errors come out is a nondeterministic verdict (`win`, `alert`): the
comparison of two error measures over arbitrary data may go either way.
`verdicts` is a history variable with the last `Threshold` verdicts. Not modelled:
the metrics kept for display and written to the database.

### StatusHistory, Operations

`StatusHistory` is the table `route_status_history` and the statements on it, as
operators on a function from routes and steps to rows. What eight statuses say is
told apart by the step at which they were measured (`seen`): a row that a cycle
copied forward has a `seen` before its own step. A label is the `seen` of the row
two hours on. `OfThePast` says of a table that no row holds what was measured after
its own step; it is assumed of datasets and scenarios, whose rows are measurements.

`Operations` composes it with the prediction service's slots (`ModelManager`) and
four kinds of process. A prediction cycle is `run_prediction_cycle`, one action
for each statement or request it awaits; `cycle[c].carry` are the statuses it
carries to its anchor. A prediction (`task[k][r]`, of a cycle or of a client) is
`_run_single_prediction`: read the newest rows, store the observation, for a short
history average the warehouse, compute, save the shadow's row, save the primary's. It reads the name it
labels a row with when the save begins, which may be after a promotion, or after a load
that failed half-way (`UploadedUnread`, `ChallengerUnread`). A chunk
that times out leaves its tasks running. The backfill is two
statements. An upload is `refresh_snapshot`, its transaction in three steps (what
it deletes is what was committed at the DELETEs, so that rows others commit later
stay; what it inserts; the routes it derives, where it may fail on the foreign key of a
warehouse that came later), then the two effects of a promotion and a triggered
cycle. A statement of another process that needs a row the open transaction has
deleted or inserted waits for it. `mixed` is a history variable: something was in
progress while the snapshot was replaced.

How an order is sized and which orders antiflapping keeps is `Dispatching`; here
any subset of the existing orders may be kept. The statements of one dispatch are
one action here, as their interleaving is the subject there. Authentication, run
records and counters are left out.

### Features, Learning

`Features` computes a feature row from a frame, in the two ways the code has: the
engine's, for the last row (`ServingRow`), and the trainer's, for every row
(`TrainingRow`). A feature is not a number but what it is computed from: a lag is
the value it picks, a statistic the values in its window with NaN treated as numpy
or pandas treat it. Two engines that agree on these agree on the numbers, up to
rounding. Maximum and minimum are treated as the mean is, and the lags of target,
inventory and single statuses, which differ only in their constants, share one
set. A row is a function on column names; `row ++ other` puts two side by side,
`Single` is a row of one column, and `Valid` are the known values of a window, each in
its place.

`Learning` has the table change by predictions and backfill, one action each, and
compares in every state: what the trainer now makes of the rows earlier predictions
saw (`served`, a history variable), what Team Track would predict from, how
the frame would be split, what a submission would pair. `Submission` and the column
checks are operators, evaluated for all templates and all sets of columns, since
they change nothing.

What does *not* hold, and is therefore not stated: the trainer's and the engine's
*target* features differ, because the labels of the last two hours are missing when
the prediction is made and are there when the row is trained on; its *inventory* features
are the engine's only from the row on which all lags and differences reach, before that
the trainer leaves NaN and the engine fills in. `InventoryFeaturesAgree` says of every
column which of the two it is, so that "preventing training-serving feature skew"
(`trainer.py:549`) is not so on routes of 25 to 96 rows; a replayed
anchor is predicted from the newest rows, not from those before it; with more
than `history_window` rows Team Track sees one row less than a live prediction; after a
commit that overlapped a cycle, forecasts and orders of routes that no longer
exist may be left. `PROJECT.json` "hazards" names the lines.

## 4. Runs

| Run | Instance | Shows |
|---|---|---|
| `promotion_open` | one job, one caller, one old version and one to train, one disturbance (timeout, file error, either service dying, manual reload or removal) | types (no torn table reaches the engine), promoted models go by their own version unless their own metadata could not be read, only registered versions are served, the canonical pair is whole whenever the event loop is free unless a crash or file error cut it, every version offered for Team Track can be loaded with its own four files, the protocol implements `ModelSlots` |
| `promotion_locked` | two jobs, nothing registered, up to two disturbances (timeout, predictor dying, manual reload or removal, file error), fairness | comparisons stay valid; an undisturbed upload ends with its model live, durable and with its own feature tables; every request is answered and the lock released |
| `promotion_race` | no disturbance at all | **violated**: a promote answers success for one version while another became primary |
| `promotion_split` | one crash of the retraining service | **violated**: the canonical model and metadata name different versions |
| `dispatch_serial` | two routes, two anchors, two rows, one request at a time, volumes that the floats round up | types, no step lost, no churn, no drift, at most one truck short; if what was forecast arrives, the order counts as accurate as long as its margin is less than a truckful |
| `dispatch_concurrent` | two requests, adaptive buffer, zero demand, fairness | every request ends: no circle of row locks |
| `dispatch_churn` | two requests | **violated**: an overlapping request replaces an order by one that is a truck away |
| `dispatch_double` | one route, two anchors | **violated**: a slot forecast twice counts the route twice |
| `quality_streak` | two checks, three versions, streak of two, four checks begun | types, the streak is earned, promotions without an alert are deserved |
| `quality_shadow` | one check, window of four cycles | **violated**: a replaced shadow is judged in place of the current one |
| `operations_day` | three routes, two warehouses, four steps, ten scenarios (below), fairness | labels of forecasts, statuses, orders and actuals stay right under overlapping cycles, promotions, failed loads, replays, clients, backfill and an upload; every cycle and every upload ends |
| `learning_day` | two routes, six steps, a history window of two, an uploaded table with gaps, or none | training, live prediction and Team Track agree, but for the columns that look back past the first row of a route, which the trainer leaves NaN and the engine fills in; the split and the submission are right; no file is taken twice |

The violated runs are described in `PROJECT.json` "findings" with the sentences of
the source and documents they contradict.

**Bounds.** Two versions (one old, or none) tell apart "the model in question"
from "another one"; three in `QualityChecks`, where a replaced shadow is a third
role. Two scores give better, equal and worse. One Job and one Caller is the
smallest instance in which the lock protects one side only; two Jobs is the
smallest in which it matters. `MaxFaults` is 1, or 2 where recovery from a
disturbance may itself be disturbed. With trucks of 33, 33 and 70 containers and their sums
need two to five trucks, so orders equal, one truck and several apart are met, and
volumes for which the margin alone costs a truck. `dispatch_serial` has 33, 90 and 330
instead, where 90 and 330 and some of their sums are rounded up by the floats
(`MCRoundsUp`, computed with the expression of the code) and the margin of 330 is exactly
a truckful: the first demand of which an order counted as accurate is not certain. Window 3 and Horizon 2 make ranges that overlap, that begin
inside a forecast and that end beyond one; `MaxRows` 2 is enough for every
pairing of routes, anchors and model kinds. A streak of two is the smallest for which an order of
verdicts matters. `MaxChecks` bounds an otherwise unbounded counter. Symmetry is
used only in runs without liveness properties, on routes, requests, checks and
trained versions, which no definition tells apart.

`operations_day` starts from one of ten scenarios, each of which gives the events
one question needs: two cycles and a failure; two warehouses; promotions and loads that
fail half-way under a prediction; replays over labelled rows and completed orders; a client and a
backfill beside a cycle; an upload under a cycle; an upload under clients and a
backfill; an upload whose promotion is disturbed; no model; no routes. Within a
scenario every interleaving is explored; scenarios add up instead of multiplying.
Chunks of one route make two routes two chunks. `learning_day` uses lags and
windows of 1 and 2 with a history window of 2 and a cold start below one row: the smallest
in which a lag may reach past the first row of a route that is no cold start, a rolling
window may be short, and two rows may share a
timestamp with the current one.

**Deadlock** is checked in all promotion runs. The bounds of the other
modules (forecast rows, checks, events, the last step) end behaviours that go on in the program, so
it is not checked there; in `Dispatching` the question whether transactions wait for
each other for ever is the liveness property `DispatchAnswered`.

**Fairness.** `ModelPromotion`: strong fairness per request in progress, since
asyncio resumes ready coroutines in FIFO order: a coroutine kept out again and again
by other copy blocks still gets its turn; executor threads run by themselves; weak
fairness of serving accepted requests and of the predictor's restart (the container's
restart policy). Starting a request is not fair: none need ever come. No fairness
is put on timeouts alone, on crashes or on
manual interventions. `Dispatching`: strong fairness per transaction, since Postgres
queues the waiters of a row lock in order. Rollback is not assumed to happen.
`Operations`: weak fairness of each handler's next step, since a coroutine goes on when
the statement or call it awaits returns, and a statement that waits for the rows of
the upload's transaction stays enabled once that has committed, which it does
without waiting for anybody. No fairness of time, failures, or new requests.

## 5. Proofs

All theorems hold for every value of the constants under the assumptions named in
the modules (`PromotionAssumption`, `DispatchAssumption`, `QualityAssumption`,
`StatusHistoryAssumption`, `NoneAssumption`, `OperationsAssumption`,
`LearningAssumption`), which TLC evaluates in the runs. Six theorems are about a part
of the behaviours and say so in their `ASSUME`: a single dispatcher, no other callers,
labels at least two steps late. Every invariant and every action property that a
passing run checks is stated by a theorem, under these conditions where named.

`FiniteFacts` has what the proofs need of finite sets and the library does not state:
a bounded set of numbers has a greatest element, a sum of natural numbers over a
finite set is one, and `n` elements with distinct keys have the ranks `0..n - 1`, each
once, which is what sorting by `CHOOSE` relies on. An induction is done there without an
induction rule: the finite subsets of a set are well-founded under inclusion, so a
counterexample would have a least one, and that has none below it.

`ModelPromotionProofs`
- `TypeCorrect`: `Spec => []TypeOK`. `TypeOK` is not inductive: a handler writes its
  version and its score into files, registry and requests, so it must carry them.
  `TypeInv` adds that (`Equipped`).
- `ServedIsRegistered`: `Spec => []OnlyRegisteredServed`. The invariant `RegistryInv`
  follows the version on its way: handlers past the registration carry registered
  versions, so do requests in flight and abandoned ones, and the registry only
  grows. Crashes and late answers are then harmless.
- `PromotedModelsAreWhole`: `Spec => []PromotedIsWhole`. `WholeInv` says that what is
  registered has model and metadata on disk, that a job has written them by then, and
  that only a canonical model is ever given canonical metadata. A load that fails half-way
  adds its version to `unread`; that it spoils no other slot is what there is to prove.
- `WhatIsOfferedLoads`: `Spec => []OfferedCanBeLoaded`, from `WholeInv` and from
  `BundleInv`, which does for the two feature tables what `WholeInv` does for model
  and metadata: a job has written a table before it goes on, and a version is marked
  ready after both.

`ModelPromotionCycles`
- `ChallengerStaysBest`: `Spec => []ChallengerBeatsRegistry`. `LockInv`: a running cycle
  holds `_retrain_lock`, hence nobody else registers, hence its comparison still
  stands when it loads. Without the lock in the invariant the comparison is not kept.
- `PairStaysWhole`: `Spec => []PairWholeUnlessCut`. `PairInv`: the copies run while their
  handler has the event loop, and the pair differs only between the two, when the one to
  follow makes it whole again.
- `ProtocolImplementsSlots`: `Spec => ImplementsSlots`, step by step: every action is a
  step of `ModelSlots` or leaves what it sees alone, with `RegistryInv` for its guards.
- `AloneForcePrimary`: with no other callers `Spec => []ForcePrimaryHolds`. `CycleInv`
  follows the undisturbed handler through its states (`Progress`): what is on disk, in the
  slots and in flight at each await.

`DispatchingProofs`
- `TrucksCarryTheLoad`: sizing, fixed or adaptive, from a lemma on rounding up; no
  assumption is made on which totals the floats round up (`RoundsUp` is any set), so it and
  the three below hold for the code's arithmetic.
- `TypeCorrect`: `Spec => []TypeOK`, concurrent requests included. `TypeInv` adds that
  finitely many rows are stored, without which a slot's sum need not be a number, and
  that nothing is locked before the filter has run.
- `WindowIsComplete`: `Spec => []NoStepLost`, from the type of the stored rows and
  `Lookback >= Horizon`.
- `AloneNoChurn`: with a single dispatcher `Spec => NoChurn`. `FlapInv` says that what
  the filter decided is still what the stored orders call for; it is exactly what an
  overlapping request breaks in `dispatch_churn`.
- `AloneStaysClose`, `AloneShortByAtMostOne`, `AloneRightIsAccurate`, with a single
  dispatcher: `CloseInv` says that a stored order is within the threshold of what was
  counted last, and that the orders the filter left out already are; the two others
  follow by the arithmetic of capacity, margin and rounding. The margin has to be less than
  a truckful: `ExactCeilDiv` shows that the floats' truck comes only when the load fills
  trucks exactly, and then it takes the place the margin leaves.

`QualityChecksProofs`
- `TypeCorrect`: `Spec => []TypeOK`, then `StreakEarned`: `Spec => []StreakIsEarned`, inductive with the
  types, by a lemma on what the history keeps when it is full.
- `WinnersArePromoted`: `Spec => PromotesProvenWinner`, since without an alert there
  is no await between verdict and decision. None of these depends on how the pairs
  are counted.

`StatusHistoryProofs` has what the statements on the shared table do to its types:
statuses are carried from the past, an upsert and a backfill leave a table of rows.

`OperationsProofs`
- `TypeCorrect`: `Spec => []TypeOK`; `TypeInv` adds that a prediction which has seen a
  model still has one to name.
- `StatusesStayPast`: `Spec => []StatusesOfThePast`. `PastInv` follows a status from a row
  to `carry`, to a request and to the row it is stored in.
- `NamesAreTrue`: `Spec => []ForecastsNameTheirMaker`. `NameInv`: both slots are named after
  their models but for the versions in `unread`, which only grow, and a prediction past its
  computation has the name it will write.
- `OrdersWait`: `Spec => []OrdersFollowPredictions`. `FollowInv` orders a cycle's chunks,
  predictions and dispatches.
- `CompletedOrdersStand`: `Spec => CompletedStands` if `Lag > 1`. `TimeInv`: a running cycle
  began in this step or the last, and only slots `Lag` steps old have actuals. With a lag
  of one step a cycle that is not over when the next step begins could plan a
  completed order; in the code the lag is four.
- `OrdersHaveForecasts` and `ActualsAreLabels`: `Spec => []OrdersAreExplained` and
  `Spec => []ActualsFromLabels`, from `OrderInv`: what a dispatch is about to store has been
  listed, and until an upload has been mixed with something else an upload is alone.
- `UploadKeepsRows`: `Spec => []RetainedRowsKept`. `KeptInv`: once the rows are
  inserted, each retained one is either the upload's own or was left to a row that others
  have stored since, which the transaction does not delete.
- `UploadAligns`: `Spec => []AlignedUnlessOverlapped`. `AlignedInv` extends it to the cycles
  and predictions that are started on the new routes.

`LearningProofs`
- `TypeCorrect`: `Spec => []TypeOK`. A frame, sorted in either of the orders in which equal
  timestamps may come, is a sequence of complete rows.
- `InventoryAgrees`: `Spec => []InventoryFeaturesAgree`, and `TeamTrackAgrees`:
  `Spec => []TeamTrackSeesTheSame`. `AnswersInv` says of a regular prediction that its frame
  is the newest rows of a table without later ones, then its observation; from there
  `ComparedTable` finds the present rows in that table, `RowsInOrder` and `LiveRows` give
  both frames row by row, and `SeriesAgree` shows that lags, differences and statistics
  reach no further back than the shorter of them. `SeriesGaps` says which columns of the
  trainer's row are NaN, so that `FillNa`, which only the engine applies, changes these and
  no others. That none of them exceeds the
  history window is an assumption on the constants, as it is so in the code.
- `HoldoutStaysLater`: `Spec => []HoldoutIsLater`, from the newest steps being an upper
  part of any set of steps.
- `SubmissionsPairSteps`: `Spec => []SubmissionPairsSteps`, for templates of any size: ranks
  by timestamp within a route are its steps, ranks by id the places in the answer.
- `FilesHaveOneFlow`: `Spec => []FlowsAreExclusive`.

Only model-checked: the liveness properties (`RequestAnswered`, `DispatchAnswered`,
`CycleEnds`, `UploadAnswered`), which need `ENABLED` of fair actions and are out of the
prover's reach. The four `Alone` theorems of `Dispatching` and `AloneForcePrimary` cover
the instances the runs have (`dispatch_serial` has one dispatcher, `promotion_locked` no
caller); `dispatch_churn` and `promotion_race` show what happens beyond. What the violated runs show is a
behaviour, which TLC finds and nothing needs to prove.

## 6. Reading the files

`X.tla` is a model, `XProofs.tla` its theorems (of `ModelPromotion` those about cycles, copies
and the refinement are in `ModelPromotionCycles.tla`), `FiniteFacts.tla` and
`StatusHistoryProofs.tla` what several of them rest on, `MCX.tla` with `X_<run>.cfg` its instances. Definitions marked `Mutant` stand next to the
definition they change and are used by nothing: each is a plausible bug which some
property must notice (`PROJECT.json` "mutants").

    tlc -config ModelPromotion_open.cfg MCModelPromotion
    tlapm ModelPromotionProofs.tla
