--------------------------- MODULE ModelPromotion ---------------------------
(* How a trained model reaches the predictor: the retraining service trains  *)
(* a challenger, writes its artifacts, registers it and drives the           *)
(* prediction service over HTTP to load it as shadow and to promote it,      *)
(* then publishes it under the canonical file names that a restart of the    *)
(* prediction service loads.                                                 *)
(*                                                                           *)
(* Two kinds of request run in the retraining service's event loop:          *)
(*   - a Job (POST /retrain, POST /upload-dataset) holds _retrain_lock for   *)
(*     its whole run_retrain_cycle;                                          *)
(*   - a Caller (POST /models/{v}/promote, POST /models/{v}/shadow, used by  *)
(*     the dashboard and by the scheduler's quality checker) takes no lock.  *)
(* Coroutines interleave at their awaits; the file work of a Job runs in an  *)
(* executor thread and interleaves with everything.                          *)
EXTENDS Naturals, ModelManager

CONSTANTS
    Torn,      \* a file opened for writing and not yet written
    Old,       \* the versions trained before the behaviour starts
    Score,     \* combined scores (wape + |rbias|); lower is better
    Job,
    Caller,
    Fault,     \* the disturbances a run admits, a subset of FaultKind
    MaxFaults  \* bound: how many disturbances a behaviour holds

Proc == Job \cup Caller

FaultKind == {"timeout",        \* an httpx timeout, the call still being served
              "io",             \* a file, database or copy error
              "crash_retrain",  \* the retraining service dies and restarts
              "crash_predict",  \* the prediction service dies and restarts
              "admin"}          \* /model/reload and DELETE /model/shadow by hand

ASSUME PromotionAssumption ==
    /\ Seed \notin Version
    /\ None \notin Known \cup Score \cup Proc
    /\ Torn \notin Known \cup {None}
    /\ Old \subseteq Version
    /\ Score \subseteq Nat
    /\ Job \cap Caller = {}
    /\ Fault \subseteq FaultKind
    /\ MaxFaults \in Nat

VARIABLES
    files,     \* versioned artifacts on disk, by kind: v.pkl, v_metadata.json,
               \* v_static_aggs.json, v_fill_values.json
    canon,     \* what the canonical file of each kind holds
    registry,  \* table model_metadata: the cv_score of each registered version
    ready,     \* the versions that are, or will be, registered as evaluation_ready
    lock,      \* _retrain_lock: the Job that holds it, or None
    loop,      \* the process inside the synchronous copy block of
               \* promote_to_primary, which lets no other coroutine run
    task,      \* where each request handler is
    calls,     \* HTTP requests sent to the prediction service, not yet served
    phase,     \* the prediction service: up, down, starting or reloading
    models,    \* its ModelManager
    engine,    \* its InferenceFeatureEngine: the aggregates and fill values
    unread,    \* history: the versions whose metadata load_shadow failed to read
    faults     \* the kinds of disturbance there have been, and how many may still come

vars == <<files, canon, registry, ready, lock, loop, task, calls, phase, models, engine, unread, faults>>

Disk == <<files, canon, registry, ready>>
Predictor == <<phase, models, engine, unread>>

-----------------------------------------------------------------------------
(* Types *)

Kind == {"none", "retrain", "upload", "promote", "shadow"}

Op == {"shadow_load", "shadow_promote", "reload_features"}

Waiting == {"load_wait", "promote_wait", "reload_wait"}

Control == {"idle", "train", "save_model", "save_meta", "save_aggs", "close_aggs",
            "save_fill", "close_fill", "compare", "register", "load", "promote",
            "copy_model", "copy_meta", "copy_aggs", "copy_fill", "reload", "trigger"}
           \cup Waiting

Task == [kind: Kind, pc: Control, v: Version \cup {None},
         score: Score \cup {None}, better: BOOLEAN,
         reply: {"none", "ok", "err"}, got: Known \cup {None}]

IdleTask == [kind |-> "none", pc |-> "idle", v |-> None, score |-> None,
             better |-> FALSE, reply |-> "none", got |-> None]

Call == [from: Proc, op: Op, v: Version, open: BOOLEAN]

Files == [model: SUBSET Version, meta: SUBSET Version,
          aggs: SUBSET Version, fill: SUBSET Version]

Canon == [model: Known, meta: Known,
          aggs: Known \cup {Torn}, fill: Known \cup {Torn}]

Registered == {v \in Version : registry[v] # None}

-----------------------------------------------------------------------------
(* Control helpers *)

\* One disturbance of the given kind happens now.
Disturb(kind) ==
    /\ kind \in Fault
    /\ faults.left > 0
    /\ faults' = [left |-> faults.left - 1, kinds |-> faults.kinds \cup {kind}]

Goto(p, pc) == task' = [task EXCEPT ![p].pc = pc]

\* A coroutine of the retraining service may resume: nobody is in a copy block.
LoopFree == loop = None

\* Mutant: an early return that skips the release.
Finish_KeepsLock(p) ==
    /\ task' = [task EXCEPT ![p] = IdleTask]
    /\ lock' = lock

\* The handler answers; `async with _retrain_lock` releases a Job's lock.
Finish(p) ==
    /\ task' = [task EXCEPT ![p] = IdleTask]
    /\ lock' = IF lock = p THEN None ELSE lock

\* One HTTP call to the prediction service.  A service that is not up yet
\* refuses the connection; one that reloads keeps the request waiting.
Send(p, op, pc) ==
    IF phase \in {"down", "starting"}
    THEN /\ task' = [task EXCEPT ![p].pc = pc, ![p].reply = "err", ![p].got = None]
         /\ calls' = calls
    ELSE /\ task' = [task EXCEPT ![p].pc = pc, ![p].reply = "none", ![p].got = None]
         /\ calls' = calls \cup {[from |-> p, op |-> op, v |-> task[p].v, open |-> TRUE]}

\* The response to c reaches its sender, if the sender still waits for it.
Reply(c, reply, got) ==
    /\ calls' = calls \ {c}
    /\ task' = IF c.open
               THEN [task EXCEPT ![c.from].reply = reply, ![c.from].got = got]
               ELSE task

-----------------------------------------------------------------------------
(* Training: run_retrain_cycle under _retrain_lock *)

\* Mutant: the handler starts a cycle without looking at the lock.
StartCycle_NoLock(j, kind) ==
    /\ LoopFree
    /\ task[j].pc = "idle"
    /\ \E v \in Version \ files.model :
          task' = [task EXCEPT ![j] = [IdleTask EXCEPT !.kind = kind, !.pc = "train",
                                                      !.v = v]]
    /\ lock' = j
    /\ UNCHANGED <<Disk, loop, calls, Predictor, faults>>

\* locked() is FALSE and `async with` acquires at once: no await in between.
\* The cycle mints a version that no earlier cycle has written.
StartCycle(j, kind) ==
    /\ LoopFree /\ lock = None
    /\ task[j].pc = "idle"
    /\ \E v \in Version \ files.model :
          task' = [task EXCEPT ![j] = [IdleTask EXCEPT !.kind = kind, !.pc = "train",
                                                      !.v = v]]
    /\ lock' = j
    /\ UNCHANGED <<Disk, loop, calls, Predictor, faults>>

\* Fetch, build features, train.
Train(j) ==
    /\ LoopFree
    /\ task[j].pc = "train"
    /\ \E s \in Score :
          task' = [task EXCEPT ![j].pc = "save_model", ![j].score = s]
    /\ UNCHANGED <<Disk, lock, loop, calls, Predictor, faults>>

\* Too little data at any time, or an error before the promotion: the
\* exception leaves run_retrain_cycle and the handler answers.
FailCycle(j) ==
    /\ LoopFree
    /\ \/ task[j].pc = "train" /\ faults' = faults
       \/ task[j].pc \in {"save_model", "save_meta", "compare", "register"} /\ Disturb("io")
    /\ Finish(j)
    /\ UNCHANGED <<Disk, loop, calls, Predictor>>

\* save_model, in the executor: the pickle, then the metadata sibling.
SaveModel(j) ==
    /\ task[j].pc = "save_model"
    /\ files' = [files EXCEPT !.model = @ \cup {task[j].v}]
    /\ Goto(j, "save_meta")
    /\ UNCHANGED <<canon, registry, ready, lock, loop, calls, Predictor, faults>>

SaveMetadata(j) ==
    /\ task[j].pc = "save_meta"
    /\ files' = [files EXCEPT !.meta = @ \cup {task[j].v}]
    /\ Goto(j, "save_aggs")
    /\ UNCHANGED <<canon, registry, ready, lock, loop, calls, Predictor, faults>>

\* save_static_aggs, in the executor: each table is written to its versioned
\* file and then over the canonical one, which open(.., "w") truncates first.
OpenAggs(j) ==
    /\ task[j].pc = "save_aggs"
    /\ files' = [files EXCEPT !.aggs = @ \cup {task[j].v}]
    /\ canon' = [canon EXCEPT !.aggs = Torn]
    /\ Goto(j, "close_aggs")
    /\ UNCHANGED <<registry, ready, lock, loop, calls, Predictor, faults>>

\* A copy block that replaced the file meanwhile has unlinked the one open here.
CloseAggs(j) ==
    /\ task[j].pc = "close_aggs"
    /\ canon' = IF canon.aggs = Torn THEN [canon EXCEPT !.aggs = task[j].v] ELSE canon
    /\ Goto(j, "save_fill")
    /\ UNCHANGED <<files, registry, ready, lock, loop, calls, Predictor, faults>>

OpenFill(j) ==
    /\ task[j].pc = "save_fill"
    /\ files' = [files EXCEPT !.fill = @ \cup {task[j].v}]
    /\ canon' = [canon EXCEPT !.fill = Torn]
    /\ Goto(j, "close_fill")
    /\ UNCHANGED <<registry, ready, lock, loop, calls, Predictor, faults>>

CloseFill(j) ==
    /\ task[j].pc = "close_fill"
    /\ canon' = IF canon.fill = Torn THEN [canon EXCEPT !.fill = task[j].v] ELSE canon
    /\ ready' = ready \cup {task[j].v}
    /\ Goto(j, "compare")
    /\ UNCHANGED <<files, registry, lock, loop, calls, Predictor, faults>>

\* Mutant: the version is marked ready whether or not its tables were saved.
SkipAggs_Ready(j) ==
    /\ task[j].pc \in {"save_aggs", "close_aggs", "save_fill", "close_fill"}
    /\ Disturb("io")
    /\ ready' = ready \cup {task[j].v}
    /\ Goto(j, "compare")
    /\ UNCHANGED <<files, canon, registry, lock, loop, calls, Predictor>>

\* An error in save_static_aggs is logged and the cycle goes on without it.
SkipAggs(j) ==
    /\ task[j].pc \in {"save_aggs", "close_aggs", "save_fill", "close_fill"}
    /\ Disturb("io")
    /\ Goto(j, "compare")
    /\ UNCHANGED <<Disk, lock, loop, calls, Predictor>>

\* Mutant: the policy is applied before the model is registered.
CompareChampion_PromotesFirst(j) ==
    /\ LoopFree
    /\ task[j].pc = "compare"
    /\ task' = [task EXCEPT ![j].pc = "load"]
    /\ UNCHANGED <<Disk, lock, loop, calls, Predictor, faults>>

\* get_champion and compare_champion_challenger: strictly better than the
\* lowest registered score, or the first model of all.
CompareChampion(j) ==
    /\ LoopFree
    /\ task[j].pc = "compare"
    /\ task' = [task EXCEPT ![j].pc = "register",
                            ![j].better = \A v \in Registered : task[j].score < registry[v]]
    /\ UNCHANGED <<Disk, lock, loop, calls, Predictor, faults>>

\* register_model, then _apply_policy: an upload always goes for primary, a
\* retrain goes for shadow when the challenger won, and is done otherwise.
Register(j) ==
    /\ LoopFree
    /\ task[j].pc = "register"
    /\ registry' = [registry EXCEPT ![task[j].v] = task[j].score]
    /\ IF task[j].kind = "upload" \/ task[j].better
       THEN /\ task' = [task EXCEPT ![j].pc = "load", ![j].score = None,
                                    ![j].better = FALSE]
            /\ UNCHANGED lock
       ELSE Finish(j)
    /\ UNCHANGED <<files, canon, ready, loop, calls, Predictor, faults>>

\* An upload whose promotion succeeded asks the scheduler for a pipeline run,
\* best effort, and answers.
TriggerPipeline(j) ==
    /\ LoopFree
    /\ task[j].pc = "trigger"
    /\ Finish(j)
    /\ UNCHANGED <<Disk, loop, calls, Predictor, faults>>

-----------------------------------------------------------------------------
(* Promotion: registry.promote_to_shadow and registry.promote_to_primary *)

\* promote_version and load_shadow look the version up; 404 changes nothing.
AcceptCall(c, kind) ==
    /\ LoopFree
    /\ task[c].pc = "idle"
    /\ \E v \in Registered :
          task' = [task EXCEPT ![c] = [IdleTask EXCEPT !.kind = kind, !.pc = "load",
                                                      !.v = v]]
    /\ UNCHANGED <<Disk, lock, loop, calls, Predictor, faults>>

SendLoad(p) ==
    /\ LoopFree
    /\ task[p].pc = "load"
    /\ Send(p, "shadow_load", "load_wait")
    /\ UNCHANGED <<Disk, lock, loop, Predictor, faults>>

\* The shadow is loaded: a retrain and a shadow call are done.
LoadDone(p) ==
    /\ LoopFree
    /\ task[p].pc = "load_wait" /\ task[p].reply = "ok"
    /\ IF task[p].kind \in {"upload", "promote"}
       THEN Goto(p, "promote") /\ UNCHANGED lock
       ELSE Finish(p)
    /\ UNCHANGED <<Disk, loop, calls, Predictor, faults>>

SendPromote(p) ==
    /\ LoopFree
    /\ task[p].pc = "promote"
    /\ Send(p, "shadow_promote", "promote_wait")
    /\ UNCHANGED <<Disk, lock, loop, Predictor, faults>>

\* The load or the swap failed: promotion_failed, or a 500.
PromotionFailed(p) ==
    /\ LoopFree
    /\ task[p].pc \in {"load_wait", "promote_wait"} /\ task[p].reply = "err"
    /\ Finish(p)
    /\ UNCHANGED <<Disk, loop, calls, Predictor, faults>>

\* Mutant: the copies await between files, so other coroutines run.
StartCopy_Awaiting(p) ==
    /\ LoopFree
    /\ task[p].pc = "promote_wait" /\ task[p].reply = "ok"
    /\ Goto(p, "copy_model")
    /\ UNCHANGED <<Disk, lock, loop, calls, Predictor, faults>>

\* The swap was answered with 200.  What follows up to the next call is
\* synchronous: four files, each copied to a temporary name and renamed over
\* the canonical one; a copy error is logged and the block goes on.
StartCopy(p) ==
    /\ LoopFree
    /\ task[p].pc = "promote_wait" /\ task[p].reply = "ok"
    /\ loop' = p
    /\ Goto(p, "copy_model")
    /\ UNCHANGED <<Disk, lock, calls, Predictor, faults>>

Copy(p, kind, pc, next) ==
    /\ task[p].pc = pc
    /\ \/ /\ canon' = IF task[p].v \in files[kind]
                      THEN [canon EXCEPT ![kind] = task[p].v]
                      ELSE canon
          /\ faults' = faults
       \/ Disturb("io") /\ canon' = canon
    /\ Goto(p, next)
    /\ UNCHANGED <<files, registry, ready, lock, calls, Predictor>>

CopyModel(p) == Copy(p, "model", "copy_model", "copy_meta") /\ UNCHANGED loop

\* Mutant: the canonical metadata is left behind.
CopyMetadata_Skipped(p) ==
    /\ task[p].pc = "copy_meta"
    /\ Goto(p, "copy_aggs")
    /\ UNCHANGED <<Disk, lock, loop, calls, Predictor, faults>>

CopyMetadata(p) == Copy(p, "meta", "copy_meta", "copy_aggs") /\ UNCHANGED loop
CopyAggs(p) == Copy(p, "aggs", "copy_aggs", "copy_fill") /\ UNCHANGED loop
CopyFill(p) == Copy(p, "fill", "copy_fill", "reload") /\ loop' = None

SendReload(p) ==
    /\ LoopFree
    /\ task[p].pc = "reload"
    /\ Send(p, "reload_features", "reload_wait")
    /\ UNCHANGED <<Disk, lock, loop, Predictor, faults>>

\* Whatever the answer: the feature reload is best effort.
ReloadDone(p) ==
    /\ LoopFree
    /\ task[p].pc = "reload_wait" /\ task[p].reply # "none"
    /\ IF task[p].kind = "upload"
       THEN Goto(p, "trigger") /\ UNCHANGED lock
       ELSE Finish(p)
    /\ UNCHANGED <<Disk, loop, calls, Predictor, faults>>

-----------------------------------------------------------------------------
(* Team Track, which loads a bundle for each of its runs *)

\* GET /models: the versions marked evaluation_available.
Offered == Registered \cap ready

\* resolve_model_bundle: the artifacts of a version, or without one the
\* canonical files as they are; None for 404, 422 and a table that does not
\* parse.
Bundle(v) ==
    IF v = None
    THEN IF Torn \in {canon.aggs, canon.fill} THEN None ELSE canon
    ELSE IF v \in Offered \cap files.model \cap files.aggs \cap files.fill
    THEN [model |-> v, meta |-> IF v \in files.meta THEN v ELSE None, aggs |-> v, fill |-> v]
    ELSE None

-----------------------------------------------------------------------------
(* The prediction service *)

ServeShadowLoad(c) ==
    /\ phase = "up" /\ c.op = "shadow_load"
    /\ IF c.v \in files.model
       THEN /\ models' = LoadShadow(models, c.v, c.v \in files.meta)
            /\ Reply(c, "ok", None)
       ELSE /\ models' = models
            /\ Reply(c, "err", None)
    /\ UNCHANGED <<Disk, lock, loop, phase, engine, unread, faults>>

\* The model loads and the metadata does not: 500, and the slot has changed.
ShadowLoadFails(c) ==
    /\ phase = "up" /\ c.op = "shadow_load"
    /\ c.v \in files.model \cap files.meta
    /\ Disturb("io")
    /\ models' = LoadShadowUnread(models, c.v)
    /\ unread' = unread \cup {c.v}
    /\ Reply(c, "err", None)
    /\ UNCHANGED <<Disk, lock, loop, phase, engine>>

ServePromote(c) ==
    /\ phase = "up" /\ c.op = "shadow_promote"
    /\ IF HasShadow(models)
       THEN /\ models' = PromoteShadow(models)
            /\ Reply(c, "ok", RuntimeVersion(models'.primary))
       ELSE /\ models' = models
            /\ Reply(c, "err", None)
    /\ UNCHANGED <<Disk, lock, loop, phase, engine, unread, faults>>

\* Mutant: a table that does not parse is taken as it is.
ServeReloadFeatures_TakesTorn(c) ==
    /\ phase = "up" /\ c.op = "reload_features"
    /\ engine' = [aggs |-> canon.aggs, fill |-> canon.fill]
    /\ Reply(c, "ok", None)
    /\ UNCHANGED <<Disk, lock, loop, phase, models, unread, faults>>

\* Each table is replaced unless its file does not parse; 500 if neither does.
ServeReloadFeatures(c) ==
    /\ phase = "up" /\ c.op = "reload_features"
    /\ engine' = [aggs |-> IF canon.aggs = Torn THEN engine.aggs ELSE canon.aggs,
                  fill |-> IF canon.fill = Torn THEN engine.fill ELSE canon.fill]
    /\ Reply(c, IF canon.aggs = Torn /\ canon.fill = Torn THEN "err" ELSE "ok", None)
    /\ UNCHANGED <<Disk, lock, loop, phase, models, unread, faults>>

\* lifespan and /model/reload both run ModelManager.load on model.pkl, which
\* reads the model and then the metadata while other processes write.
BeginLoad ==
    /\ \/ phase = "down" /\ phase' = "starting" /\ faults' = faults
       \/ phase = "up" /\ phase' = "reloading" /\ Disturb("admin")
    /\ models' = LoadModel(models, canon.model)
    /\ UNCHANGED <<Disk, lock, loop, task, calls, engine, unread>>

FinishReload ==
    /\ phase = "reloading"
    /\ phase' = "up"
    /\ models' = LoadMetadata(models, canon.meta)
    /\ UNCHANGED <<Disk, lock, loop, task, calls, engine, unread, faults>>

\* Start-up then reads both feature tables; an unreadable one aborts it, and
\* the container is restarted.
FinishStart ==
    /\ phase = "starting"
    /\ IF Torn \in {canon.aggs, canon.fill}
       THEN /\ phase' = "down"
            /\ models' = NoModels
            /\ engine' = engine
       ELSE /\ phase' = "up"
            /\ models' = LoadMetadata(models, canon.meta)
            /\ engine' = [aggs |-> canon.aggs, fill |-> canon.fill]
    /\ UNCHANGED <<Disk, lock, loop, task, calls, unread, faults>>

\* The canonical metadata cannot be read: a reload is answered with 500 and
\* leaves the new model beside the old metadata, a start-up is aborted.
LoadFails ==
    /\ \/ phase = "reloading" /\ phase' = "up" /\ models' = models
       \/ phase = "starting" /\ phase' = "down" /\ models' = NoModels
    /\ Disturb("io")
    /\ UNCHANGED <<Disk, lock, loop, task, calls, engine, unread>>

RemoveShadowByHand ==
    /\ phase = "up" /\ HasShadow(models)
    /\ Disturb("admin")
    /\ models' = RemoveShadow(models)
    /\ UNCHANGED <<Disk, lock, loop, task, calls, phase, engine, unread>>

-----------------------------------------------------------------------------
(* Disturbances *)

\* httpx gives up.  The request may be served later all the same, or may have
\* been served with its response lost.
Timeout(p) ==
    /\ LoopFree
    /\ task[p].pc \in Waiting /\ task[p].reply # "err"
    /\ Disturb("timeout")
    /\ task' = [task EXCEPT ![p].reply = "err", ![p].got = None]
    /\ calls' = {[c EXCEPT !.open = c.open /\ c.from # p] : c \in calls}
    /\ UNCHANGED <<Disk, lock, loop, Predictor>>

CrashRetraining ==
    /\ \E p \in Proc : task[p].pc # "idle"
    /\ Disturb("crash_retrain")
    /\ task' = [p \in Proc |-> IdleTask]
    /\ lock' = None /\ loop' = None
    /\ calls' = {[c EXCEPT !.open = FALSE] : c \in calls}
    /\ UNCHANGED <<Disk, Predictor>>

\* Requests it had not answered fail with the connection.
CrashPrediction ==
    /\ phase # "down"
    /\ Disturb("crash_predict")
    /\ phase' = "down"
    /\ models' = NoModels
    /\ task' = [p \in Proc |-> IF \E c \in calls : c.from = p /\ c.open
                               THEN [task[p] EXCEPT !.reply = "err"]
                               ELSE task[p]]
    /\ calls' = {}
    /\ UNCHANGED <<Disk, lock, loop, engine, unread>>

-----------------------------------------------------------------------------
(* Specification *)

Init ==
    /\ files = [model |-> Old, meta |-> Old, aggs |-> Old, fill |-> Old]
    /\ canon = [model |-> Seed, meta |-> Seed, aggs |-> Seed, fill |-> Seed]
    /\ registry \in [Version -> Score \cup {None}]
    /\ Registered = Old
    /\ ready = Old
    /\ lock = None
    /\ loop = None
    /\ task = [p \in Proc |-> IdleTask]
    /\ calls = {}
    /\ phase = "up"
    /\ models = LoadMetadata(LoadModel(NoModels, Seed), Seed)
    /\ engine = [aggs |-> Seed, fill |-> Seed]
    /\ unread = {}
    /\ faults = [left |-> MaxFaults, kinds |-> {}]

JobStep(j) ==
    \/ StartCycle(j, "retrain") \/ StartCycle(j, "upload")
    \/ Train(j) \/ FailCycle(j)
    \/ SaveModel(j) \/ SaveMetadata(j)
    \/ OpenAggs(j) \/ CloseAggs(j) \/ OpenFill(j) \/ CloseFill(j) \/ SkipAggs(j)
    \/ CompareChampion(j) \/ Register(j) \/ TriggerPipeline(j)

CallerStep(c) == AcceptCall(c, "promote") \/ AcceptCall(c, "shadow")

PromotionStep(p) ==
    \/ SendLoad(p) \/ LoadDone(p) \/ SendPromote(p) \/ PromotionFailed(p)
    \/ StartCopy(p) \/ CopyModel(p) \/ CopyMetadata(p) \/ CopyAggs(p) \/ CopyFill(p)
    \/ SendReload(p) \/ ReloadDone(p)
    \/ Timeout(p)

ServerStep ==
    \/ \E c \in calls : ServeShadowLoad(c) \/ ServePromote(c) \/ ServeReloadFeatures(c)
    \/ \E c \in calls : ShadowLoadFails(c)
    \/ BeginLoad \/ FinishReload \/ FinishStart \/ LoadFails \/ RemoveShadowByHand

Next ==
    \/ \E j \in Job : JobStep(j)
    \/ \E c \in Caller : CallerStep(c)
    \/ \E p \in Proc : PromotionStep(p)
    \/ ServerStep
    \/ CrashRetraining
    \/ CrashPrediction

Spec == Init /\ [][Next]_vars

\* A request in progress is resumed: asyncio runs ready coroutines in FIFO
\* order, so none is passed over for ever while others take their turns, and
\* executor threads run.  A new request need never arrive.
Advance(p) ==
    \/ p \in Job /\ JobStep(p) /\ task[p].pc # "idle"
    \/ PromotionStep(p)

\* The prediction service serves what it has accepted, and its container is
\* restarted when it dies (restart: unless-stopped).
Fairness ==
    /\ \A p \in Proc : SF_vars(Advance(p))
    /\ WF_vars(\E c \in calls : ServeShadowLoad(c) \/ ServePromote(c) \/ ServeReloadFeatures(c))
    /\ WF_vars(phase # "up" /\ (BeginLoad \/ FinishReload \/ FinishStart))

FairSpec == Spec /\ Fairness

-----------------------------------------------------------------------------
(* Properties *)

TypeOK ==
    /\ files \in Files
    /\ canon \in Canon
    /\ registry \in [Version -> Score \cup {None}]
    /\ ready \subseteq Version
    /\ lock \in Job \cup {None}
    /\ loop \in Proc \cup {None}
    /\ task \in [Proc -> Task]
    /\ calls \subseteq Call
    /\ phase \in {"up", "down", "starting", "reloading"}
    /\ models \in Manager
    /\ engine \in [aggs: Known, fill: Known]
    /\ unread \subseteq Version
    /\ faults \in [left: Nat, kinds: SUBSET Fault]

\* No version is ever served, evaluated as shadow, or published for the next
\* restart before its training cycle has registered it: not after an aborted
\* cycle, a crash between saving and registering, or a late request.
OnlyRegisteredServed ==
    {models.primary.model, models.shadow.model, canon.model, canon.meta}
        \subseteq Registered \cup {Seed, None}

\* A model that reached a slot as a versioned artifact carries its own
\* metadata, so runtime_version, under which its forecasts are stored, names
\* the model that computed them: only a version whose own metadata could not be
\* read is ever misnamed, and never one that is loaded before or after it,
\* whoever promotes whose shadow (load_shadow, promote_shadow).
PromotedIsWhole ==
    \A slot \in {models.primary, models.shadow} :
        (slot.from = "versioned" /\ slot.model \notin unread) => RuntimeVersion(slot) = slot.model

\* A challenger that POST /retrain puts up as shadow is strictly better than
\* every other registered model from the comparison until the load is over:
\* no other cycle can register a better one in between.
ChallengerBeatsRegistry ==
    \A j \in Job :
        (task[j].kind = "retrain" /\ task[j].pc \in {"load", "load_wait"}) =>
            \A v \in Registered \ {task[j].v} : registry[task[j].v] < registry[v]

\* The canonical model and its metadata name the same version whenever the
\* event loop is free, also after a crash (registry.py, "never leaves the
\* canonical pair in a split state").
CanonicalPairWhole == LoopFree => canon.model = canon.meta

\* Unless a copy has failed or the retraining service has died, the canonical
\* pair is whole, whoever promotes at the same time and whatever becomes of
\* the calls and of the prediction service (_copy_canonical_pair).
PairWholeUnlessCut ==
    faults.kinds \cap {"io", "crash_retrain"} = {} => CanonicalPairWhole

\* Every version that is offered for Team Track runs can be loaded for one, with
\* model, metadata and both tables its own, also when its cycle has lost a
\* file or has been cut short (run_retrain_cycle, evaluation_ready).
OfferedCanBeLoaded ==
    \A v \in Offered : Bundle(v) = [model |-> v, meta |-> v, aggs |-> v, fill |-> v]

\* Nothing has gone wrong yet.
Undisturbed == faults.kinds = {}

\* With no promoter outside the lock and as long as nothing goes wrong, this is
\* what an upload may rely on when it triggers the pipeline run: the model it
\* has just trained answers predictions under its own name, a restart would
\* load the same pair, and inference uses the feature tables of its training.
ForcePrimaryHolds ==
    \A j \in Job :
        (Undisturbed /\ task[j].pc = "trigger") =>
            /\ models.primary.model = task[j].v
            /\ RuntimeVersion(models.primary) = task[j].v
            /\ canon = [model |-> task[j].v, meta |-> task[j].v,
                        aggs |-> task[j].v, fill |-> task[j].v]
            /\ engine = [aggs |-> task[j].v, fill |-> task[j].v]

\* The swap that answers POST /models/{v}/promote (or an upload) made v the
\* primary, not whatever another request had meanwhile put in the shadow slot.
PromotesWhatWasAsked ==
    \A p \in Proc :
        (task[p].pc = "promote_wait" /\ task[p].reply = "ok") => task[p].got = task[p].v

\* Every accepted request is answered, and so the lock is released, whether
\* the prediction service answers, refuses, dies or lets the call time out.
RequestAnswered ==
    \A p \in Proc :
        (task[p].pc # "idle" \/ lock = p) ~> (task[p].pc = "idle" /\ lock # p)

\* The protocol implements the slots the prediction service promises.
Slots == INSTANCE ModelSlots WITH
    primary <- models.primary.model, shadow <- models.shadow.model,
    durable <- canon.model, known <- Registered

ImplementsSlots == Slots!Spec
=============================================================================
