-------------------------- MODULE OperationsProofs --------------------------
(* What holds of the working day around the database, for any routes,        *)
(* warehouses, dataset, limits and scenarios: the theorems are about the     *)
(* specification itself, however cycles, clients, uploads, promotions and    *)
(* the backfill overlap.                                                     *)
EXTENDS Operations, StatusHistoryProofs

-----------------------------------------------------------------------------
(* Types, and what must stand for them *)

\* A prediction that has passed the check for a model has one to name.
TaskSound(k, r) ==
    /\ task[k][r].pc \in {"append", "average", "compute"} => manager.primary.model \in Known
    /\ task[k][r].pc \in {"shadow", "primary"} => task[k][r].by \in Known
    /\ task[k][r].pc = "shadow" => task[k][r].shadow \in Known

\* A cycle asks only for routes it has statuses of.
CycleSound(c) ==
    /\ cycle[c].pc \in {"post", "wait"} => cycle[c].todo \subseteq DOMAIN cycle[c].carry
    /\ cycle[c].pc = "wait" => cycle[c].chunk \subseteq DOMAIN cycle[c].carry

TypeInv ==
    /\ TypeOK
    /\ \A k \in Caller, r \in Route : TaskSound(k, r)
    /\ \A c \in Cycle : CycleSound(c)

LEMMA SeenHistory ==
    ASSUME NEW fresh, history \in History
    PROVE  Seen(fresh) \in History
BY OperationsAssumption DEF Seen, History

LEMMA RetainedTyped == Retained \in SUBSET (Route \X Time)
BY DEF Retained, RowsOf

LEMMA LoadedManager ==
    ASSUME NEW m \in Manager, NEW v \in Version
    PROVE  /\ LoadShadow(m, v, TRUE) \in Manager
           /\ LoadShadow(m, v, TRUE).primary = m.primary
BY DEF LoadShadow, Manager, Slot, Known, Source

LEMMA UnreadManager ==
    ASSUME NEW m \in Manager, NEW v \in Version
    PROVE  /\ LoadShadowUnread(m, v) \in Manager
           /\ LoadShadowUnread(m, v).primary = m.primary
           /\ LoadShadowUnread(m, v).shadow.model = v
BY DEF LoadShadowUnread, Manager, Slot, Known, Source

LEMMA PromotedManager ==
    ASSUME NEW m \in Manager, HasShadow(m)
    PROVE  /\ PromoteShadow(m) \in Manager
           /\ PromoteShadow(m).primary.model \in Known
BY DEF PromoteShadow, HasShadow, Manager, Slot, EmptySlot, Source

Bounds == [cycles: Nat, budget: Budget]

LEMMA SpendBounds ==
    ASSUME left \in Bounds,
           NEW kind \in {"clients", "replays", "uploads", "promotes", "backfills", "faults"},
           Spend(kind)
    PROVE  left' \in Bounds
<1> DEFINE b == left.budget
<1>1. b \in Budget /\ b[kind] \in Nat /\ b[kind] > 0
  BY DEF Spend, Bounds, Budget
<1>2. [b EXCEPT ![kind] = @ - 1] \in Budget
  BY <1>1 DEF Budget
<1>3. left' = [left EXCEPT !.budget = [b EXCEPT ![kind] = @ - 1]]
  BY DEF Spend, Bounds
<1> QED  BY <1>2, <1>3 DEF Bounds

LEMMA TypeInit == Init => TypeInv
<1> SUFFICES ASSUME Init PROVE TypeInv
  OBVIOUS
<1>1. PICK x \in Scenario :
          /\ now = x.now
          /\ history = x.rows
          /\ routes = {r \in Route : Stored(x.rows, r) # {}}
          /\ manager = IF x.model = None THEN NoModels
                       ELSE [NoModels EXCEPT !.primary = [model |-> x.model, meta |-> x.model,
                                                          from |-> "canonical"]]
          /\ left = [cycles |-> x.cycles, budget |-> x.budget]
  BY DEF Init
<1>2. now \in Time /\ history \in History /\ routes \in SUBSET Route
  BY <1>1, OperationsAssumption
<1>3. left \in [cycles: Nat, budget: Budget]
  BY <1>1, OperationsAssumption
<1>4. manager \in Manager
  <2>1. x.model \in Known \cup {None}
    BY OperationsAssumption
  <2> QED  BY <1>1, <2>1 DEF Manager, Slot, NoModels, EmptySlot, Source
<1>5. NoCycle \in CycleRecord
  <2>1. <<>> \in [{} -> Time]
    OBVIOUS
  <2>2. <<>> \in UNION {[rs -> Time] : rs \in SUBSET Route}
    BY <2>1
  <2>3. 0 \in Time /\ "none" \in Stage
    BY StatusHistoryAssumption DEF Time, Stage
  <2> HIDE DEF Init
  <2> QED  BY ONLY <2>2, <2>3 DEF NoCycle, CycleRecord
<1>6. NoTask \in TaskRecord
  BY StatusHistoryAssumption DEF NoTask, TaskRecord, Name, Time
<1>7. NoUpload \in UploadRecord
  BY DEF NoUpload, UploadRecord
<1>8. TypeOK
  BY <1>2, <1>3, <1>4, <1>5, <1>6, <1>7 DEF Init, TypeOK
<1>9. ASSUME NEW k \in Caller, NEW r \in Route PROVE TaskSound(k, r)
  BY DEF TaskSound, Init, NoTask
<1>10. ASSUME NEW c \in Cycle PROVE CycleSound(c)
  BY DEF CycleSound, Init, NoCycle
<1> QED  BY <1>8, <1>9, <1>10 DEF TypeInv

\* A cycle that is begun has the types of a cycle.
LEMMA BeginTyped ==
    ASSUME TypeInv, NEW c \in Cycle, NEW anchor \in Time, Begin(c, anchor)
    PROVE  /\ cycle' \in [Cycle -> CycleRecord]
           /\ \A d \in Cycle : CycleSound(d)'
           /\ mixed' \in BOOLEAN
<1>1. <<>> \in UNION {[rs -> Time] : rs \in SUBSET Route}
  <2>1. <<>> \in [{} -> Time]
    OBVIOUS
  <2> QED  BY <2>1
<1>2. cycle'[c] \in CycleRecord
  BY <1>1, StatusHistoryAssumption DEF Begin, TypeInv, TypeOK, CycleRecord, NoCycle, Stage, Time
<1>3. cycle' = [cycle EXCEPT ![c] = cycle'[c]] /\ cycle'[c].pc \in {"ended", "statuses"}
  BY DEF Begin, TypeInv, TypeOK, NoCycle
<1>4. cycle' \in [Cycle -> CycleRecord]
  BY <1>2, <1>3 DEF TypeInv, TypeOK
<1>5. ASSUME NEW d \in Cycle PROVE CycleSound(d)'
  BY <1>3 DEF CycleSound, TypeInv, TypeOK
<1>6. mixed' \in BOOLEAN
  BY DEF Begin, TypeInv, TypeOK
<1> QED  BY <1>4, <1>5, <1>6

\* A change to one prediction.
LEMMA GoTyped ==
    ASSUME TypeInv, NEW k \in Caller, NEW r \in Route, NEW changed \in TaskRecord,
           Go(k, r, changed)
    PROVE  /\ task' \in [Caller -> [Route -> TaskRecord]]
           /\ task'[k][r] = changed
           /\ \A i \in Caller, q \in Route :
                 (i # k \/ q # r) => task'[i][q] = task[i][q]
BY DEF Go, TypeInv, TypeOK

-----------------------------------------------------------------------------
(* Who changes what *)

BeginsSome == \E c \in Cycle, anchor \in Time :
                 Begin(c, anchor) /\ (StartCycle(c) \/ StartReplay(c, anchor) \/ TriggerCycle(c))
                                  /\ anchor <= now

CycleMoves == \E c \in Cycle : CycleStep(c) \/ ChunkFails(c) \/ DispatchFails(c)

TaskMoves == \E k \in Caller, r \in Route : TaskStep(k, r) \/ TaskFails(k, r)

SomeAppended == \E k \in Caller, r \in Route : AppendObservation(k, r)

SomeSaved == \E k \in Caller, r \in Route : SaveShadow(k, r) \/ SavePrimary(k, r)

SomePosted == \E c \in Cycle : PostChunk(c)

SomeObserved == \E r \in Route : PostObservation(r)

SomeOrdered == \E c \in Cycle, w \in Warehouse : SaveOrders(c, w)

SomeTrained == \E v \in Version : TrainOnSnapshot(v) \/ UploadedUnread(v)

SomeLoaded == \E v \in Version : LoadChallenger(v) \/ ChallengerUnread(v)

\* Every step is one of these.
LEMMA StepKinds ==
    ASSUME [Next]_vars, TypeInv
    PROVE  \/ Tick \/ BeginsSome \/ CycleMoves \/ SomeObserved \/ TaskMoves
           \/ BackfillTargets \/ BackfillActuals \/ BackfillFails
           \/ ClearSnapshot \/ FillSnapshot \/ CommitSnapshot \/ AbortSnapshot
           \/ SomeTrained \/ PromoteUploaded \/ PromotionRefused
           \/ UploadDone \/ SomeLoaded \/ PromoteChallenger
           \/ UNCHANGED vars
<1>0. now \in Time /\ now <= now
  BY StatusHistoryAssumption DEF TypeInv, TypeOK, Time
<1>1. ASSUME NEW c \in Cycle, StartCycle(c) \/ TriggerCycle(c) PROVE BeginsSome
  BY <1>0, <1>1 DEF BeginsSome, StartCycle, TriggerCycle
<1>2. ASSUME NEW c \in Cycle, NEW anchor \in Time, StartReplay(c, anchor) PROVE BeginsSome
  <2>1. Begin(c, anchor) /\ anchor <= now
    BY <1>0, <1>2, StatusHistoryAssumption DEF StartReplay, Time
  <2> QED  BY <1>2, <2>1 DEF BeginsSome
<1>3. CASE \E c \in Cycle : TriggerCycle(c)
  BY <1>1, <1>3
<1>4. CASE \E c \in Cycle : StartCycle(c) \/ \E anchor \in Time : StartReplay(c, anchor)
  BY <1>1, <1>2, <1>4
<1> QED  BY <1>3, <1>4 DEF Next, UploadStep, CycleMoves, TaskMoves, SomeObserved, SomeTrained,
                              SomeLoaded

LEMMA CycleMovesFrame ==
    ASSUME CycleMoves
    PROVE  /\ UNCHANGED <<now, history, routes, forecasts, manager, upload, backfill, mixed, unread>>
           /\ task' = task \/ SomePosted
           /\ orders' = orders \/ SomeOrdered
           /\ left' = left \/ Spend("faults")
<1>1. PICK c \in Cycle : CycleStep(c) \/ ChunkFails(c) \/ DispatchFails(c)
  BY DEF CycleMoves
<1>2. ASSUME CycleStep(c) \/ ChunkFails(c) \/ DispatchFails(c)
      PROVE  /\ UNCHANGED <<now, history, routes, forecasts, manager, upload, backfill, mixed, unread>>
             /\ left' = left \/ Spend("faults")
  BY <1>2 DEF CycleStep, FetchStatuses, PostChunk, ChunkAnswered, ReadWarehouses, AskDispatcher,
         SaveOrders, EndCycle, ChunkFails, DispatchFails, Tables
<1>3. task' = task \/ SomePosted
  BY <1>1 DEF CycleStep, FetchStatuses, ChunkAnswered, ReadWarehouses, AskDispatcher,
         SaveOrders, EndCycle, ChunkFails, DispatchFails, SomePosted
<1>4. orders' = orders \/ SomeOrdered
  BY <1>1 DEF CycleStep, FetchStatuses, PostChunk, ChunkAnswered, ReadWarehouses, AskDispatcher,
         EndCycle, ChunkFails, DispatchFails, SomeOrdered, Tables
<1> QED  BY <1>1, <1>2, <1>3, <1>4

LEMMA TaskMovesFrame ==
    ASSUME TaskMoves
    PROVE  /\ UNCHANGED <<now, routes, orders, manager, cycle, upload, backfill, mixed, unread>>
           /\ history' = history \/ SomeAppended
           /\ forecasts' = forecasts \/ SomeSaved
           /\ left' = left \/ Spend("faults")
<1>1. PICK k \in Caller, r \in Route : TaskStep(k, r) \/ TaskFails(k, r)
  BY DEF TaskMoves
<1>2. ASSUME TaskStep(k, r) \/ TaskFails(k, r)
      PROVE  /\ UNCHANGED <<now, routes, orders, manager, cycle, upload, backfill, mixed, unread>>
             /\ left' = left \/ Spend("faults")
  BY <1>2 DEF TaskStep, ReadHistory, AppendObservation, ReadAverage, Compute, SaveShadow,
         SavePrimary, TaskFails, Tables
<1>3. history' = history \/ SomeAppended
  BY <1>1 DEF TaskStep, ReadHistory, ReadAverage, Compute, SaveShadow, SavePrimary, TaskFails,
         Tables, SomeAppended
<1>4. forecasts' = forecasts \/ SomeSaved
  BY <1>1 DEF TaskStep, ReadHistory, AppendObservation, ReadAverage, Compute, TaskFails,
         Tables, SomeSaved
<1> QED  BY <1>1, <1>2, <1>3, <1>4

LEMMA BeginsFrame ==
    ASSUME BeginsSome
    PROVE  /\ UNCHANGED <<now, Tables, manager, task, backfill, unread>>
           /\ mixed' = (mixed \/ Replacing)
           /\ upload' = upload \/ \E c \in Cycle : TriggerCycle(c)
           /\ left' = left \/ left' = [left EXCEPT !.cycles = @ - 1] \/ Spend("replays")
<1>1. PICK c \in Cycle, anchor \in Time :
          Begin(c, anchor) /\ (StartCycle(c) \/ StartReplay(c, anchor) \/ TriggerCycle(c))
  BY DEF BeginsSome
<1>2. mixed' = (mixed \/ Replacing)
  BY <1>1 DEF Begin
<1> QED  BY <1>1, <1>2 DEF StartCycle, StartReplay, TriggerCycle

\* Once there is a primary there always is one.
LEMMA ManagerStep ==
    ASSUME TypeInv, [Next]_vars
    PROVE  /\ manager' \in Manager
           /\ manager.primary.model \in Known => manager'.primary.model \in Known
           /\ \/ manager' = manager
              \/ \E v \in Version : manager' = LoadShadow(manager, v, TRUE)
              \/ \E v \in Version : manager' = LoadShadowUnread(manager, v) /\ v \in unread'
              \/ HasShadow(manager) /\ manager' = PromoteShadow(manager)
<1>0. manager \in Manager
  BY DEF TypeInv, TypeOK
<1>1. \/ manager' = manager
      \/ \E v \in Version : manager' = LoadShadow(manager, v, TRUE)
      \/ \E v \in Version : manager' = LoadShadowUnread(manager, v) /\ v \in unread'
      \/ HasShadow(manager) /\ manager' = PromoteShadow(manager)
  <2>1. ASSUME NEW c \in Cycle,
               \/ StartCycle(c) \/ (\E anchor \in Time : StartReplay(c, anchor))
               \/ CycleStep(c) \/ ChunkFails(c) \/ DispatchFails(c)
        PROVE  manager' = manager
    BY <2>1 DEF StartCycle, StartReplay, CycleStep, FetchStatuses, PostChunk, ChunkAnswered,
         ReadWarehouses, AskDispatcher, SaveOrders, EndCycle, ChunkFails, DispatchFails
  <2>2. ASSUME NEW k \in Caller, NEW r \in Route, TaskStep(k, r) \/ TaskFails(k, r)
        PROVE  manager' = manager
    BY <2>2 DEF TaskStep, ReadHistory, AppendObservation, ReadAverage, Compute, SaveShadow,
         SavePrimary, TaskFails
  <2>3. CASE UploadStep
    BY <2>3 DEF UploadStep, FillSnapshot, CommitSnapshot, TrainOnSnapshot, PromoteUploaded,
         PromotionRefused, TriggerCycle, UploadDone
  <2>4. CASE \/ Tick \/ (\E r \in Route : PostObservation(r)) \/ BackfillTargets \/ BackfillActuals
             \/ BackfillFails \/ ClearSnapshot \/ AbortSnapshot
             \/ (\E v \in Version : LoadChallenger(v)) \/ PromoteChallenger \/ UNCHANGED vars
    BY <2>4 DEF Tick, PostObservation, BackfillTargets, BackfillActuals, BackfillFails,
         ClearSnapshot, AbortSnapshot, LoadChallenger, PromoteChallenger, vars
  <2>5. CASE \E v \in Version : ChallengerUnread(v) \/ UploadedUnread(v)
    BY <2>5 DEF ChallengerUnread, UploadedUnread, ShadowUnread
  <2> QED  BY <2>1, <2>2, <2>3, <2>4, <2>5 DEF Next
<1>2. ASSUME NEW v \in Version, manager' = LoadShadow(manager, v, TRUE)
      PROVE  manager' \in Manager /\ manager'.primary = manager.primary
  BY <1>0, <1>2, LoadedManager
<1>3. ASSUME HasShadow(manager), manager' = PromoteShadow(manager)
      PROVE  manager' \in Manager /\ manager'.primary.model \in Known
  BY <1>0, <1>3, PromotedManager
<1>4. ASSUME NEW v \in Version, manager' = LoadShadowUnread(manager, v)
      PROVE  manager' \in Manager /\ manager'.primary = manager.primary
  BY <1>0, <1>4, UnreadManager
<1> QED  BY <1>0, <1>1, <1>2, <1>3, <1>4

CyclesKept == cycle' \in [Cycle -> CycleRecord] /\ \A c \in Cycle : CycleSound(c)'

\* The steps of the cycles.
LEMMA CycleStepTyped ==
    ASSUME TypeInv, NEW c \in Cycle, CycleStep(c) \/ ChunkFails(c) \/ DispatchFails(c)
    PROVE  CyclesKept
<1>0. cycle \in [Cycle -> CycleRecord]
  BY DEF TypeInv, TypeOK
<1>1. cycle[c] \in CycleRecord /\ CycleSound(c)
  BY <1>0 DEF TypeInv
<1>2. cycle' = [cycle EXCEPT ![c] = cycle'[c]]
  BY <1>0 DEF CycleStep, FetchStatuses, PostChunk, ChunkAnswered, ReadWarehouses, AskDispatcher,
         SaveOrders, EndCycle, ChunkFails, DispatchFails
<1>3. cycle'[c] \in CycleRecord /\ CycleSound(c)'
  <2>1. CASE FetchStatuses(c)
    <3> DEFINE L == LatestStatuses(history, cycle[c].todo, cycle[c].anchor)
    <3>1. DOMAIN L \in SUBSET Route /\ L \in [DOMAIN L -> Time]
      <4>1. cycle[c].todo \in SUBSET Route /\ cycle[c].anchor \in Time
        BY <1>1 DEF CycleRecord
      <4> QED  BY <4>1, LatestStatusesPast DEF TypeInv, TypeOK
    <3>2. L \in UNION {[rs -> Time] : rs \in SUBSET Route}
      BY <3>1
    <3>3. cycle'[c] = [cycle[c] EXCEPT !.carry = L, !.todo = DOMAIN L,
                             !.pc = IF DOMAIN L = {} THEN "warehouses" ELSE "post"]
      BY <1>0, <2>1 DEF FetchStatuses
    <3> HIDE DEF L
    <3>4. cycle'[c] \in CycleRecord
      BY <1>1, <3>1, <3>2, <3>3 DEF CycleRecord, Stage
    <3>5. /\ cycle'[c].pc \in {"warehouses", "post"}
          /\ cycle'[c].todo = DOMAIN L /\ cycle'[c].carry = L
      BY <1>1, <3>3 DEF CycleRecord
    <3> QED  BY <3>4, <3>5 DEF CycleSound
  <2>2. CASE PostChunk(c)
    <3>1. NextChunk(c) \subseteq cycle[c].todo
      BY DEF NextChunk
    <3> QED  BY <1>0, <1>1, <2>2, <3>1 DEF PostChunk, CycleRecord, CycleSound, Stage
  <2>3. CASE ChunkAnswered(c)
    BY <1>0, <1>1, <2>3 DEF ChunkAnswered, CycleRecord, CycleSound, Stage
  <2>4. CASE ReadWarehouses(c)
    <3>1. {Home[r] : r \in routes} \in SUBSET Warehouse
      BY StatusHistoryAssumption DEF TypeInv, TypeOK
    <3> QED  BY <1>0, <1>1, <2>4, <3>1 DEF ReadWarehouses, CycleRecord, CycleSound, Stage
  <2>5. ASSUME NEW w \in Warehouse, AskDispatcher(c, w)
        PROVE  cycle'[c] \in CycleRecord /\ CycleSound(c)'
    <3>1. Wanted(w, cycle[c].anchor) \in SUBSET Time
      BY DEF Wanted
    <3>2. cycle'[c].pc \in {"ask", w}
      BY <1>0, <1>1, <2>5 DEF AskDispatcher, CycleRecord
    <3>3. w \notin Stage
      BY OperationsAssumption
    <3> QED  BY <1>0, <1>1, <2>5, <3>1, <3>2, <3>3 DEF AskDispatcher, CycleRecord, CycleSound, Stage
  <2>6. ASSUME NEW w \in Warehouse, SaveOrders(c, w)
        PROVE  cycle'[c] \in CycleRecord /\ CycleSound(c)'
    BY <1>0, <1>1, <2>6 DEF SaveOrders, CycleRecord, CycleSound, Stage
  <2>7. CASE EndCycle(c)
    BY <1>0, <1>1, <2>7 DEF EndCycle, CycleRecord, CycleSound, Stage
  <2>8. CASE ChunkFails(c) \/ DispatchFails(c)
    <3>1. \/ cycle'[c] = [cycle[c] EXCEPT !.pc = "ended", !.status = "failed",
                                         !.todo = {}, !.chunk = {}]
          \/ cycle'[c] = [cycle[c] EXCEPT !.pc = "ask", !.want = {}]
      BY <1>0, <2>8 DEF ChunkFails, DispatchFails
    <3>2. cycle'[c] \in CycleRecord /\ cycle'[c].pc \in {"ended", "ask"}
      BY <1>1, <3>1 DEF CycleRecord, Stage
    <3> QED  BY <3>2 DEF CycleSound
  <2> QED  BY <2>1, <2>2, <2>3, <2>4, <2>5, <2>6, <2>7, <2>8 DEF CycleStep
<1>4. ASSUME NEW d \in Cycle PROVE CycleSound(d)'
  BY <1>0, <1>2, <1>3 DEF CycleSound, TypeInv
<1> QED  BY <1>0, <1>2, <1>3, <1>4 DEF CyclesKept

TasksKept ==
    /\ task' \in [Caller -> [Route -> TaskRecord]]
    /\ \A k \in Caller, r \in Route : TaskSound(k, r)'

\* The steps of the predictions.
LEMMA TaskStepTyped ==
    ASSUME TypeInv, NEW k \in Caller, NEW r \in Route, TaskStep(k, r) \/ TaskFails(k, r)
    PROVE  TasksKept
<1> DEFINE t == task[k][r]
           u == task'[k][r]
<1>1. t \in TaskRecord /\ TaskSound(k, r) /\ manager \in Manager
  BY DEF TypeInv, TypeOK
<1>2. manager' = manager
  BY DEF TaskStep, ReadHistory, AppendObservation, ReadAverage, Compute, SaveShadow, SavePrimary,
         TaskFails
<1>3. Go(k, r, u)
  BY DEF TaskStep, ReadHistory, AppendObservation, ReadAverage, Compute, SaveShadow, SavePrimary,
         TaskFails, Go, TypeInv, TypeOK
<1>4. RuntimeVersion(manager.primary) \in Name /\ RuntimeVersion(manager.shadow) \in Name
  BY <1>1 DEF RuntimeVersion, Manager, Slot, Name
<1>5. u \in TaskRecord /\ TaskSound(k, r)'
  <2>1. CASE ReadHistory(k, r)
    <3>1. u = [t EXCEPT !.pc = IF manager.primary.model = None THEN "error" ELSE "append",
                        !.cold = Cardinality(Stored(history, r)) < ColdStart]
      BY <2>1 DEF ReadHistory, Go, TypeInv, TypeOK
    <3>2. u \in TaskRecord
      <4> DEFINE few == Cardinality(Stored(history, r)) < ColdStart
      <4>1. few \in BOOLEAN
        OBVIOUS
      <4> HIDE DEF few
      <4> QED  BY <1>1, <3>1, <4>1 DEF TaskRecord, few
    <3>3. u.pc \in {"append", "error"} /\ (u.pc = "append" => manager.primary.model \in Known)
      BY <1>1, <3>1 DEF TaskRecord, Manager, Slot
    <3> HIDE DEF u
    <3> QED  BY <1>2, <3>2, <3>3 DEF TaskSound, u
  <2>2. CASE AppendObservation(k, r)
    <3>1. u = [t EXCEPT !.pc = IF t.cold THEN "average" ELSE "compute"] /\ t.pc = "append"
      BY <2>2 DEF AppendObservation, Go, TypeInv, TypeOK
    <3> QED  BY <1>1, <1>2, <3>1 DEF TaskRecord, TaskSound
  <2>3. CASE ReadAverage(k, r)
    <3>1. u = [t EXCEPT !.pc = "compute"] /\ t.pc = "average"
      BY <2>3 DEF ReadAverage, Go, TypeInv, TypeOK
    <3> QED  BY <1>1, <1>2, <3>1 DEF TaskRecord, TaskSound
  <2>4. CASE Compute(k, r)
    <3>1. /\ t.pc = "compute"
          /\ u = [t EXCEPT !.pc = IF HasShadow(manager) THEN "shadow" ELSE "primary",
                           !.by = manager.primary.model,
                           !.shadow = manager.shadow.model,
                           !.name = IF HasShadow(manager) THEN ShadowVersion(manager)
                                    ELSE RuntimeVersion(manager.primary)]
      BY <2>4 DEF Compute, Go, TypeInv, TypeOK
    <3>2. u \in TaskRecord
      BY <1>1, <1>4, <3>1 DEF TaskRecord, Manager, Slot, Name, ShadowVersion
    <3>3. u.pc \in {"shadow", "primary"} /\ u.by \in Known /\ (u.pc = "shadow" => u.shadow \in Known)
      BY <1>1, <3>1 DEF TaskRecord, TaskSound, HasShadow, Manager, Slot
    <3> HIDE DEF u
    <3> QED  BY <3>2, <3>3 DEF TaskSound, u
  <2>5. CASE SaveShadow(k, r)
    <3>1. u = [t EXCEPT !.pc = "primary", !.name = RuntimeVersion(manager.primary)] /\ t.pc = "shadow"
      BY <2>5 DEF SaveShadow, Go, TypeInv, TypeOK
    <3> QED  BY <1>1, <1>4, <3>1 DEF TaskRecord, TaskSound
  <2>6. CASE SavePrimary(k, r)
    <3>1. u = [t EXCEPT !.pc = "done"]
      BY <2>6 DEF SavePrimary, Go, TypeInv, TypeOK
    <3> QED  BY <1>1, <3>1 DEF TaskRecord, TaskSound
  <2>7. CASE TaskFails(k, r)
    <3>1. \/ /\ u = [t EXCEPT !.pc = "primary", !.name = RuntimeVersion(manager.primary)]
             /\ t.pc = "shadow"
          \/ u = [t EXCEPT !.pc = "done"]
          \/ u = [t EXCEPT !.pc = "error"]
      BY <2>7 DEF TaskFails, Go, TypeInv, TypeOK
    <3> QED  BY <1>1, <1>4, <3>1 DEF TaskRecord, TaskSound
  <2> QED  BY <2>1, <2>2, <2>3, <2>4, <2>5, <2>6, <2>7 DEF TaskStep
<1> HIDE DEF t, u
<1>6. /\ task' \in [Caller -> [Route -> TaskRecord]]
      /\ \A i \in Caller, q \in Route : (i # k \/ q # r) => task'[i][q] = task[i][q]
  BY <1>3, <1>5, GoTyped
<1>7. ASSUME NEW i \in Caller, NEW q \in Route PROVE TaskSound(i, q)'
  <2>1. CASE i = k /\ q = r
    BY <1>5, <2>1
  <2>2. CASE i # k \/ q # r
    <3>1. task'[i][q] = task[i][q] /\ TaskSound(i, q)
      BY <1>6, <2>2 DEF TypeInv
    <3> QED  BY <1>2, <3>1 DEF TaskSound
  <2> QED  BY <2>1, <2>2
<1> QED  BY <1>6, <1>7 DEF TasksKept

\* Who writes each part of the state.
LEMMA Writers ==
    ASSUME TypeInv, [Next]_vars
    PROVE  /\ now' = now \/ Tick
           /\ history' = history \/ SomeAppended \/ BackfillTargets \/ CommitSnapshot
           /\ routes' = routes \/ CommitSnapshot
           /\ forecasts' = forecasts \/ SomeSaved \/ CommitSnapshot
           /\ orders' = orders \/ SomeOrdered \/ BackfillActuals \/ CommitSnapshot
           /\ cycle' = cycle \/ BeginsSome \/ CycleMoves
           /\ task' = task \/ SomePosted \/ SomeObserved \/ TaskMoves
           /\ mixed => mixed'
<1>0. UNCHANGED vars => UNCHANGED <<now, Tables, Actors, mixed>>
  BY DEF vars
<1>1. now' = now \/ Tick
  BY <1>0, StepKinds, CycleMovesFrame, TaskMovesFrame, BeginsFrame DEF SomeObserved, PostObservation,
       BackfillTargets, BackfillActuals, BackfillFails, ClearSnapshot, FillSnapshot,
       CommitSnapshot, AbortSnapshot, SomeTrained, TrainOnSnapshot, UploadedUnread,
       PromoteUploaded, PromotionRefused, UploadDone, SomeLoaded, LoadChallenger,
       ChallengerUnread, PromoteChallenger
<1>2. mixed => mixed'
  BY <1>0, StepKinds, CycleMovesFrame, TaskMovesFrame, BeginsFrame DEF Tick, SomeObserved,
       PostObservation, BackfillTargets, BackfillActuals, BackfillFails, ClearSnapshot,
       FillSnapshot, CommitSnapshot, AbortSnapshot, SomeTrained, TrainOnSnapshot,
       UploadedUnread, PromoteUploaded, PromotionRefused, UploadDone, SomeLoaded,
       LoadChallenger, ChallengerUnread, PromoteChallenger
<1> DEFINE ByTables ==
               /\ history' = history \/ SomeAppended \/ BackfillTargets \/ CommitSnapshot
               /\ routes' = routes \/ CommitSnapshot
               /\ forecasts' = forecasts \/ SomeSaved \/ CommitSnapshot
               /\ orders' = orders \/ SomeOrdered \/ BackfillActuals \/ CommitSnapshot
           ByActors ==
               /\ cycle' = cycle \/ BeginsSome \/ CycleMoves
               /\ task' = task \/ SomePosted \/ SomeObserved \/ TaskMoves
<1>3. ByTables
  BY <1>0, StepKinds, CycleMovesFrame, TaskMovesFrame, BeginsFrame DEF Tick, SomeObserved,
       PostObservation, BackfillTargets, BackfillActuals, BackfillFails, ClearSnapshot,
       FillSnapshot, AbortSnapshot, SomeTrained, TrainOnSnapshot, UploadedUnread,
       PromoteUploaded, PromotionRefused, UploadDone, SomeLoaded, LoadChallenger,
       ChallengerUnread, PromoteChallenger, Tables
<1>4. ByActors
  BY <1>0, StepKinds, CycleMovesFrame, TaskMovesFrame, BeginsFrame DEF Tick,
       SomeObserved, PostObservation, BackfillTargets, BackfillActuals, BackfillFails, ClearSnapshot, FillSnapshot,
       CommitSnapshot, AbortSnapshot, SomeTrained, TrainOnSnapshot, UploadedUnread,
       PromoteUploaded, PromotionRefused, UploadDone, SomeLoaded, LoadChallenger,
       ChallengerUnread, PromoteChallenger, Actors
<1> QED  BY <1>1, <1>2, <1>3, <1>4

\* Only a load that fails half-way makes a version unread.
LEMMA UnreadGrows ==
    ASSUME TypeInv, [Next]_vars
    PROVE  unread' = unread \/ \E v \in Version : unread' = unread \cup {v}
<1>1. CASE SomeTrained \/ SomeLoaded \/ PromoteChallenger \/ UNCHANGED vars
  BY <1>1 DEF SomeTrained, TrainOnSnapshot, UploadedUnread, SomeLoaded, LoadChallenger,
       ChallengerUnread, ShadowUnread, PromoteChallenger, vars
<1>2. CASE BeginsSome
  BY <1>2, BeginsFrame
<1>3. CASE CycleMoves \/ TaskMoves
  BY <1>3, CycleMovesFrame, TaskMovesFrame
<1>4. CASE \/ Tick \/ SomeObserved \/ BackfillTargets \/ BackfillActuals \/ BackfillFails
           \/ ClearSnapshot \/ FillSnapshot \/ CommitSnapshot \/ AbortSnapshot
           \/ PromoteUploaded \/ PromotionRefused \/ UploadDone
  BY <1>4 DEF Tick, SomeObserved, PostObservation, BackfillTargets, BackfillActuals,
       BackfillFails, ClearSnapshot, FillSnapshot, CommitSnapshot, AbortSnapshot,
       PromoteUploaded, PromotionRefused, UploadDone
<1> QED  BY <1>1, <1>2, <1>3, <1>4, StepKinds

-----------------------------------------------------------------------------
(* Type correctness *)

LEMMA TablesTyped ==
    ASSUME TypeInv, [Next]_vars
    PROVE  /\ history' \in History
           /\ routes' \in SUBSET Route
           /\ forecasts' \in SUBSET ForecastRow
           /\ orders' \in [Warehouse -> [Time -> OrderRow \cup {None}]]
<1> DEFINE Goal == /\ history' \in History
                   /\ routes' \in SUBSET Route
                   /\ forecasts' \in SUBSET ForecastRow
                   /\ orders' \in [Warehouse -> [Time -> OrderRow \cup {None}]]
<1>0. /\ history \in History
      /\ routes \in SUBSET Route
      /\ forecasts \in SUBSET ForecastRow
      /\ orders \in [Warehouse -> [Time -> OrderRow \cup {None}]]
      /\ now \in Time
  BY DEF TypeInv, TypeOK
<1>1. ASSUME UNCHANGED Tables PROVE Goal
  BY <1>0, <1>1 DEF Tables
<1>2. CASE CycleMoves
  <2>1. ASSUME SomeOrdered PROVE orders' \in [Warehouse -> [Time -> OrderRow \cup {None}]]
    <3>1. PICK c \in Cycle, w \in Warehouse : SaveOrders(c, w)
      BY <2>1 DEF SomeOrdered
    <3>2. PICK kept : orders' = [orders EXCEPT ![w] = [s \in Time |->
              IF s \in cycle[c].want \ kept THEN Upserted(orders[w][s], c) ELSE orders[w][s]]]
      BY <3>1 DEF SaveOrders
    <3>3. ASSUME NEW s \in Time
          PROVE  (IF s \in cycle[c].want \ kept THEN Upserted(orders[w][s], c) ELSE orders[w][s])
                     \in OrderRow \cup {None}
      <4>1. orders[w][s] \in OrderRow \cup {None}
        BY <1>0
      <4> QED  BY <4>1 DEF Upserted, OrderRow
    <3> QED  BY <1>0, <3>2, <3>3
  <2> QED  BY <1>0, <1>2, <2>1, CycleMovesFrame
<1>3. CASE TaskMoves
  <2>1. ASSUME SomeAppended PROVE history' \in History
    <3>1. PICK k \in Caller, r \in Route : AppendObservation(k, r)
      BY <2>1 DEF SomeAppended
    <3>2. task[k][r].anchor \in Time /\ task[k][r].seen \in Time
      BY DEF TypeInv, TypeOK, TaskRecord
    <3>3. history' = Appended(history, r, task[k][r].anchor, task[k][r].seen)
      BY <3>1 DEF AppendObservation
    <3> QED  BY <1>0, <3>2, <3>3, AppendedHistory
  <2>2. ASSUME SomeSaved PROVE forecasts' \in SUBSET ForecastRow
    <3>1. PICK k \in Caller, r \in Route : SaveShadow(k, r) \/ SavePrimary(k, r)
      BY <2>2 DEF SomeSaved
    <3>2. task[k][r] \in TaskRecord /\ TaskSound(k, r)
      BY DEF TypeInv, TypeOK
    <3>3. CASE SaveShadow(k, r)
      BY <1>0, <3>2, <3>3 DEF SaveShadow, Forecast, ForecastRow, TaskRecord, TaskSound
    <3>4. CASE SavePrimary(k, r)
      BY <1>0, <3>2, <3>4 DEF SavePrimary, Forecast, ForecastRow, TaskRecord, TaskSound
    <3> QED  BY <3>1, <3>3, <3>4
  <2> QED  BY <1>0, <1>3, <2>1, <2>2, TaskMovesFrame
<1>4. CASE BackfillTargets
  <2>1. history' \in History
    BY <1>0, <1>4, BackfilledHistory DEF BackfillTargets
  <2> QED  BY <1>0, <1>4, <2>1 DEF BackfillTargets
<1>5. CASE BackfillActuals
  <2>1. ASSUME NEW w \in Warehouse, NEW s \in Time
        PROVE  (IF Mature(w, s) THEN [orders[w][s] EXCEPT !.actual = SlotLabels(history, w, s)]
                ELSE orders[w][s]) \in OrderRow \cup {None}
    <3>1. orders[w][s] \in OrderRow \cup {None}
      BY <1>0
    <3>2. SlotLabels(history, w, s) \in SUBSET (Route \X Time)
      BY <1>0, SlotLabelsTyped
    <3> QED  BY <3>1, <3>2 DEF Mature, OrderRow
  <2> QED  BY <1>0, <1>5, <2>1 DEF BackfillActuals
<1>6. CASE CommitSnapshot
  <2>1. Seen(upload.fresh) \in History
    BY <1>0, SeenHistory
  <2>2. [w \in Warehouse |-> [s \in Time |->
              IF <<w, s>> \in upload.orders THEN None ELSE orders[w][s]]]
            \in [Warehouse -> [Time -> OrderRow \cup {None}]]
    BY <1>0
  <2> QED  BY <1>0, <1>6, <2>1, <2>2 DEF CommitSnapshot, RebuiltRoutes, Tables
<1>7. CASE \/ Tick \/ BeginsSome \/ SomeObserved \/ BackfillFails \/ ClearSnapshot \/ FillSnapshot
           \/ AbortSnapshot \/ SomeTrained \/ PromoteUploaded
           \/ PromotionRefused \/ UploadDone \/ SomeLoaded \/ PromoteChallenger \/ UNCHANGED vars
  <2>1. UNCHANGED Tables
    BY <1>7, BeginsFrame DEF Tick, SomeObserved, PostObservation, BackfillFails, ClearSnapshot,
         FillSnapshot, AbortSnapshot, SomeTrained, TrainOnSnapshot, UploadedUnread,
         PromoteUploaded, PromotionRefused, UploadDone, SomeLoaded, LoadChallenger,
         ChallengerUnread, PromoteChallenger, vars
  <2> QED  BY <1>1, <2>1
<1> QED  BY <1>2, <1>3, <1>4, <1>5, <1>6, <1>7, StepKinds

LEMMA UploadTyped ==
    ASSUME TypeInv, [Next]_vars
    PROVE  upload' \in UploadRecord
<1>0. /\ upload \in UploadRecord /\ routes \in SUBSET Route /\ history \in History
      /\ forecasts \in SUBSET ForecastRow
  BY DEF TypeInv, TypeOK
<1>1. CASE ClearSnapshot
  BY <1>0, <1>1 DEF ClearSnapshot, UploadRecord, RowsOf, OrderKeys
<1>2. CASE FillSnapshot
  <2>1. Inserted \in SUBSET (Route \X Time)
    BY RetainedTyped DEF Inserted
  <2>2. WarehousesOf(Seen(Inserted)) \in SUBSET Warehouse
    BY StatusHistoryAssumption DEF WarehousesOf
  <2> QED  BY <1>0, <1>2, <2>1, <2>2 DEF FillSnapshot, UploadRecord
<1>3. CASE CommitSnapshot \/ AbortSnapshot
  <2>1. NoUpload \in UploadRecord
    BY DEF NoUpload, UploadRecord
  <2> QED  BY <1>3, <2>1 DEF CommitSnapshot, AbortSnapshot, UploadRecord
<1>4. CASE \/ SomeTrained \/ PromoteUploaded \/ PromotionRefused
           \/ UploadDone
  <2>1. CASE SomeTrained
    <3>1. upload' = [upload EXCEPT !.pc = "done"] \/ upload' = [upload EXCEPT !.pc = "promote"]
      BY <2>1 DEF SomeTrained, TrainOnSnapshot, UploadedUnread
    <3> QED  BY <1>0, <3>1 DEF UploadRecord
  <2>2. CASE PromoteUploaded
    BY <1>0, <2>2 DEF PromoteUploaded, UploadRecord
  <2>3. CASE PromotionRefused \/ UploadDone
    BY <1>0, <2>3 DEF PromotionRefused, UploadDone, UploadRecord
  <2> QED  BY <1>4, <2>1, <2>2, <2>3
<1>5. CASE BeginsSome
  <2>1. ASSUME NEW c \in Cycle, TriggerCycle(c) PROVE upload' \in UploadRecord
    BY <1>0, <2>1 DEF TriggerCycle, UploadRecord
  <2> QED  BY <1>0, <1>5, <2>1, BeginsFrame
<1>6. CASE \/ Tick \/ CycleMoves \/ SomeObserved \/ TaskMoves \/ BackfillTargets \/ BackfillActuals
           \/ BackfillFails \/ SomeLoaded \/ PromoteChallenger \/ UNCHANGED vars
  <2>1. upload' = upload
    BY <1>6, CycleMovesFrame, TaskMovesFrame DEF Tick, SomeObserved, PostObservation,
         BackfillTargets, BackfillActuals, BackfillFails, SomeLoaded, LoadChallenger,
         ChallengerUnread, PromoteChallenger, vars, Actors
  <2> QED  BY <1>0, <2>1
<1> QED  BY <1>1, <1>2, <1>3, <1>4, <1>5, <1>6, StepKinds

LEMMA ClocksTyped ==
    ASSUME TypeInv, [Next]_vars
    PROVE  /\ now' \in Time
           /\ backfill' \in {"idle", "actuals"}
           /\ left' \in Bounds
           /\ mixed' \in BOOLEAN
           /\ unread' \in SUBSET Version
<1>0. now \in Time /\ backfill \in {"idle", "actuals"} /\ left \in Bounds /\ mixed \in BOOLEAN
  BY DEF TypeInv, TypeOK, Bounds
<1>1. now' \in Time
  <2>1. now' = now \/ Tick
    BY Writers
  <2> QED  BY <1>0, <2>1, StatusHistoryAssumption DEF Tick, Time
<1>2. backfill' \in {"idle", "actuals"}
  BY <1>0, StepKinds, CycleMovesFrame, TaskMovesFrame, BeginsFrame DEF Tick, SomeObserved,
       PostObservation, BackfillTargets, BackfillActuals, BackfillFails, ClearSnapshot, FillSnapshot,
       CommitSnapshot, AbortSnapshot, SomeTrained, TrainOnSnapshot, UploadedUnread,
       PromoteUploaded, PromotionRefused, UploadDone, SomeLoaded, LoadChallenger,
       ChallengerUnread, PromoteChallenger, vars, Actors
<1>3. left' \in Bounds
  <2>1. \/ left' = left
        \/ left.cycles > 0 /\ left' = [left EXCEPT !.cycles = @ - 1]
        \/ \E kind \in {"clients", "replays", "uploads", "promotes", "backfills", "faults"} :
               Spend(kind)
    <3>1. CASE BeginsSome
      BY <3>1 DEF BeginsSome, StartCycle, StartReplay, TriggerCycle
    <3>2. CASE CycleMoves \/ TaskMoves
      BY <3>2, CycleMovesFrame, TaskMovesFrame
    <3>3. CASE \/ Tick \/ SomeObserved \/ BackfillTargets \/ BackfillActuals \/ BackfillFails
               \/ ClearSnapshot \/ FillSnapshot \/ CommitSnapshot \/ AbortSnapshot
               \/ SomeTrained \/ PromoteUploaded \/ PromotionRefused
               \/ UploadDone \/ SomeLoaded \/ PromoteChallenger \/ UNCHANGED vars
      BY <3>3 DEF Tick, SomeObserved, PostObservation, BackfillTargets, BackfillActuals,
           BackfillFails, ClearSnapshot, FillSnapshot, CommitSnapshot, AbortSnapshot,
           SomeTrained, TrainOnSnapshot, UploadedUnread, PromoteUploaded, PromotionRefused,
           UploadDone, SomeLoaded, LoadChallenger, ChallengerUnread, PromoteChallenger,
           vars
    <3> QED  BY <3>1, <3>2, <3>3, StepKinds
  <2>2. ASSUME left.cycles > 0, left' = [left EXCEPT !.cycles = @ - 1] PROVE left' \in Bounds
    BY <1>0, <2>2 DEF Bounds
  <2> QED  BY <1>0, <2>1, <2>2, SpendBounds
<1>4. mixed' \in BOOLEAN
  BY <1>0, StepKinds, CycleMovesFrame, TaskMovesFrame, BeginsFrame DEF Tick, SomeObserved,
       PostObservation, BackfillTargets, BackfillActuals, BackfillFails, ClearSnapshot, FillSnapshot,
       CommitSnapshot, AbortSnapshot, SomeTrained, TrainOnSnapshot, UploadedUnread,
       PromoteUploaded, PromotionRefused, UploadDone, SomeLoaded, LoadChallenger,
       ChallengerUnread, PromoteChallenger, vars
<1>5. unread' \in SUBSET Version
  BY UnreadGrows DEF TypeInv, TypeOK
<1> QED  BY <1>1, <1>2, <1>3, <1>4, <1>5

\* A prediction that has just been asked for.
Fresh(t, anchor, seen) == t.pc = "queued" /\ t.anchor = anchor /\ t.seen = seen

\* A chunk of a cycle becomes tasks of the prediction service.
LEMMA PostedTasks ==
    ASSUME TypeInv, NEW c \in Cycle, PostChunk(c)
    PROVE  /\ NextChunk(c) \subseteq cycle[c].todo /\ NextChunk(c) \subseteq DOMAIN cycle[c].carry
           /\ task' \in [Caller -> [Route -> TaskRecord]]
           /\ \A k \in Caller, r \in Route :
                 \/ task'[k][r] = task[k][r] /\ (k # c \/ r \notin NextChunk(c))
                 \/ /\ k = c /\ r \in NextChunk(c)
                    /\ Fresh(task'[k][r], cycle[c].anchor, cycle[c].carry[r])
<1>1. cycle[c] \in CycleRecord /\ CycleSound(c) /\ task \in [Caller -> [Route -> TaskRecord]]
      /\ c \in Caller
  BY DEF TypeInv, TypeOK, Caller
<1>2. NextChunk(c) \subseteq cycle[c].todo /\ NextChunk(c) \subseteq DOMAIN cycle[c].carry
  BY <1>1 DEF NextChunk, PostChunk, CycleSound
<1> DEFINE new(r) == [NoTask EXCEPT !.pc = "queued", !.anchor = cycle[c].anchor,
                                    !.seen = cycle[c].carry[r]]
<1>3. ASSUME NEW r \in NextChunk(c) PROVE new(r) \in TaskRecord
  <2>1. cycle[c].carry[r] \in Time /\ cycle[c].anchor \in Time
    BY <1>1, <1>2 DEF CycleRecord
  <2> QED  BY <2>1, StatusHistoryAssumption DEF NoTask, TaskRecord, Name, Time
<1>4. task' = [task EXCEPT ![c] = [r \in Route |->
                  IF r \in NextChunk(c) THEN new(r) ELSE task[c][r]]]
  BY DEF PostChunk
<1>7. \A r : Fresh(new(r), cycle[c].anchor, cycle[c].carry[r])
  BY DEF Fresh, NoTask
<1> HIDE DEF new
<1>5. \A k \in Caller, r \in Route :
          \/ task'[k][r] = task[k][r] /\ (k # c \/ r \notin NextChunk(c))
          \/ k = c /\ r \in NextChunk(c) /\ task'[k][r] = new(r)
  BY <1>1, <1>4
<1>6. task' \in [Caller -> [Route -> TaskRecord]]
  BY <1>1, <1>3, <1>4
<1>8. ASSUME NEW k \in Caller, NEW r \in Route, k = c, task'[k][r] = new(r)
      PROVE  Fresh(task'[k][r], cycle[c].anchor, cycle[c].carry[r])
  BY <1>7, <1>8
<1> QED  BY <1>2, <1>5, <1>6, <1>8

\* A client's observation becomes a task, in the place of one that has ended.
LEMMA ObservedTask ==
    ASSUME TypeInv, NEW r \in Route, PostObservation(r)
    PROVE  /\ task' \in [Caller -> [Route -> TaskRecord]]
           /\ Fresh(task'[Client][r], now, now)
           /\ \A k \in Caller, q \in Route :
                 (k # Client \/ q # r) => task'[k][q] = task[k][q]
<1>1. [NoTask EXCEPT !.pc = "queued", !.anchor = now, !.seen = now] \in TaskRecord
  BY DEF NoTask, TaskRecord, Name, TypeInv, TypeOK
<1>2. Client \in Caller
  BY DEF Client, Caller
<1>3. Go(Client, r, [NoTask EXCEPT !.pc = "queued", !.anchor = now, !.seen = now])
  BY DEF PostObservation
<1>4. Fresh([NoTask EXCEPT !.pc = "queued", !.anchor = now, !.seen = now], now, now)
  BY DEF Fresh, NoTask
<1> QED  BY <1>1, <1>2, <1>3, <1>4, GoTyped

\* What the steps of a prediction leave alone.
LEMMA TaskFrame ==
    ASSUME TypeInv, NEW k \in Caller, NEW r \in Route, TaskStep(k, r) \/ TaskFails(k, r)
    PROVE  /\ \A i \in Caller, q \in Route : (i # k \/ q # r) => task'[i][q] = task[i][q]
           /\ task'[k][r].seen = task[k][r].seen /\ task'[k][r].anchor = task[k][r].anchor
           /\ TaskRuns(k, r)
           /\ task'[k][r].pc # "none"
<1>1. task[k][r] \in TaskRecord /\ task \in [Caller -> [Route -> TaskRecord]]
  BY DEF TypeInv, TypeOK
<1>2. Go(k, r, task'[k][r])
  BY <1>1 DEF TaskStep, ReadHistory, AppendObservation, ReadAverage, Compute, SaveShadow,
       SavePrimary, TaskFails, Go
<1>3. TaskRuns(k, r)
  BY DEF TaskStep, ReadHistory, AppendObservation, ReadAverage, Compute, SaveShadow, SavePrimary,
       TaskFails, TaskRuns
<1> DEFINE u == task'[k][r]
           Goal == u.seen = task[k][r].seen /\ u.anchor = task[k][r].anchor /\ u.pc # "none"
<1>4. task'[k][r] = u /\ \A i \in Caller, q \in Route : (i # k \/ q # r) => task'[i][q] = task[i][q]
  BY <1>1, <1>2 DEF Go
<1>5. CASE ReadHistory(k, r)
  <2>1. Goal
    BY <1>1, <1>5 DEF ReadHistory, Go, TaskRecord
  <2> QED  BY <1>3, <1>4, <2>1
<1>6. CASE AppendObservation(k, r)
  <2>1. Goal
    BY <1>1, <1>6 DEF AppendObservation, Go, TaskRecord
  <2> QED  BY <1>3, <1>4, <2>1
<1>7. CASE ReadAverage(k, r)
  <2>1. Goal
    BY <1>1, <1>7 DEF ReadAverage, Go, TaskRecord
  <2> QED  BY <1>3, <1>4, <2>1
<1>8. CASE Compute(k, r)
  <2>1. Goal
    BY <1>1, <1>8 DEF Compute, Go, TaskRecord
  <2> QED  BY <1>3, <1>4, <2>1
<1>9. CASE SaveShadow(k, r)
  <2>1. Goal
    BY <1>1, <1>9 DEF SaveShadow, Go, TaskRecord
  <2> QED  BY <1>3, <1>4, <2>1
<1>10. CASE SavePrimary(k, r)
  <2>1. Goal
    BY <1>1, <1>10 DEF SavePrimary, Go, TaskRecord
  <2> QED  BY <1>3, <1>4, <2>1
<1>11. CASE TaskFails(k, r)
  <2>1. Goal
    BY <1>1, <1>11 DEF TaskFails, Go, TaskRecord
  <2> QED  BY <1>3, <1>4, <2>1
<1> QED  BY <1>5, <1>6, <1>7, <1>8, <1>9, <1>10, <1>11 DEF TaskStep

\* What the steps of a cycle leave alone.
LEMMA CycleFrame ==
    ASSUME TypeInv, NEW c \in Cycle, CycleStep(c) \/ ChunkFails(c) \/ DispatchFails(c)
    PROVE  /\ \A d \in Cycle : d # c => cycle'[d] = cycle[d]
           /\ cycle'[c].started = cycle[c].started /\ cycle'[c].anchor = cycle[c].anchor
           /\ ~FetchStatuses(c) => cycle'[c].carry = cycle[c].carry
           /\ CycleRuns(c)
           /\ cycle'[c].pc # "none"
<1>1. cycle[c] \in CycleRecord /\ cycle \in [Cycle -> CycleRecord]
  BY DEF TypeInv, TypeOK
<1>2. cycle' = [cycle EXCEPT ![c] = cycle'[c]]
  BY <1>1 DEF CycleStep, FetchStatuses, PostChunk, ChunkAnswered, ReadWarehouses, AskDispatcher,
         SaveOrders, EndCycle, ChunkFails, DispatchFails
<1>3. CycleRuns(c)
  BY OperationsAssumption DEF CycleStep, FetchStatuses, PostChunk, ChunkAnswered, ReadWarehouses,
         AskDispatcher, SaveOrders, EndCycle, ChunkFails, DispatchFails, CycleRuns, Stage
<1> DEFINE Goal == /\ cycle'[c].started = cycle[c].started /\ cycle'[c].anchor = cycle[c].anchor
                   /\ ~FetchStatuses(c) => cycle'[c].carry = cycle[c].carry
                   /\ cycle'[c].pc # "none"
<1>4. ASSUME FetchStatuses(c) PROVE Goal
  BY <1>1, <1>4 DEF FetchStatuses, CycleRecord
<1>5. ASSUME PostChunk(c) PROVE Goal
  BY <1>1, <1>5 DEF PostChunk, CycleRecord
<1>6. ASSUME ChunkAnswered(c) PROVE Goal
  BY <1>1, <1>6 DEF ChunkAnswered, CycleRecord
<1>7. ASSUME ReadWarehouses(c) PROVE Goal
  BY <1>1, <1>7 DEF ReadWarehouses, CycleRecord
<1>8. ASSUME EndCycle(c) PROVE Goal
  BY <1>1, <1>8 DEF EndCycle, CycleRecord
<1>9. ASSUME ChunkFails(c) PROVE Goal
  BY <1>1, <1>9 DEF ChunkFails, CycleRecord
<1>10. ASSUME DispatchFails(c) PROVE Goal
  BY <1>1, <1>10 DEF DispatchFails, CycleRecord
<1>11. ASSUME NEW w \in Warehouse, AskDispatcher(c, w) PROVE Goal
  BY <1>1, <1>11, OperationsAssumption DEF AskDispatcher, CycleRecord, Stage
<1>12. ASSUME NEW w \in Warehouse, SaveOrders(c, w) PROVE Goal
  BY <1>1, <1>12 DEF SaveOrders, CycleRecord
<1>13. Goal
  BY <1>4, <1>5, <1>6, <1>7, <1>8, <1>9, <1>10, <1>11, <1>12 DEF CycleStep
<1> QED  BY <1>1, <1>2, <1>3, <1>13

LEMMA ActorsTyped ==
    ASSUME TypeInv, [Next]_vars
    PROVE  CyclesKept /\ TasksKept
<1>0. /\ cycle \in [Cycle -> CycleRecord] /\ \A c \in Cycle : CycleSound(c)
      /\ task \in [Caller -> [Route -> TaskRecord]]
      /\ \A k \in Caller, r \in Route : TaskSound(k, r)
  BY DEF TypeInv, TypeOK
<1>1. ASSUME cycle' = cycle PROVE CyclesKept
  BY <1>0, <1>1 DEF CyclesKept, CycleSound
<1>2. manager.primary.model \in Known => manager'.primary.model \in Known
  BY ManagerStep
<1>3. ASSUME task' \in [Caller -> [Route -> TaskRecord]],
             \A k \in Caller, r \in Route :
                 task'[k][r] = task[k][r] \/ task'[k][r].pc = "queued"
      PROVE  TasksKept
  <2>1. ASSUME NEW k \in Caller, NEW r \in Route PROVE TaskSound(k, r)'
    BY <1>0, <1>2, <1>3 DEF TaskSound
  <2> QED  BY <1>3, <2>1 DEF TasksKept
<1>4. ASSUME task' = task PROVE TasksKept
  BY <1>0, <1>3, <1>4
<1>5. CASE BeginsSome
  <2>1. CyclesKept
    BY <1>5, BeginTyped DEF BeginsSome, CyclesKept
  <2> QED  BY <1>4, <1>5, <2>1, BeginsFrame
<1>6. CASE CycleMoves
  <2>1. CyclesKept
    BY <1>6, CycleStepTyped DEF CycleMoves
  <2>2. ASSUME NEW c \in Cycle, PostChunk(c) PROVE TasksKept
    <3>1. \A k \in Caller, r \in Route : task'[k][r] = task[k][r] \/ task'[k][r].pc = "queued"
      BY <2>2, PostedTasks DEF Fresh
    <3>2. task' \in [Caller -> [Route -> TaskRecord]]
      BY <2>2, PostedTasks
    <3> QED  BY <1>3, <3>1, <3>2
  <2> QED  BY <1>4, <1>6, <2>1, <2>2, CycleMovesFrame DEF SomePosted
<1>7. CASE SomeObserved
  <2>1. PICK r \in Route : PostObservation(r)
    BY <1>7 DEF SomeObserved
  <2>2. \A k \in Caller, q \in Route : task'[k][q] = task[k][q] \/ task'[k][q].pc = "queued"
    BY <2>1, ObservedTask DEF Fresh
  <2>3. task' \in [Caller -> [Route -> TaskRecord]] /\ cycle' = cycle
    BY <2>1, ObservedTask DEF PostObservation
  <2> QED  BY <1>1, <1>3, <2>2, <2>3
<1>8. CASE TaskMoves
  <2>1. TasksKept
    BY <1>8, TaskStepTyped DEF TaskMoves
  <2> QED  BY <1>1, <1>8, <2>1, TaskMovesFrame
<1>9. CASE \/ Tick \/ BackfillTargets \/ BackfillActuals \/ BackfillFails \/ ClearSnapshot
           \/ FillSnapshot \/ CommitSnapshot \/ AbortSnapshot
           \/ SomeTrained \/ PromoteUploaded \/ PromotionRefused
           \/ UploadDone \/ SomeLoaded \/ PromoteChallenger \/ UNCHANGED vars
  <2>1. cycle' = cycle /\ task' = task
    BY <1>9 DEF Tick, BackfillTargets, BackfillActuals, BackfillFails, ClearSnapshot,
         FillSnapshot, CommitSnapshot, AbortSnapshot, SomeTrained, TrainOnSnapshot,
         UploadedUnread, PromoteUploaded, PromotionRefused, UploadDone, SomeLoaded,
         LoadChallenger, ChallengerUnread, PromoteChallenger, vars, Actors
  <2> QED  BY <1>1, <1>4, <2>1
<1> QED  BY <1>5, <1>6, <1>7, <1>8, <1>9, StepKinds

LEMMA TypeStep == TypeInv /\ [Next]_vars => TypeInv'
<1> SUFFICES ASSUME TypeInv, [Next]_vars PROVE TypeInv'
  OBVIOUS
<1>1. /\ history' \in History /\ routes' \in SUBSET Route /\ forecasts' \in SUBSET ForecastRow
      /\ orders' \in [Warehouse -> [Time -> OrderRow \cup {None}]]
  BY TablesTyped
<1>2. CyclesKept /\ TasksKept
  BY ActorsTyped
<1>3. manager' \in Manager /\ upload' \in UploadRecord
  BY ManagerStep, UploadTyped
<1>4. /\ now' \in Time /\ backfill' \in {"idle", "actuals"} /\ mixed' \in BOOLEAN
      /\ left' \in [cycles: Nat, budget: Budget] /\ unread' \in SUBSET Version
  BY ClocksTyped DEF Bounds
<1>5. TypeOK'
  BY <1>1, <1>2, <1>3, <1>4 DEF TypeOK, CyclesKept, TasksKept
<1> QED  BY <1>2, <1>5 DEF TypeInv, CyclesKept, TasksKept

\* The tables, cycles, predictions and slots keep their types; in particular a
\* forecast always has a model that made it, as no step takes the primary away
\* from a prediction that has seen one (_run_single_prediction).
THEOREM TypeCorrect == Spec => []TypeOK
<1>1. TypeInv => TypeOK
  BY DEF TypeInv
<1> QED  BY <1>1, TypeInit, TypeStep, PTL DEF Spec

-----------------------------------------------------------------------------
(* Statuses *)

\* Nothing on its way from a row of the past to a new row is from the future.
PastInv ==
    /\ StatusesOfThePast
    /\ \A c \in Cycle : \A r \in DOMAIN cycle[c].carry : cycle[c].carry[r] <= cycle[c].anchor
    /\ \A k \in Caller, r \in Route : task[k][r].seen <= task[k][r].anchor

LEMMA PastStep ==
    ASSUME TypeInv, PastInv, [Next]_vars
    PROVE  PastInv'
<1>0. /\ history \in History /\ now \in Time
      /\ cycle \in [Cycle -> CycleRecord] /\ task \in [Caller -> [Route -> TaskRecord]]
      /\ \A c \in Cycle : \A r \in DOMAIN cycle[c].carry : cycle[c].carry[r] <= cycle[c].anchor
      /\ \A k \in Caller, r \in Route : task[k][r].seen <= task[k][r].anchor
      /\ \A r \in Route : \A t \in Stored(history, r) : history[r][t].seen <= t
  BY DEF TypeInv, TypeOK, PastInv, StatusesOfThePast, OfThePast
<1>1. StatusesOfThePast'
  <2> SUFFICES ASSUME NEW r \in Route, NEW t \in Stored(history', r)
               PROVE  history'[r][t].seen <= t
    BY DEF StatusesOfThePast, OfThePast
  <2>0. t \in Time /\ history'[r][t] # None
    BY DEF Stored
  <2>1. ASSUME history' = history PROVE history'[r][t].seen <= t
    BY <1>0, <2>1
  <2>2. ASSUME SomeAppended PROVE history'[r][t].seen <= t
    <3>1. PICK k \in Caller, q \in Route : AppendObservation(k, q)
      BY <2>2 DEF SomeAppended
    <3>2. history' = Appended(history, q, task[k][q].anchor, task[k][q].seen)
          /\ task[k][q].anchor \in Time
      BY <1>0, <3>1 DEF AppendObservation, TaskRecord
    <3>3. CASE q = r /\ t = task[k][q].anchor
      <4>1. history'[r][t].seen = task[k][q].seen
        BY <1>0, <2>0, <3>2, <3>3 DEF Appended, History
      <4> QED  BY <1>0, <3>3, <4>1
    <3>4. CASE ~(q = r /\ t = task[k][q].anchor)
      <4>1. history'[r][t] = history[r][t]
        BY <1>0, <2>0, <3>2, <3>4 DEF Appended, History
      <4> QED  BY <1>0, <2>0, <4>1 DEF Stored
    <3> QED  BY <3>3, <3>4
  <2>3. CASE BackfillTargets
    <3>1. history' = BackfillLabels(history, now)
      BY <2>3 DEF BackfillTargets
    <3>2. history[r][t] \in Row \cup {None} /\ (Labelled(history, r, t, now) => history[r][t] # None)
      BY <1>0, <2>0 DEF History, Labelled
    <3>3. history[r][t] # None /\ history'[r][t].seen = history[r][t].seen
      BY <2>0, <3>1, <3>2 DEF BackfillLabels, Row
    <3> QED  BY <1>0, <2>0, <3>3 DEF Stored
  <2>4. CASE CommitSnapshot
    <3>1. ASSUME history' = Seen(upload.fresh) PROVE history'[r][t].seen <= t
      <4>1. history'[r][t] = Uploaded[r][t] \/ history'[r][t] = history[r][t]
        BY <2>0, <3>1 DEF Seen
      <4> QED  BY <1>0, <2>0, <4>1, OperationsAssumption DEF Stored, OfThePast
    <3> QED  BY <2>1, <2>4, <3>1 DEF CommitSnapshot, Tables
  <2>5. history' = history \/ SomeAppended \/ BackfillTargets \/ CommitSnapshot
    BY Writers
  <2> QED  BY <2>1, <2>2, <2>3, <2>4, <2>5
<1>2. ASSUME NEW c \in Cycle
      PROVE  \A r \in DOMAIN cycle'[c].carry : cycle'[c].carry[r] <= cycle'[c].anchor
  <2> DEFINE Goal == \A r \in DOMAIN cycle'[c].carry : cycle'[c].carry[r] <= cycle'[c].anchor
  <2>1. ASSUME cycle'[c].carry = cycle[c].carry, cycle'[c].anchor = cycle[c].anchor PROVE Goal
    BY <1>0, <2>1
  <2>2. CASE BeginsSome
    <3>1. PICK d \in Cycle, anchor \in Time : Begin(d, anchor)
      BY <2>2 DEF BeginsSome
    <3>2. CASE d = c
      <4>1. cycle'[c].carry = <<>>
        BY <1>0, <3>1, <3>2 DEF Begin, NoCycle
      <4> QED  BY <4>1
    <3>3. CASE d # c
      <4>1. cycle'[c] = cycle[c]
        BY <1>0, <3>1, <3>3 DEF Begin
      <4> QED  BY <2>1, <4>1
    <3> QED  BY <3>2, <3>3
  <2>3. ASSUME FetchStatuses(c) PROVE Goal
    <3> DEFINE L == LatestStatuses(history, cycle[c].todo, cycle[c].anchor)
    <3>1. cycle[c].todo \in SUBSET Route /\ cycle[c].anchor \in Time
      BY <1>0 DEF CycleRecord
    <3>2. cycle'[c].carry = L /\ cycle'[c].anchor = cycle[c].anchor
      BY <1>0, <2>3 DEF FetchStatuses, CycleRecord
    <3>3. DOMAIN L \in SUBSET cycle[c].todo
          /\ \A r \in DOMAIN L : \E t \in Stored(history, r) :
                 t <= cycle[c].anchor /\ L[r] = history[r][t].seen
      <4>1. history \in History
        BY <1>0
      <4> QED  BY ONLY <3>1, <4>1, LatestStatusesPast
    <3> HIDE DEF L
    <3>4. ASSUME NEW r \in DOMAIN L PROVE L[r] <= cycle[c].anchor
      <4>1. PICK t \in Stored(history, r) : t <= cycle[c].anchor /\ L[r] = history[r][t].seen
        BY <3>3
      <4>2. r \in Route /\ t \in Time
        BY <3>1, <3>3 DEF Stored
      <4>3. history[r][t] \in Row /\ history[r][t].seen <= t
        BY <1>0, <4>2 DEF Stored, History
      <4> QED  BY <3>1, <4>1, <4>2, <4>3, StatusHistoryAssumption DEF Row, Time
    <3> QED  BY <3>2, <3>4
  <2>4. CASE CycleMoves
    <3>1. PICK d \in Cycle : CycleStep(d) \/ ChunkFails(d) \/ DispatchFails(d)
      BY <2>4 DEF CycleMoves
    <3>2. CASE d # c
      <4>1. cycle'[c] = cycle[c]
        BY <3>1, <3>2, CycleFrame
      <4> QED  BY <2>1, <4>1
    <3>3. CASE d = c /\ ~FetchStatuses(c)
      <4>1. cycle'[c].carry = cycle[c].carry /\ cycle'[c].anchor = cycle[c].anchor
        BY <3>1, <3>3, CycleFrame
      <4> QED  BY <2>1, <4>1
    <3> QED  BY <2>3, <3>2, <3>3
  <2>5. cycle' = cycle \/ BeginsSome \/ CycleMoves
    BY Writers
  <2> QED  BY <2>1, <2>2, <2>4, <2>5
<1>3. ASSUME NEW k \in Caller, NEW r \in Route PROVE task'[k][r].seen <= task'[k][r].anchor
  <2> DEFINE Goal == task'[k][r].seen <= task'[k][r].anchor
  <2>1. ASSUME task'[k][r].seen = task[k][r].seen, task'[k][r].anchor = task[k][r].anchor PROVE Goal
    BY <1>0, <2>1
  <2>2. ASSUME NEW c \in Cycle, PostChunk(c) PROVE Goal
    <3>1. CASE k = c /\ r \in NextChunk(c)
      <4>1. task'[k][r].anchor = cycle[c].anchor /\ task'[k][r].seen = cycle[c].carry[r]
            /\ r \in DOMAIN cycle[c].carry
        BY <2>2, <3>1, PostedTasks DEF Fresh
      <4> QED  BY <1>0, <4>1
    <3>2. CASE ~(k = c /\ r \in NextChunk(c))
      <4>1. task'[k][r] = task[k][r]
        BY <2>2, <3>2, PostedTasks
      <4> QED  BY <2>1, <4>1
    <3> QED  BY <3>1, <3>2
  <2>3. ASSUME NEW q \in Route, PostObservation(q) PROVE Goal
    <3>1. CASE k = Client /\ r = q
      <4>1. task'[k][r].anchor = now /\ task'[k][r].seen = now
        BY <2>3, <3>1, ObservedTask DEF Fresh
      <4> QED  BY <1>0, <4>1, StatusHistoryAssumption DEF Time
    <3>2. CASE ~(k = Client /\ r = q)
      <4>1. task'[k][r] = task[k][r]
        BY <2>3, <3>2, ObservedTask
      <4> QED  BY <2>1, <4>1
    <3> QED  BY <3>1, <3>2
  <2>4. CASE TaskMoves
    <3>1. PICK i \in Caller, q \in Route : TaskStep(i, q) \/ TaskFails(i, q)
      BY <2>4 DEF TaskMoves
    <3>2. CASE i # k \/ q # r
      <4>1. task'[k][r] = task[k][r]
        BY <3>1, <3>2, TaskFrame
      <4> QED  BY <2>1, <4>1
    <3>3. CASE i = k /\ q = r
      <4>1. task'[k][r].seen = task[k][r].seen /\ task'[k][r].anchor = task[k][r].anchor
        BY <3>1, <3>3, TaskFrame
      <4> QED  BY <2>1, <4>1
    <3> QED  BY <3>2, <3>3
  <2>5. task' = task \/ SomePosted \/ SomeObserved \/ TaskMoves
    BY Writers
  <2> QED  BY <2>1, <2>2, <2>3, <2>4, <2>5 DEF SomePosted, SomeObserved
<1> QED  BY <1>1, <1>2, <1>3 DEF PastInv

\* No status is copied from the future into the past, whatever cycles, replays,
\* clients and uploads overlap (get_latest_statuses, as_of): what a cycle
\* carries forward is not newer than its anchor, nor is what a prediction
\* stores.
THEOREM StatusesStayPast == Spec => []StatusesOfThePast
<1>1. Init => PastInv
  <2> SUFFICES ASSUME Init PROVE PastInv
    OBVIOUS
  <2>1. StatusesOfThePast
    BY OperationsAssumption DEF Init, StatusesOfThePast
  <2>2. \A c \in Cycle : cycle[c].carry = <<>>
    BY DEF Init, NoCycle
  <2>3. \A k \in Caller, r \in Route : task[k][r].seen <= task[k][r].anchor
    BY DEF Init, NoTask
  <2> QED  BY <2>1, <2>2, <2>3 DEF PastInv
<1>2. TypeInv /\ PastInv /\ [Next]_vars => PastInv'
  BY PastStep
<1>3. PastInv => StatusesOfThePast
  BY DEF PastInv
<1> QED  BY <1>1, <1>2, <1>3, TypeInit, TypeStep, PTL DEF Spec

-----------------------------------------------------------------------------
(* Names *)

\* What is read as the name of a slot is the model in it, unless its metadata
\* could not be read.
WellNamed(slot) == RuntimeVersion(slot) = slot.model \/ slot.model \in unread

TaskNamed(k, r) ==
    /\ task[k][r].pc = "shadow" => /\ task[k][r].shadow # None
                                   /\ task[k][r].name = task[k][r].shadow
    /\ (task[k][r].pc = "primary" /\ task[k][r].shadow = None) =>
          task[k][r].name = task[k][r].by \/ task[k][r].by \in unread

NameInv ==
    /\ ForecastsNameTheirMaker
    /\ WellNamed(manager.primary) /\ WellNamed(manager.shadow)
    /\ \A k \in Caller, r \in Route : TaskNamed(k, r)

LEMMA NameStep ==
    ASSUME TypeInv, NameInv, [Next]_vars
    PROVE  NameInv'
<1>0. /\ manager \in Manager /\ WellNamed(manager.primary) /\ WellNamed(manager.shadow)
      /\ \A k \in Caller, r \in Route : task[k][r] \in TaskRecord /\ TaskNamed(k, r)
      /\ task \in [Caller -> [Route -> TaskRecord]]
      /\ ForecastsNameTheirMaker
  BY DEF TypeInv, TypeOK, NameInv
<1>u. unread \subseteq unread'
  BY UnreadGrows
<1>1. ForecastsNameTheirMaker'
  <2>1. ASSUME NEW k \in Caller, NEW r \in Route, SaveShadow(k, r) PROVE ForecastsNameTheirMaker'
    <3>1. forecasts' = forecasts \cup {Forecast(k, r, "shadow")}
      BY <2>1 DEF SaveShadow
    <3>2. /\ Forecast(k, r, "shadow").kind = "shadow"
          /\ Forecast(k, r, "shadow").name = Forecast(k, r, "shadow").by
      BY <1>0, <2>1 DEF SaveShadow, Forecast, TaskNamed
    <3> QED  BY <1>0, <1>u, <3>1, <3>2 DEF ForecastsNameTheirMaker
  <2>2. ASSUME NEW k \in Caller, NEW r \in Route, SavePrimary(k, r) PROVE ForecastsNameTheirMaker'
    <3>1. forecasts' = forecasts \cup {Forecast(k, r, "primary")}
      BY <2>2 DEF SavePrimary
    <3> DEFINE f == Forecast(k, r, "primary")
    <3>2. f.kind = "primary" /\ (f.beside = None => f.name = f.by \/ f.by \in unread)
      BY <1>0, <2>2 DEF SavePrimary, Forecast, TaskNamed
    <3> HIDE DEF f
    <3> QED  BY <1>0, <1>u, <3>1, <3>2 DEF ForecastsNameTheirMaker, f
  <2>3. ASSUME forecasts' \subseteq forecasts PROVE ForecastsNameTheirMaker'
    BY <1>0, <1>u, <2>3 DEF ForecastsNameTheirMaker
  <2>4. ASSUME CommitSnapshot PROVE forecasts' \subseteq forecasts
    BY <2>4 DEF CommitSnapshot, Tables
  <2> QED  BY <2>1, <2>2, <2>3, <2>4, Writers DEF SomeSaved
<1>2. WellNamed(manager.primary)' /\ WellNamed(manager.shadow)'
  <2>1. ASSUME NEW v \in Version, manager' = LoadShadow(manager, v, TRUE)
        PROVE  WellNamed(manager.primary)' /\ WellNamed(manager.shadow)'
    BY <1>0, <1>u, <2>1 DEF LoadShadow, WellNamed, RuntimeVersion, Manager
  <2>2. ASSUME manager' = PromoteShadow(manager)
        PROVE  WellNamed(manager.primary)' /\ WellNamed(manager.shadow)'
    BY <1>0, <1>u, <2>2 DEF PromoteShadow, WellNamed, RuntimeVersion, EmptySlot
  <2>3. ASSUME NEW v \in Version, manager' = LoadShadowUnread(manager, v), v \in unread'
        PROVE  WellNamed(manager.primary)' /\ WellNamed(manager.shadow)'
    <3>1. manager'.primary = manager.primary /\ manager'.shadow.model = v
      BY <1>0, <2>3, UnreadManager
    <3> QED  BY <1>0, <1>u, <2>3, <3>1 DEF WellNamed
  <2>4. ASSUME manager' = manager PROVE WellNamed(manager.primary)' /\ WellNamed(manager.shadow)'
    BY <1>0, <1>u, <2>4 DEF WellNamed
  <2> QED  BY <2>1, <2>2, <2>3, <2>4, ManagerStep
<1>3. ASSUME NEW k \in Caller, NEW r \in Route PROVE TaskNamed(k, r)'
  <2> DEFINE t == task[k][r]
             u == task'[k][r]
  <2>1. ASSUME u = t PROVE TaskNamed(k, r)'
    BY <1>0, <1>u, <2>1 DEF TaskNamed
  <2>2. ASSUME u.pc \notin {"shadow", "primary"} PROVE TaskNamed(k, r)'
    BY <2>2 DEF TaskNamed
  <2>3. ASSUME SomePosted PROVE TaskNamed(k, r)'
    <3>1. u = t \/ u.pc = "queued"
      BY <2>3, PostedTasks DEF SomePosted, Fresh
    <3> QED  BY <2>1, <2>2, <3>1
  <2>4. ASSUME SomeObserved PROVE TaskNamed(k, r)'
    <3>1. u = t \/ u.pc = "queued"
      BY <2>4, ObservedTask DEF SomeObserved, Fresh
    <3> QED  BY <2>1, <2>2, <3>1
  <2>5. ASSUME Compute(k, r) PROVE TaskNamed(k, r)'
    <3>1. u = [t EXCEPT !.pc = IF HasShadow(manager) THEN "shadow" ELSE "primary",
                        !.by = manager.primary.model,
                        !.shadow = manager.shadow.model,
                        !.name = IF HasShadow(manager) THEN ShadowVersion(manager)
                                 ELSE RuntimeVersion(manager.primary)]
      BY <1>0, <2>5 DEF Compute, Go
    <3>2. /\ u.pc = IF HasShadow(manager) THEN "shadow" ELSE "primary"
          /\ u.by = manager.primary.model /\ u.shadow = manager.shadow.model
          /\ IF HasShadow(manager) THEN u.name = manager.shadow.model
             ELSE u.name = manager.primary.model \/ manager.primary.model \in unread
      BY <1>0, <3>1 DEF TaskRecord, WellNamed, ShadowVersion
    <3> HIDE DEF t, u
    <3> QED  BY <1>u, <3>2 DEF HasShadow, TaskNamed, u
  <2>6. ASSUME u = [t EXCEPT !.pc = "primary", !.name = RuntimeVersion(manager.primary)],
               t.pc = "shadow"
        PROVE  TaskNamed(k, r)'
    BY <1>0, <1>u, <2>6 DEF TaskNamed, TaskRecord
  <2>7. ASSUME SaveShadow(k, r) PROVE TaskNamed(k, r)'
    BY <1>0, <2>6, <2>7 DEF SaveShadow, Go
  <2>8. ASSUME TaskFails(k, r) PROVE TaskNamed(k, r)'
    <3>1. \/ /\ u = [t EXCEPT !.pc = "primary", !.name = RuntimeVersion(manager.primary)]
             /\ t.pc = "shadow"
          \/ u = [t EXCEPT !.pc = "done"]
          \/ u = [t EXCEPT !.pc = "error"]
      BY <1>0, <2>8 DEF TaskFails, Go
    <3>2. ASSUME u = [t EXCEPT !.pc = "done"] \/ u = [t EXCEPT !.pc = "error"]
          PROVE  u.pc \notin {"shadow", "primary"}
      BY <1>0, <3>2 DEF TaskRecord
    <3> HIDE DEF t, u
    <3> QED  BY <2>2, <2>6, <3>1, <3>2
  <2>9. ASSUME ReadHistory(k, r) \/ AppendObservation(k, r) \/ ReadAverage(k, r) \/ SavePrimary(k, r)
        PROVE  TaskNamed(k, r)'
    <3>1. ASSUME ReadHistory(k, r) PROVE u.pc \notin {"shadow", "primary"}
      BY <1>0, <3>1 DEF ReadHistory, Go, TaskRecord
    <3>2. ASSUME AppendObservation(k, r) PROVE u.pc \notin {"shadow", "primary"}
      BY <1>0, <3>2 DEF AppendObservation, Go, TaskRecord
    <3>3. ASSUME ReadAverage(k, r) \/ SavePrimary(k, r) PROVE u.pc \notin {"shadow", "primary"}
      BY <1>0, <3>3 DEF ReadAverage, SavePrimary, Go, TaskRecord
    <3> QED  BY <2>2, <2>9, <3>1, <3>2, <3>3
  <2>10. ASSUME TaskMoves PROVE TaskNamed(k, r)'
    <3>1. PICK i \in Caller, q \in Route : TaskStep(i, q) \/ TaskFails(i, q)
      BY <2>10 DEF TaskMoves
    <3>2. CASE i # k \/ q # r
      BY <2>1, <3>1, <3>2, TaskFrame
    <3>3. CASE i = k /\ q = r
      BY <2>5, <2>7, <2>8, <2>9, <3>1, <3>3 DEF TaskStep
    <3> QED  BY <3>2, <3>3
  <2> QED  BY <2>1, <2>3, <2>4, <2>10, Writers
<1> QED  BY <1>1, <1>2, <1>3 DEF NameInv

\* A forecast row names the model that made it, whatever is loaded or promoted
\* while it is computed and saved; only a primary row that had a shadow beside
\* it may carry another name (the late read of runtime_version in
\* _run_single_prediction), and one whose model was loaded half-way.
THEOREM NamesAreTrue == Spec => []ForecastsNameTheirMaker
<1>1. Init => NameInv
  <2> SUFFICES ASSUME Init PROVE NameInv
    OBVIOUS
  <2>1. ForecastsNameTheirMaker
    BY DEF Init, ForecastsNameTheirMaker
  <2>2. WellNamed(manager.primary) /\ WellNamed(manager.shadow)
    BY DEF Init, WellNamed, RuntimeVersion, NoModels, EmptySlot
  <2>3. ASSUME NEW k \in Caller, NEW r \in Route PROVE TaskNamed(k, r)
    BY DEF Init, NoTask, TaskNamed
  <2> QED  BY <2>1, <2>2, <2>3 DEF NameInv
<1>2. TypeInv /\ NameInv /\ [Next]_vars => NameInv'
  BY NameStep
<1>3. NameInv => ForecastsNameTheirMaker
  BY DEF NameInv
<1> QED  BY <1>1, <1>2, <1>3, TypeInit, TypeStep, PTL DEF Spec

-----------------------------------------------------------------------------
(* Cycles and their predictions *)

Finished(c, r) == task[c][r].pc \in {"done", "error"}

\* The routes whose predictions a cycle still expects.
Awaited(c) == cycle[c].todo \cup cycle[c].chunk

CycleAwaits(c) ==
    /\ cycle[c].pc \in {"post", "wait", "warehouses", "ask"} \cup Warehouse =>
           \A r \in DOMAIN cycle[c].carry \ Awaited(c) : Finished(c, r)
    /\ cycle[c].pc \in {"warehouses", "ask"} \cup Warehouse => Awaited(c) = {}
    /\ cycle[c].pc \in {"statuses", "post"} => cycle[c].chunk = {}
    /\ cycle[c].pc = "wait" => \A r \in cycle[c].chunk : task[c][r].pc # "none"

\* Cycles are begun one after the other.
CyclesInOrder ==
    \A c, d \in Cycle : (d < c /\ cycle[c].pc # "none") => cycle[d].pc # "none"

\* The cycle of an order has come to its dispatches.
OrdersPlaced ==
    \A w \in Warehouse, s \in Time :
        orders[w][s] # None => cycle[orders[w][s].by].pc \in {"ask", "ended"} \cup Warehouse

FollowInv ==
    /\ OrdersFollowPredictions
    /\ OrdersPlaced
    /\ CyclesInOrder
    /\ \A c \in Cycle : CycleAwaits(c)

\* The next cycle is one that has not begun, after all that have.
LEMMA BeginsNext ==
    ASSUME TypeInv, CyclesInOrder, NEW c \in Cycle, c = Runs + 1
    PROVE  cycle[c].pc = "none" /\ \A d \in Cycle : d < c => cycle[d].pc # "none"
<1> DEFINE Begun == {d \in Cycle : cycle[d].pc # "none"}
<1>0. MaxCycles \in Nat /\ Cycle = 1..MaxCycles
  BY OperationsAssumption DEF Cycle
<1>1. IsFiniteSet(Begun) /\ Cardinality(Begun) = Runs /\ c = Runs + 1
  <2>1. IsFiniteSet(1..MaxCycles)
    BY <1>0, FS_Interval
  <2>2. IsFiniteSet(Begun)
    BY <1>0, <2>1, FS_Subset
  <2> QED  BY <2>2 DEF Runs
<1>2. ASSUME cycle[c].pc # "none" PROVE FALSE
  <2>1. 1..c \subseteq Begun
    BY <1>0, <1>2 DEF CyclesInOrder
  <2>2. Cardinality(1..c) = c /\ IsFiniteSet(1..c)
    BY <1>0, FS_Interval
  <2>3. Cardinality(1..c) <= Cardinality(Begun)
    BY <1>1, <2>1, FS_Subset
  <2>4. Cardinality(Begun) \in Nat
    BY <1>1, FS_CardinalityType
  <2> QED  BY <1>0, <1>1, <2>2, <2>3, <2>4
<1>3. ASSUME NEW d \in Cycle, d < c, cycle[d].pc = "none" PROVE FALSE
  <2>1. Begun \subseteq 1..(d - 1)
    BY <1>0, <1>3 DEF CyclesInOrder
  <2>2. Cardinality(1..(d - 1)) = d - 1 /\ IsFiniteSet(1..(d - 1))
    <3>1. 1 \in Int /\ d - 1 \in Int /\ 0 <= d - 1
      BY <1>0
    <3>2. CASE 1 <= d - 1
      BY <3>1, <3>2, FS_Interval
    <3>3. CASE d - 1 = 0
      <4>1. 1..(d - 1) = {}
        BY <3>1, <3>3
      <4> QED  BY <3>3, <4>1, FS_EmptySet
    <3> QED  BY <3>1, <3>2, <3>3
  <2>3. Cardinality(Begun) <= Cardinality(1..(d - 1))
    BY <2>1, <2>2, FS_Subset
  <2>4. Cardinality(Begun) \in Nat
    BY <1>1, FS_CardinalityType
  <2> QED  BY <1>0, <1>1, <1>3, <2>2, <2>3, <2>4
<1> QED  BY <1>2, <1>3

\* A prediction that has come to its end is asked for again by no cycle but one
\* that posts it; and none is ever forgotten.
LEMMA FinishedStays ==
    ASSUME TypeInv, [Next]_vars, NEW c \in Cycle, NEW r \in Route
    PROVE  /\ Finished(c, r) => Finished(c, r)' \/ (PostChunk(c) /\ r \in NextChunk(c))
           /\ task[c][r].pc # "none" => task'[c][r].pc # "none"
<1> DEFINE Goal == /\ Finished(c, r) => Finished(c, r)' \/ (PostChunk(c) /\ r \in NextChunk(c))
                   /\ task[c][r].pc # "none" => task'[c][r].pc # "none"
<1>0. c \in Caller /\ c # Client
  BY OperationsAssumption DEF Cycle, Caller, Client
<1>1. ASSUME task'[c][r] = task[c][r] PROVE Goal
  BY <1>1 DEF Finished
<1>2. ASSUME NEW d \in Cycle, PostChunk(d) PROVE Goal
  <2>1. \/ task'[c][r] = task[c][r]
        \/ c = d /\ r \in NextChunk(d) /\ task'[c][r].pc = "queued"
    BY <1>0, <1>2, PostedTasks DEF Fresh
  <2> QED  BY <1>1, <1>2, <2>1
<1>3. ASSUME NEW q \in Route, PostObservation(q) PROVE Goal
  <2>1. task'[c][r] = task[c][r]
    BY <1>0, <1>3, ObservedTask
  <2> QED  BY <1>1, <2>1
<1>4. ASSUME NEW k \in Caller, NEW q \in Route, TaskStep(k, q) \/ TaskFails(k, q) PROVE Goal
  <2>1. CASE k = c /\ q = r
    BY <1>4, <2>1, TaskFrame DEF TaskRuns, Finished
  <2>2. CASE k # c \/ q # r
    <3>1. task'[c][r] = task[c][r]
      BY <1>0, <1>4, <2>2, TaskFrame
    <3> QED  BY <1>1, <3>1
  <2> QED  BY <2>1, <2>2
<1> QED  BY <1>1, <1>2, <1>3, <1>4, Writers DEF SomePosted, SomeObserved, TaskMoves

\* Where an order in the table comes from.
LEMMA OrderOrigin ==
    ASSUME TypeInv, [Next]_vars, NEW w \in Warehouse, NEW s \in Time, orders'[w][s] # None
    PROVE  \/ orders'[w][s] = orders[w][s]
           \/ \E c \in Cycle : /\ SaveOrders(c, w) /\ s \in cycle[c].want
                               /\ orders'[w][s] = Upserted(orders[w][s], c)
           \/ /\ BackfillActuals /\ Mature(w, s)
              /\ orders'[w][s] = [orders[w][s] EXCEPT !.actual = SlotLabels(history, w, s)]
<1>0. orders \in [Warehouse -> [Time -> OrderRow \cup {None}]]
  BY DEF TypeInv, TypeOK
<1> DEFINE Goal == \/ orders'[w][s] = orders[w][s]
                   \/ \E c \in Cycle : /\ SaveOrders(c, w) /\ s \in cycle[c].want
                                       /\ orders'[w][s] = Upserted(orders[w][s], c)
                   \/ /\ BackfillActuals /\ Mature(w, s)
                      /\ orders'[w][s] = [orders[w][s] EXCEPT !.actual = SlotLabels(history, w, s)]
<1>1. ASSUME NEW c \in Cycle, NEW v \in Warehouse, SaveOrders(c, v) PROVE Goal
  <2>1. PICK kept : orders' = [orders EXCEPT ![v] = [u \in Time |->
            IF u \in cycle[c].want \ kept THEN Upserted(orders[v][u], c) ELSE orders[v][u]]]
    BY <1>1 DEF SaveOrders
  <2>2. CASE v = w /\ s \in cycle[c].want \ kept
    <3>1. orders'[w][s] = Upserted(orders[w][s], c)
      BY <1>0, <2>1, <2>2
    <3> QED  BY <1>1, <2>2, <3>1
  <2>3. CASE ~(v = w /\ s \in cycle[c].want \ kept)
    BY <1>0, <2>1, <2>3
  <2> QED  BY <2>2, <2>3
<1>2. CASE BackfillActuals
  BY <1>0, <1>2 DEF BackfillActuals
<1>3. CASE CommitSnapshot
  <2>1. \/ orders' = orders
        \/ orders' = [v \in Warehouse |-> [t \in Time |->
                         IF <<v, t>> \in upload.orders THEN None ELSE orders[v][t]]]
    BY <1>3 DEF CommitSnapshot, Tables
  <2>2. orders'[w][s] = orders[w][s]
    BY <2>1
  <2> QED  BY <2>2
<1> QED  BY <1>1, <1>2, <1>3, Writers DEF SomeOrdered

Dispatches(c) == cycle[c].pc \in {"ask", "ended"} \cup Warehouse

\* A cycle that has come to its dispatches stays there, with what it carried.
LEMMA DispatchesStay ==
    ASSUME TypeInv, CyclesInOrder, [Next]_vars, NEW c \in Cycle, Dispatches(c)
    PROVE  Dispatches(c)' /\ cycle'[c].carry = cycle[c].carry /\ ~PostChunk(c)
<1>0. /\ cycle[c] \in CycleRecord /\ cycle \in [Cycle -> CycleRecord]
      /\ cycle[c].pc \notin {"none", "statuses", "post", "wait", "warehouses"}
  BY OperationsAssumption DEF TypeInv, TypeOK, Dispatches, Stage
<1>1. ~PostChunk(c) /\ ~FetchStatuses(c)
  BY <1>0 DEF PostChunk, FetchStatuses
<1>2. ASSUME cycle'[c] = cycle[c] PROVE Dispatches(c)' /\ cycle'[c].carry = cycle[c].carry
  BY <1>2 DEF Dispatches
<1>3. ASSUME NEW d \in Cycle, NEW anchor, Begin(d, anchor)
      PROVE  cycle'[c] = cycle[c]
  <2>1. cycle[d].pc = "none"
    BY <1>3, BeginsNext DEF Begin
  <2> QED  BY <1>0, <1>3, <2>1 DEF Begin
<1>4. ASSUME NEW d \in Cycle, CycleStep(d) \/ ChunkFails(d) \/ DispatchFails(d)
      PROVE  Dispatches(c)' /\ cycle'[c].carry = cycle[c].carry
  <2>1. CASE d # c
    BY <1>2, <1>4, <2>1, CycleFrame
  <2>2. CASE d = c
    <3>1. cycle'[c].carry = cycle[c].carry
      BY <1>1, <1>4, <2>2, CycleFrame
    <3>5. ASSUME NEW w \in Warehouse, AskDispatcher(c, w) PROVE Dispatches(c)'
      BY <1>0, <3>5 DEF AskDispatcher, Dispatches, CycleRecord
    <3>2. ASSUME NEW w \in Warehouse, SaveOrders(c, w) PROVE Dispatches(c)'
      BY <1>0, <3>2 DEF SaveOrders, Dispatches, CycleRecord
    <3>3. ASSUME EndCycle(c) \/ ChunkFails(c) \/ DispatchFails(c) PROVE Dispatches(c)'
      BY <1>0, <3>3 DEF EndCycle, ChunkFails, DispatchFails, Dispatches, CycleRecord
    <3>4. ~ChunkAnswered(c) /\ ~ReadWarehouses(c)
      BY <1>0 DEF ChunkAnswered, ReadWarehouses
    <3> QED  BY <1>1, <1>4, <2>2, <3>1, <3>2, <3>3, <3>4, <3>5 DEF CycleStep
  <2> QED  BY <2>1, <2>2
<1> QED  BY <1>1, <1>2, <1>3, <1>4, Writers DEF BeginsSome, CycleMoves

LEMMA CycleAwaitsStep ==
    ASSUME TypeInv, CyclesInOrder, [Next]_vars, NEW c \in Cycle, CycleAwaits(c)
    PROVE  CycleAwaits(c)'
<1>0. /\ cycle[c] \in CycleRecord /\ cycle \in [Cycle -> CycleRecord]
      /\ DOMAIN cycle[c].carry \subseteq Route /\ cycle[c].chunk \subseteq Route
      /\ c \in Caller /\ CycleSound(c)
      /\ Stage \cap Warehouse = {}
  BY OperationsAssumption DEF TypeInv, TypeOK, CycleRecord, Caller
<1>1. ASSUME cycle'[c] = cycle[c] PROVE CycleAwaits(c)'
  <2>1. ~PostChunk(c)
    <3> SUFFICES ASSUME PostChunk(c) PROVE FALSE
      OBVIOUS
    <3>1. cycle[c].pc = "post" /\ cycle'[c].pc = "wait"
      BY <1>0 DEF PostChunk, CycleRecord
    <3> QED  BY <1>1, <3>1
  <2>2. \A r \in Route : /\ Finished(c, r) => Finished(c, r)'
                         /\ task[c][r].pc # "none" => task'[c][r].pc # "none"
    BY <2>1, FinishedStays
  <2> QED  BY <1>0, <1>1, <2>2 DEF CycleAwaits, Awaited
<1>2. ASSUME NEW d \in Cycle, NEW anchor, Begin(d, anchor) PROVE CycleAwaits(c)'
  <2>1. CASE d # c
    <3>1. cycle'[c] = cycle[c]
      BY <1>0, <1>2, <2>1 DEF Begin
    <3> QED  BY <1>1, <3>1
  <2>2. CASE d = c
    <3>1. cycle'[c].pc \in {"ended", "statuses"} /\ cycle'[c].chunk = {}
      BY <1>0, <1>2, <2>2 DEF Begin, NoCycle
    <3> QED  BY <1>0, <3>1 DEF CycleAwaits, Stage
  <2> QED  BY <2>1, <2>2
<1>3. ASSUME FetchStatuses(c) PROVE CycleAwaits(c)'
  <2>1. /\ cycle'[c].todo = DOMAIN cycle'[c].carry /\ cycle'[c].chunk = cycle[c].chunk
        /\ cycle'[c].pc = IF DOMAIN cycle'[c].carry = {} THEN "warehouses" ELSE "post"
        /\ cycle[c].pc = "statuses"
    BY <1>0, <1>3 DEF FetchStatuses, CycleRecord
  <2>2. cycle[c].chunk = {}
    BY <2>1 DEF CycleAwaits
  <2> QED  BY <1>0, <2>1, <2>2 DEF CycleAwaits, Awaited, Stage
<1>4. ASSUME PostChunk(c) PROVE CycleAwaits(c)'
  <2>1. /\ cycle'[c].pc = "wait" /\ cycle'[c].carry = cycle[c].carry /\ cycle[c].pc = "post"
        /\ cycle'[c].chunk = NextChunk(c) /\ cycle'[c].todo = cycle[c].todo \ NextChunk(c)
        /\ NextChunk(c) \subseteq cycle[c].todo /\ NextChunk(c) \subseteq Route
    BY <1>0, <1>4, PostedTasks DEF PostChunk, CycleRecord
  <2>2. ASSUME NEW r \in DOMAIN cycle[c].carry \ cycle[c].todo PROVE Finished(c, r)'
    <3>1. Finished(c, r) /\ r \notin NextChunk(c)
      BY <2>1 DEF CycleAwaits, Awaited
    <3> QED  BY <1>0, <3>1, FinishedStays
  <2>3. ASSUME NEW r \in NextChunk(c) PROVE task'[c][r].pc # "none"
    BY <1>0, <1>4, <2>1, PostedTasks DEF Fresh
  <2> QED  BY <1>0, <2>1, <2>2, <2>3 DEF CycleAwaits, Awaited, Stage
<1>5. ASSUME ChunkAnswered(c) PROVE CycleAwaits(c)'
  <2>1. /\ cycle[c].pc = "wait" /\ cycle'[c].chunk = {} /\ cycle'[c].todo = cycle[c].todo
        /\ cycle'[c].carry = cycle[c].carry /\ task' = task
        /\ cycle'[c].pc = IF cycle[c].todo = {} THEN "warehouses" ELSE "post"
    BY <1>0, <1>5 DEF ChunkAnswered, CycleRecord
  <2>2. \A r \in cycle[c].chunk : Finished(c, r)
    <3>1. \A r \in cycle[c].chunk : task[c][r].pc \in {"none", "done", "error"}
      BY <1>5 DEF ChunkAnswered, TaskRuns
    <3> QED  BY <2>1, <3>1 DEF CycleAwaits, Finished
  <2>3. \A r \in DOMAIN cycle[c].carry \ cycle[c].todo : Finished(c, r)'
    BY <2>1, <2>2 DEF CycleAwaits, Awaited, Finished
  <2> QED  BY <1>0, <2>1, <2>3 DEF CycleAwaits, Awaited, Stage
<1>6. ASSUME cycle[c].pc \in {"warehouses", "ask"} \cup Warehouse,
             cycle'[c].pc \in {"ask", "ended"} \cup Warehouse,
             cycle'[c].carry = cycle[c].carry, cycle'[c].todo = cycle[c].todo,
             cycle'[c].chunk = cycle[c].chunk
      PROVE  CycleAwaits(c)'
  <2>1. ~PostChunk(c)
    BY <1>0, <1>6 DEF PostChunk, Stage
  <2>2. \A r \in Route : Finished(c, r) => Finished(c, r)'
    BY <2>1, FinishedStays
  <2>3. Awaited(c) = {} /\ Awaited(c)' = {}
    BY <1>6 DEF CycleAwaits, Awaited
  <2>4. \A r \in DOMAIN cycle[c].carry : Finished(c, r)'
    BY <1>0, <1>6, <2>2, <2>3 DEF CycleAwaits
  <2> QED  BY <1>0, <1>6, <2>3, <2>4 DEF CycleAwaits, Stage
<1>7. ASSUME CycleStep(c) \/ ChunkFails(c) \/ DispatchFails(c) PROVE CycleAwaits(c)'
  <2>1. CASE ReadWarehouses(c) \/ EndCycle(c) \/ DispatchFails(c)
    <3>1. ASSUME ReadWarehouses(c) PROVE CycleAwaits(c)'
      BY <1>0, <1>6, <3>1 DEF ReadWarehouses, CycleRecord
    <3>2. ASSUME EndCycle(c) PROVE CycleAwaits(c)'
      BY <1>0, <1>6, <3>2 DEF EndCycle, CycleRecord
    <3>3. ASSUME DispatchFails(c) PROVE CycleAwaits(c)'
      BY <1>0, <1>6, <3>3 DEF DispatchFails, CycleRecord
    <3> QED  BY <2>1, <3>1, <3>2, <3>3
  <2>2. ASSUME NEW w \in Warehouse, AskDispatcher(c, w) PROVE CycleAwaits(c)'
    BY <1>0, <1>6, <2>2 DEF AskDispatcher, CycleRecord
  <2>3. ASSUME NEW w \in Warehouse, SaveOrders(c, w) PROVE CycleAwaits(c)'
    BY <1>0, <1>6, <2>3 DEF SaveOrders, CycleRecord
  <2>4. ASSUME ChunkFails(c) PROVE CycleAwaits(c)'
    <3>1. cycle'[c].pc = "ended"
      BY <1>0, <2>4 DEF ChunkFails, CycleRecord
    <3> QED  BY <1>0, <3>1 DEF CycleAwaits, Stage
  <2> QED  BY <1>3, <1>4, <1>5, <1>7, <2>1, <2>2, <2>3, <2>4 DEF CycleStep
<1>8. ASSUME NEW d \in Cycle, CycleStep(d) \/ ChunkFails(d) \/ DispatchFails(d)
      PROVE  CycleAwaits(c)'
  BY <1>1, <1>7, <1>8, CycleFrame
<1> QED  BY <1>1, <1>2, <1>8, Writers DEF BeginsSome, CycleMoves

LEMMA FollowStep ==
    ASSUME TypeInv, FollowInv, [Next]_vars
    PROVE  FollowInv'
<1>0. /\ CyclesInOrder /\ OrdersPlaced /\ OrdersFollowPredictions
      /\ \A c \in Cycle : CycleAwaits(c)
      /\ cycle \in [Cycle -> CycleRecord]
      /\ orders \in [Warehouse -> [Time -> OrderRow \cup {None}]]
      /\ \A c \in Cycle : DOMAIN cycle[c].carry \subseteq Route
  BY DEF FollowInv, TypeInv, TypeOK, CycleRecord
<1>1. CyclesInOrder'
  <2>1. ASSUME \A c \in Cycle : cycle'[c].pc = "none" <=> cycle[c].pc = "none"
        PROVE  CyclesInOrder'
    BY <1>0, <2>1 DEF CyclesInOrder
  <2>2. ASSUME NEW c \in Cycle, NEW anchor, Begin(c, anchor) PROVE CyclesInOrder'
    <3>1. \A d \in Cycle : d < c => cycle[d].pc # "none"
      BY <1>0, <2>2, BeginsNext DEF Begin
    <3>2. cycle'[c].pc # "none" /\ \A d \in Cycle : d # c => cycle'[d] = cycle[d]
      BY <1>0, <2>2 DEF Begin, NoCycle
    <3>3. \A d \in Cycle : d \in Int
      BY DEF Cycle
    <3> QED  BY <1>0, <3>1, <3>2, <3>3 DEF CyclesInOrder
  <2>3. ASSUME NEW c \in Cycle, CycleStep(c) \/ ChunkFails(c) \/ DispatchFails(c)
        PROVE  CyclesInOrder'
    BY <2>1, <2>3, CycleFrame DEF CycleRuns
  <2> QED  BY <2>1, <2>2, <2>3, Writers DEF BeginsSome, CycleMoves
<1>2. \A c \in Cycle : CycleAwaits(c)'
  BY <1>0, CycleAwaitsStep
<1> DEFINE Placed(c) == Dispatches(c) /\ \A r \in DOMAIN cycle[c].carry : Finished(c, r)
<1>6. ASSUME NEW c \in Cycle, Placed(c) PROVE Placed(c)'
  <2>1. Dispatches(c)' /\ cycle'[c].carry = cycle[c].carry /\ ~PostChunk(c)
    BY <1>0, <1>6, DispatchesStay
  <2>2. \A r \in DOMAIN cycle[c].carry : Finished(c, r)'
    BY <1>0, <1>6, <2>1, FinishedStays
  <2> QED  BY <2>1, <2>2
<1>7. ASSUME NEW w \in Warehouse, NEW s \in Time, orders[w][s] # None
      PROVE  orders[w][s] \in OrderRow /\ orders[w][s].by \in Cycle /\ Placed(orders[w][s].by)
  <2>1. orders[w][s] \in OrderRow /\ orders[w][s].by \in Cycle
    BY <1>0, <1>7 DEF OrderRow
  <2> QED  BY <1>0, <1>7, <2>1 DEF OrdersPlaced, OrdersFollowPredictions, Dispatches, Finished
<1>8. ASSUME NEW c \in Cycle, NEW w \in Warehouse, SaveOrders(c, w)
      PROVE  Placed(c)'
  <2>1. /\ cycle[c].pc = w /\ cycle'[c].pc = "ask" /\ cycle'[c].carry = cycle[c].carry
        /\ task' = task
    BY <1>0, <1>8 DEF SaveOrders, CycleRecord
  <2>2. \A r \in DOMAIN cycle[c].carry : Finished(c, r)
    BY <1>0, <2>1 DEF CycleAwaits
  <2> QED  BY <2>1, <2>2 DEF Dispatches, Finished
<1> HIDE DEF Placed
<1>3. ASSUME NEW w \in Warehouse, NEW s \in Time, orders'[w][s] # None
      PROVE  \E c \in Cycle : orders'[w][s].by = c /\ Placed(c)'
  <2>4. CASE orders'[w][s] = orders[w][s]
    BY <1>3, <1>6, <1>7, <2>4
  <2>5. CASE /\ Mature(w, s)
             /\ orders'[w][s] = [orders[w][s] EXCEPT !.actual = SlotLabels(history, w, s)]
    <3>1. orders[w][s] # None
      BY <2>5 DEF Mature
    <3>2. orders'[w][s].by = orders[w][s].by
      BY <1>7, <2>5, <3>1 DEF OrderRow
    <3> QED  BY <1>6, <1>7, <3>1, <3>2
  <2>6. ASSUME NEW c \in Cycle, SaveOrders(c, w), orders'[w][s] = Upserted(orders[w][s], c)
        PROVE  orders'[w][s].by = c /\ Placed(c)'
    BY <1>8, <2>6 DEF Upserted
  <2> QED  BY <1>3, <2>4, <2>5, <2>6, OrderOrigin
<1>4. OrdersPlaced'
  BY <1>3 DEF OrdersPlaced, Placed, Dispatches
<1>5. OrdersFollowPredictions'
  BY <1>3 DEF OrdersFollowPredictions, Placed, Finished
<1> QED  BY <1>1, <1>2, <1>4, <1>5 DEF FollowInv

\* No order is placed by a cycle that still waits for a prediction of its own,
\* or has given up one of its chunks (run_prediction_cycle, raise_for_status).
THEOREM OrdersWait == Spec => []OrdersFollowPredictions
<1>1. Init => FollowInv
  <2> SUFFICES ASSUME Init PROVE FollowInv
    OBVIOUS
  <2>1. \A w \in Warehouse, s \in Time : orders[w][s] = None
    BY DEF Init
  <2>2. \A c \in Cycle : cycle[c].pc = "none"
    BY DEF Init, NoCycle
  <2>3. ASSUME NEW c \in Cycle PROVE CycleAwaits(c)
    BY <2>2, OperationsAssumption DEF CycleAwaits, Stage
  <2> QED  BY <2>1, <2>2, <2>3 DEF FollowInv, OrdersFollowPredictions, OrdersPlaced, CyclesInOrder
<1>2. TypeInv /\ FollowInv /\ [Next]_vars => FollowInv'
  BY FollowStep
<1>3. FollowInv => OrdersFollowPredictions
  BY DEF FollowInv
<1> QED  BY <1>1, <1>2, <1>3, TypeInit, TypeStep, PTL DEF Spec

-----------------------------------------------------------------------------
(* Orders and time *)

\* A running cycle began in this step or the last one, and dispatches nothing
\* before its anchor.
CycleOnTime(c) ==
    /\ CycleRuns(c) => /\ cycle[c].started <= now /\ now <= cycle[c].started + 1
                       /\ cycle[c].anchor <= cycle[c].started
    /\ cycle[c].pc \in Warehouse => \A s \in cycle[c].want : cycle[c].anchor <= s

\* Only slots that are two hours old have their actuals.
ActualsMature ==
    \A w \in Warehouse, s \in Time :
        (orders[w][s] # None /\ orders[w][s].actual # None) => s + Lag <= now

TimeInv == ActualsMature /\ \A c \in Cycle : CycleOnTime(c)

LEMMA CycleOnTimeStep ==
    ASSUME TypeInv, [Next]_vars, NEW c \in Cycle, CycleOnTime(c)
    PROVE  CycleOnTime(c)'
<1>0. /\ cycle[c] \in CycleRecord /\ cycle \in [Cycle -> CycleRecord]
      /\ now \in Nat /\ cycle[c].started \in Nat /\ cycle[c].anchor \in Nat
      /\ Stage \cap Warehouse = {}
  BY StatusHistoryAssumption, OperationsAssumption DEF TypeInv, TypeOK, CycleRecord, Time
<1>1. ASSUME cycle'[c] = cycle[c] PROVE CycleOnTime(c)'
  <2>1. CASE now' = now
    BY <1>1, <2>1 DEF CycleOnTime, CycleRuns
  <2>2. CASE Tick
    <3>1. now' = now + 1 /\ (CycleRuns(c) => cycle[c].started = now)
      BY <2>2 DEF Tick
    <3> QED  BY <1>0, <1>1, <3>1 DEF CycleOnTime, CycleRuns
  <2> QED  BY <2>1, <2>2, Writers
<1>2. CASE BeginsSome
  <2>1. PICK d \in Cycle, anchor \in Time : Begin(d, anchor) /\ anchor <= now
    BY <1>2 DEF BeginsSome
  <2>2. CASE d # c
    <3>1. cycle'[c] = cycle[c]
      BY <1>0, <2>1, <2>2 DEF Begin
    <3> QED  BY <1>1, <3>1
  <2>3. CASE d = c
    <3>1. /\ cycle'[c].pc \in {"ended", "statuses"}
          /\ cycle'[c].started = now /\ cycle'[c].anchor = anchor
      BY <1>0, <2>1, <2>3 DEF Begin, NoCycle
    <3>2. now' = now
      BY <1>2, BeginsFrame
    <3> QED  BY <1>0, <2>1, <3>1, <3>2 DEF CycleOnTime, Stage
  <2> QED  BY <2>2, <2>3
<1>3. ASSUME CycleMoves, CycleStep(c) \/ ChunkFails(c) \/ DispatchFails(c)
      PROVE  CycleOnTime(c)'
  <2>1. /\ cycle'[c].started = cycle[c].started /\ cycle'[c].anchor = cycle[c].anchor
        /\ CycleRuns(c) /\ now' = now
    BY <1>3, CycleFrame, CycleMovesFrame
  <2>2. ASSUME cycle'[c].pc \notin Warehouse PROVE CycleOnTime(c)'
    BY <2>1, <2>2 DEF CycleOnTime
  <2>3. ASSUME NEW w \in Warehouse, AskDispatcher(c, w) PROVE CycleOnTime(c)'
    <3>1. cycle'[c].want = Wanted(w, cycle[c].anchor)
      BY <1>0, <2>3 DEF AskDispatcher, CycleRecord
    <3>2. \A s \in cycle'[c].want : cycle[c].anchor <= s
      BY <3>1 DEF Wanted
    <3> QED  BY <2>1, <3>2 DEF CycleOnTime
  <2>4. ASSUME NEW w \in Warehouse, SaveOrders(c, w) PROVE CycleOnTime(c)'
    BY <1>0, <2>2, <2>4 DEF SaveOrders, CycleRecord, Stage
  <2>5. ASSUME FetchStatuses(c) PROVE CycleOnTime(c)'
    BY <1>0, <2>2, <2>5 DEF FetchStatuses, CycleRecord, Stage
  <2>6. ASSUME PostChunk(c) PROVE CycleOnTime(c)'
    BY <1>0, <2>2, <2>6 DEF PostChunk, CycleRecord, Stage
  <2>7. ASSUME ChunkAnswered(c) PROVE CycleOnTime(c)'
    BY <1>0, <2>2, <2>7 DEF ChunkAnswered, CycleRecord, Stage
  <2>8. ASSUME ReadWarehouses(c) PROVE CycleOnTime(c)'
    BY <1>0, <2>2, <2>8 DEF ReadWarehouses, CycleRecord, Stage
  <2>9. ASSUME EndCycle(c) \/ ChunkFails(c) \/ DispatchFails(c) PROVE CycleOnTime(c)'
    BY <1>0, <2>2, <2>9 DEF EndCycle, ChunkFails, DispatchFails, CycleRecord, Stage
  <2> QED  BY <1>3, <2>3, <2>4, <2>5, <2>6, <2>7, <2>8, <2>9 DEF CycleStep
<1>4. CASE CycleMoves
  BY <1>1, <1>3, <1>4, CycleFrame DEF CycleMoves
<1> QED  BY <1>1, <1>2, <1>4, Writers

LEMMA TimeStep ==
    ASSUME TypeInv, TimeInv, [Next]_vars
    PROVE  TimeInv'
<1>1. \A c \in Cycle : CycleOnTime(c)'
  BY CycleOnTimeStep DEF TimeInv
<1>2. ASSUME NEW w \in Warehouse, NEW s \in Time, orders'[w][s] # None,
             orders'[w][s].actual # None
      PROVE  s + Lag <= now'
  <2>0. /\ now \in Nat /\ s \in Nat /\ Lag \in Nat
        /\ orders[w][s] \in OrderRow \cup {None} /\ ActualsMature
    BY StatusHistoryAssumption DEF TypeInv, TypeOK, TimeInv, Time
  <2>1. now' = now \/ now' = now + 1
    BY Writers DEF Tick
  <2>2. s + Lag <= now
    <3>1. CASE orders'[w][s] = orders[w][s]
      BY <1>2, <2>0, <3>1 DEF ActualsMature
    <3>2. ASSUME NEW c, orders'[w][s] = Upserted(orders[w][s], c) PROVE s + Lag <= now
      BY <1>2, <2>0, <3>2 DEF ActualsMature, Upserted
    <3> QED  BY <1>2, <3>1, <3>2, OrderOrigin DEF Mature
  <2> QED  BY <2>0, <2>1, <2>2
<1> QED  BY <1>1, <1>2 DEF TimeInv, ActualsMature

LEMMA TimeInit == Init => TimeInv
<1> SUFFICES ASSUME Init PROVE TimeInv
  OBVIOUS
<1>1. \A w \in Warehouse, s \in Time : orders[w][s] = None
  BY DEF Init
<1>2. \A c \in Cycle : cycle[c].pc = "none"
  BY DEF Init, NoCycle
<1> QED  BY <1>1, <1>2, OperationsAssumption DEF TimeInv, ActualsMature, CycleOnTime, CycleRuns, Stage

\* Once an order has its actuals only a replay of a past cycle plans it anew,
\* and leaves them, if labels are at least two steps older than what they are
\* made of (4 with steps of half an hour): with one step a cycle that is not
\* over when the next step begins could do so too.
THEOREM CompletedOrdersStand ==
    ASSUME Lag > 1
    PROVE  Spec => CompletedStands
<1>1. ASSUME TypeInv, TimeInv, [Next]_vars, NEW w \in Warehouse, NEW s \in Time,
             orders[w][s] # None, orders[w][s].actual # None,
             orders'[w][s] # None, orders'[w][s] # orders[w][s]
      PROVE  /\ cycle[orders'[w][s].by].anchor < cycle[orders'[w][s].by].started
             /\ orders'[w][s].actual = orders[w][s].actual
  <2>1. ~Mature(w, s)
    BY <1>1 DEF Mature
  <2>2. PICK c \in Cycle : /\ SaveOrders(c, w) /\ s \in cycle[c].want
                           /\ orders'[w][s] = Upserted(orders[w][s], c)
    BY <1>1, <2>1, OrderOrigin
  <2>3. cycle[c].pc = w /\ CycleRuns(c)
    BY <2>2, OperationsAssumption DEF SaveOrders, CycleRuns, Stage
  <2>4. cycle[c].anchor <= s /\ now <= cycle[c].started + 1 /\ s + Lag <= now
    BY <1>1, <2>2, <2>3 DEF TimeInv, CycleOnTime, ActualsMature
  <2>5. /\ cycle[c].anchor \in Nat /\ cycle[c].started \in Nat /\ now \in Nat /\ s \in Nat
        /\ Lag \in Nat
    BY <1>1, StatusHistoryAssumption DEF TypeInv, TypeOK, CycleRecord, Time
  <2>6. cycle[c].anchor < cycle[c].started
    BY <2>4, <2>5
  <2>7. orders'[w][s].by = c /\ orders'[w][s].actual = orders[w][s].actual
    BY <1>1, <2>2 DEF Upserted
  <2> QED  BY <2>6, <2>7
<1> DEFINE Stands == \A w \in Warehouse, s \in Time :
               (/\ orders[w][s] # None /\ orders[w][s].actual # None
                /\ orders'[w][s] # None /\ orders'[w][s] # orders[w][s])
               => /\ cycle[orders'[w][s].by].anchor < cycle[orders'[w][s].by].started
                  /\ orders'[w][s].actual = orders[w][s].actual
<1>2. TypeInv /\ TimeInv /\ [Next]_vars => [Stands]_vars
  BY <1>1
<1>3. TypeInv /\ TimeInv /\ [Next]_vars => TypeInv' /\ TimeInv'
  BY TypeStep, TimeStep
<1> QED  BY <1>2, <1>3, TypeInit, TimeInit, PTL DEF Spec, CompletedStands

-----------------------------------------------------------------------------
(* Uploads *)

\* The snapshot of an upload has been committed.
Committed == upload.pc \in {"train", "promote", "trigger", "wait", "done"}

\* While nothing else has been in progress, the open transaction deletes all
\* that is in the tables, and inserts all that is retained.
Alone ==
    (Replacing /\ ~mixed) =>
        /\ ~InProgress
        /\ forecasts \subseteq upload.forecasts
        /\ OrderKeys \subseteq upload.orders
        /\ RowsOf(history) \subseteq upload.rows
        /\ upload.pc = "rebuild" => upload.fresh = Retained

\* A retained row has its place in the snapshot already, or will have it.
InPlace(k) ==
    \/ k \in upload.fresh
    \/ k \notin upload.rows /\ history[k[1]][k[2]] # None

KeptInv ==
    /\ RetainedRowsKept
    /\ upload.pc = "rebuild" => \A k \in Retained : InPlace(k)

\* The transaction takes effect when it commits.
Refreshed ==
    /\ CommitSnapshot
    /\ history' = Seen(upload.fresh)
    /\ routes' = RebuiltRoutes(Seen(upload.fresh))
    /\ forecasts' = forecasts \ upload.forecasts
    /\ orders' = [w \in Warehouse |-> [s \in Time |->
                     IF <<w, s>> \in upload.orders THEN None ELSE orders[w][s]]]

\* How an upload moves.
LEMMA UploadMoves ==
    ASSUME TypeInv, [Next]_vars
    PROVE  \/ upload' = upload
           \/ ClearSnapshot
           \/ FillSnapshot
           \/ Refreshed /\ Committed'
           \/ Replacing /\ upload'.pc = "failed"
           \/ Committed /\ Committed'
<1>0. upload \in UploadRecord
  BY DEF TypeInv, TypeOK
<1> DEFINE Goal == \/ upload' = upload
                   \/ ClearSnapshot
                   \/ FillSnapshot
                   \/ Refreshed /\ Committed'
                   \/ Replacing /\ upload'.pc = "failed"
                   \/ Committed /\ Committed'
<1>1. CASE CommitSnapshot
  <2>1. CASE WarehousesOf(Seen(upload.fresh)) \subseteq upload.warehouses
    <3>1. Refreshed /\ upload' = [NoUpload EXCEPT !.pc = "train"]
      BY <1>1, <2>1 DEF CommitSnapshot, Refreshed
    <3>2. Committed'
      BY <3>1 DEF NoUpload, Committed
    <3> QED  BY <3>1, <3>2
  <2>2. CASE ~(WarehousesOf(Seen(upload.fresh)) \subseteq upload.warehouses)
    <3>1. upload.pc = "rebuild" /\ upload' = [NoUpload EXCEPT !.pc = "failed"]
      BY <1>1, <2>2 DEF CommitSnapshot
    <3> QED  BY <3>1 DEF NoUpload, Replacing
  <2> QED  BY <2>1, <2>2
<1>2. CASE AbortSnapshot
  BY <1>2 DEF AbortSnapshot, NoUpload, Replacing
<1>3. CASE SomeTrained
  BY <1>0, <1>3 DEF SomeTrained, TrainOnSnapshot, UploadedUnread, Committed, UploadRecord
<1>4. CASE PromoteUploaded \/ PromotionRefused
  BY <1>0, <1>4 DEF PromoteUploaded, PromotionRefused, Committed, UploadRecord
<1>5. CASE UploadDone
  BY <1>0, <1>5 DEF UploadDone, Committed, UploadRecord
<1>6. CASE BeginsSome
  <2>1. ASSUME NEW c \in Cycle, TriggerCycle(c) PROVE Committed /\ Committed'
    BY <1>0, <2>1 DEF TriggerCycle, Committed, UploadRecord
  <2> QED  BY <1>6, <2>1, BeginsFrame
<1>7. CASE \/ Tick \/ CycleMoves \/ SomeObserved \/ TaskMoves \/ BackfillTargets \/ BackfillActuals
           \/ BackfillFails \/ SomeLoaded \/ PromoteChallenger \/ UNCHANGED vars
  <2>1. upload' = upload
    BY <1>7, CycleMovesFrame, TaskMovesFrame DEF Tick, SomeObserved, PostObservation,
         BackfillTargets, BackfillActuals, BackfillFails, SomeLoaded, LoadChallenger,
         ChallengerUnread, PromoteChallenger, vars, Actors
  <2> QED  BY <2>1
<1> QED  BY <1>1, <1>2, <1>3, <1>4, <1>5, <1>6, <1>7, StepKinds

\* Only a commit takes a row out of the table, or changes a label that is there.
LEMMA RowsStay ==
    ASSUME TypeInv, [Next]_vars, NEW r \in Route, NEW t \in Time, history[r][t] # None
    PROVE  \/ /\ history'[r][t] # None
              /\ history[r][t].label # None => history'[r][t].label = history[r][t].label
           \/ Refreshed
<1>0. history \in History /\ history[r][t] \in Row
  BY DEF TypeInv, TypeOK, History
<1> DEFINE Goal == /\ history'[r][t] # None
                   /\ history[r][t].label # None => history'[r][t].label = history[r][t].label
<1>1. ASSUME history' = history PROVE Goal
  BY <1>1
<1>2. ASSUME NEW k \in Caller, NEW q \in Route, AppendObservation(k, q) PROVE Goal
  <2>1. history' = Appended(history, q, task[k][q].anchor, task[k][q].seen)
        /\ task[k][q].anchor \in Time /\ task[k][q].seen \in Time
    BY <1>2 DEF AppendObservation, TypeInv, TypeOK, TaskRecord
  <2>2. CASE q = r /\ t = task[k][q].anchor
    <3>1. history'[r][t] = [seen |-> task[k][q].seen, label |-> history[r][t].label]
      BY <1>0, <2>1, <2>2 DEF Appended, History
    <3>2. history'[r][t] \in Row
      BY <1>0, <2>1, <3>1 DEF Row
    <3> QED  BY <3>1, <3>2, NoneAssumption
  <2>3. CASE ~(q = r /\ t = task[k][q].anchor)
    <3>1. history'[r][t] = history[r][t]
      BY <1>0, <2>1, <2>3 DEF Appended, History
    <3> QED  BY <3>1
  <2> QED  BY <2>2, <2>3
<1>3. ASSUME BackfillTargets PROVE Goal
  <2>1. history' = BackfillLabels(history, now) /\ now \in Time
    BY <1>3 DEF BackfillTargets, TypeInv, TypeOK
  <2>2. history'[r][t] \in Row \cup {None}
    BY <1>0, <2>1, BackfilledHistory DEF History
  <2>3. CASE Labelled(history, r, t, now)
    <3>1. history'[r][t] = [history[r][t] EXCEPT !.label = history[r][t + Lag].seen]
      BY <2>1, <2>3 DEF BackfillLabels
    <3>2. history[r][t].label = None /\ history[r][t + Lag] \in Row
      BY <1>0, <2>3 DEF Labelled, History
    <3>3. history'[r][t] \in Row
      BY <1>0, <3>1, <3>2 DEF Row
    <3> QED  BY <3>2, <3>3, NoneAssumption
  <2>4. CASE ~Labelled(history, r, t, now)
    BY <2>1, <2>4 DEF BackfillLabels
  <2> QED  BY <2>3, <2>4
<1>4. ASSUME CommitSnapshot PROVE history' = history \/ Refreshed
  BY <1>4 DEF CommitSnapshot, Refreshed, Tables
<1> QED  BY <1>1, <1>2, <1>3, <1>4, Writers DEF SomeAppended

LEMMA KeptStep ==
    ASSUME TypeInv, KeptInv, [Next]_vars
    PROVE  KeptInv'
<1>0. Retained \in SUBSET (Route \X Time) /\ upload \in UploadRecord
  BY RetainedTyped DEF TypeInv, TypeOK
<1>1. ASSUME ~Refreshed, NEW k \in Retained, history[k[1]][k[2]] # None
      PROVE  history'[k[1]][k[2]] # None
  BY <1>0, <1>1, RowsStay
<1>2. RetainedRowsKept'
  <2> SUFFICES ASSUME Committed', NEW k \in Retained PROVE history'[k[1]][k[2]] # None
    BY DEF RetainedRowsKept, Committed
  <2>1. CASE Refreshed
    <3>1. upload.pc = "rebuild" /\ history' = Seen(upload.fresh) /\ InPlace(k)
      BY <2>1 DEF Refreshed, CommitSnapshot, KeptInv
    <3>2. k[1] \in Route /\ k[2] \in Time /\ k = <<k[1], k[2]>>
      BY <1>0
    <3>3. Uploaded[k[1]][k[2]] # None
      BY DEF Retained, RowsOf
    <3>4. history'[k[1]][k[2]] = IF k \in upload.fresh THEN Uploaded[k[1]][k[2]]
                                ELSE IF k \in upload.rows THEN None ELSE history[k[1]][k[2]]
      BY <3>1, <3>2 DEF Seen
    <3> QED  BY <3>1, <3>3, <3>4 DEF InPlace
  <2>2. CASE ~Refreshed
    <3>1. Committed
      BY <1>0, <2>2, UploadMoves DEF ClearSnapshot, FillSnapshot, Committed, UploadRecord
    <3>2. history[k[1]][k[2]] # None
      BY <3>1 DEF KeptInv, RetainedRowsKept, Committed
    <3> QED  BY <1>1, <2>2, <3>2
  <2> QED  BY <2>1, <2>2
<1>3. ASSUME upload'.pc = "rebuild", NEW k \in Retained PROVE InPlace(k)'
  <2>1. CASE FillSnapshot
    <3>1. /\ upload'.fresh = Inserted /\ upload'.rows = upload.rows /\ history' = history
      BY <1>0, <2>1 DEF FillSnapshot, UploadRecord, Tables
    <3> QED  BY <3>1 DEF InPlace, Inserted
  <2>2. CASE upload' = upload
    <3>1. InPlace(k)
      BY <1>3, <2>2 DEF KeptInv
    <3>2. ~Refreshed
      <4> SUFFICES ASSUME Refreshed PROVE FALSE
        OBVIOUS
      <4>1. upload'.pc \in {"train", "failed"}
        BY DEF Refreshed, CommitSnapshot, NoUpload
      <4> QED  BY <1>3, <4>1
    <3> QED  BY <1>1, <2>2, <3>1, <3>2 DEF InPlace
  <2>3. ~ClearSnapshot
    BY <1>0, <1>3 DEF ClearSnapshot, UploadRecord
  <2> QED  BY <1>3, <2>1, <2>2, <2>3, UploadMoves DEF Committed
<1> QED  BY <1>2, <1>3 DEF KeptInv

\* Whatever was going on when an upload replaced the snapshot, and whatever has
\* happened since: the rows of the dataset that are retained are in the table
\* (refresh_snapshot, ON CONFLICT DO NOTHING).
THEOREM UploadKeepsRows == Spec => []RetainedRowsKept
<1>1. Init => KeptInv
  BY DEF Init, NoUpload, KeptInv, RetainedRowsKept
<1>2. TypeInv /\ KeptInv /\ [Next]_vars => KeptInv'
  BY KeptStep
<1>3. KeptInv => RetainedRowsKept
  BY DEF KeptInv
<1> QED  BY <1>1, <1>2, <1>3, TypeInit, TypeStep, PTL DEF Spec

-----------------------------------------------------------------------------
(* An upload that is alone *)

\* Nothing begins or moves while the snapshot is replaced without being mixed.
LEMMA AloneStep ==
    ASSUME TypeInv, Alone, [Next]_vars
    PROVE  Alone'
<1>0. /\ upload \in UploadRecord /\ history \in History /\ now \in Time /\ mixed \in BOOLEAN
      /\ orders \in [Warehouse -> [Time -> OrderRow \cup {None}]]
  BY DEF TypeInv, TypeOK
<1> SUFFICES ASSUME Replacing', ~mixed'
             PROVE  /\ ~InProgress'
                    /\ forecasts' \subseteq upload'.forecasts
                    /\ OrderKeys' \subseteq upload'.orders
                    /\ RowsOf(history') \subseteq upload'.rows
                    /\ upload'.pc = "rebuild" => upload'.fresh = Retained
  BY DEF Alone
<1>1. CASE ClearSnapshot
  <2>1. /\ UNCHANGED Tables /\ cycle' = cycle /\ task' = task
        /\ upload'.forecasts = forecasts /\ upload'.orders = OrderKeys
        /\ upload'.rows = RowsOf(history) /\ upload'.pc = "fill"
        /\ ~InProgress
    BY <1>0, <1>1 DEF ClearSnapshot, UploadRecord
  <2> QED  BY <2>1 DEF Tables, InProgress, CycleRuns, TaskRuns, OrderKeys
<1>2. CASE ~ClearSnapshot
  <2>1. Replacing /\ ~mixed /\ (upload' = upload \/ FillSnapshot)
    BY <1>0, <1>2, UploadMoves, Writers DEF Replacing, Committed, FillSnapshot
  <2>2. /\ ~InProgress /\ forecasts \subseteq upload.forecasts /\ OrderKeys \subseteq upload.orders
        /\ RowsOf(history) \subseteq upload.rows
        /\ upload.pc = "rebuild" => upload.fresh = Retained
    BY <2>1 DEF Alone
  <2>3. ~BeginsSome /\ ~SomeObserved
    BY <2>1, BeginsFrame DEF SomeObserved, PostObservation
  <2>4. ~CycleMoves /\ ~TaskMoves
    BY <2>2, CycleFrame, TaskFrame DEF CycleMoves, TaskMoves, InProgress
  <2>5. ~SomePosted /\ ~SomeOrdered /\ ~SomeAppended /\ ~SomeSaved
    BY <2>4 DEF SomePosted, SomeOrdered, SomeAppended, SomeSaved, CycleMoves, CycleStep,
         TaskMoves, TaskStep
  <2>6. ~CommitSnapshot
    BY <1>0, <2>1 DEF CommitSnapshot, FillSnapshot, Replacing, NoUpload
  <2>7. cycle' = cycle /\ task' = task /\ forecasts' = forecasts
    BY <2>3, <2>4, <2>5, <2>6, Writers
  <2>8. ~InProgress'
    BY <2>2, <2>7 DEF InProgress, CycleRuns, TaskRuns
  <2>9. RowsOf(history') \subseteq RowsOf(history)
    <3>1. CASE BackfillTargets
      BY <1>0, <3>1 DEF BackfillTargets, BackfillLabels, Labelled, RowsOf
    <3>2. CASE history' = history
      BY <3>2
    <3> QED  BY <2>5, <2>6, <3>1, <3>2, Writers
  <2>10. OrderKeys' \subseteq OrderKeys
    <3>1. CASE BackfillActuals
      BY <1>0, <3>1 DEF BackfillActuals, Mature, OrderKeys
    <3>2. CASE orders' = orders
      BY <3>2 DEF OrderKeys
    <3> QED  BY <2>5, <2>6, <3>1, <3>2, Writers
  <2>11. CASE upload' = upload
    BY <2>2, <2>7, <2>8, <2>9, <2>10, <2>11
  <2>12. CASE FillSnapshot
    <3>1. /\ upload'.fresh = Inserted /\ upload'.rows = upload.rows
          /\ upload'.forecasts = upload.forecasts /\ upload'.orders = upload.orders
      BY <1>0, <2>12 DEF FillSnapshot, UploadRecord
    <3>2. Inserted = Retained
      <4>1. ASSUME NEW k \in Retained, history[k[1]][k[2]] # None PROVE k \in upload.rows
        BY <2>2, <4>1, RetainedTyped DEF RowsOf
      <4> QED  BY <4>1 DEF Inserted
    <3> QED  BY <2>2, <2>7, <2>8, <2>9, <2>10, <3>1, <3>2
  <2> QED  BY <2>1, <2>11, <2>12
<1> QED  BY <1>1, <1>2

\* Then the commit leaves no order and no forecast, and the retained rows.
LEMMA RefreshedAlone ==
    ASSUME TypeInv, Alone, Refreshed, ~mixed
    PROVE  /\ ~InProgress
           /\ forecasts' = {}
           /\ \A w \in Warehouse, s \in Time : orders'[w][s] = None
           /\ RowsOf(history') = Retained
           /\ routes' = {k[1] : k \in Retained}
<1>1. /\ ~InProgress /\ forecasts \subseteq upload.forecasts /\ OrderKeys \subseteq upload.orders
      /\ RowsOf(history) \subseteq upload.rows /\ upload.fresh = Retained
  BY DEF Refreshed, CommitSnapshot, Replacing, Alone
<1>2. forecasts' = {}
  BY <1>1 DEF Refreshed
<1>3. ASSUME NEW w \in Warehouse, NEW s \in Time PROVE orders'[w][s] = None
  <2>1. orders[w][s] # None => <<w, s>> \in upload.orders
    BY <1>1 DEF OrderKeys
  <2> QED  BY <2>1 DEF Refreshed
<1>4. ASSUME NEW r \in Route, NEW t \in Time
      PROVE  history'[r][t] # None <=> <<r, t>> \in Retained
  <2>1. history'[r][t] = IF <<r, t>> \in Retained THEN Uploaded[r][t]
                         ELSE IF <<r, t>> \in upload.rows THEN None ELSE history[r][t]
    BY <1>1 DEF Refreshed, Seen
  <2>2. <<r, t>> \in Retained => Uploaded[r][t] # None
    BY DEF Retained, RowsOf
  <2>3. history[r][t] # None => <<r, t>> \in upload.rows
    BY <1>1 DEF RowsOf
  <2> QED  BY <2>1, <2>2, <2>3
<1>5. RowsOf(history') = Retained
  <2>1. ASSUME NEW k \in Route \X Time PROVE k \in RowsOf(history') <=> k \in Retained
    <3>1. k[1] \in Route /\ k[2] \in Time /\ k = <<k[1], k[2]>>
      OBVIOUS
    <3> QED  BY <1>4, <3>1 DEF RowsOf
  <2>2. RowsOf(history') \subseteq Route \X Time
    BY DEF RowsOf
  <2> QED  BY <2>1, <2>2, RetainedTyped
<1>6. routes' = {k[1] : k \in Retained}
  <2>1. routes' = {r \in Route : \E t \in Time : history'[r][t] # None}
    BY DEF Refreshed, RebuiltRoutes, Stored
  <2>2. \A r \in Route : (\E t \in Time : history'[r][t] # None) <=> \E k \in Retained : r = k[1]
    <3> TAKE r \in Route
    <3>1. ASSUME NEW t \in Time, history'[r][t] # None PROVE \E k \in Retained : r = k[1]
      BY <1>4, <3>1
    <3>2. ASSUME NEW k \in Retained, r = k[1] PROVE \E t \in Time : history'[r][t] # None
      <4>1. k[2] \in Time /\ k = <<r, k[2]>>
        BY <3>2, RetainedTyped
      <4> QED  BY <1>4, <4>1
    <3> QED  BY <3>1, <3>2
  <2>3. \A k \in Retained : k[1] \in Route
    BY RetainedTyped
  <2> QED  BY <2>1, <2>2, <2>3
<1> QED  BY <1>1, <1>2, <1>3, <1>5, <1>6

-----------------------------------------------------------------------------
(* Orders, their forecasts and their labels *)

\* There is a forecast of the warehouse for the slot.
Explained(w, s) == \E f \in forecasts : Home[f.route] = w /\ s \in Steps(f)

LEMMA ListedExplained ==
    \A w, s : Listed(w, s) # {} <=> Explained(w, s)
BY DEF Listed, Explained

\* Whatever a warehouse is about to be given has a forecast.
WantedListed(c) ==
    (cycle[c].pc \in Warehouse /\ ~mixed) => \A s \in cycle[c].want : Explained(cycle[c].pc, s)

OrderInv ==
    /\ Alone
    /\ \A w \in Warehouse, s \in Time : orders[w][s] # None => mixed \/ Explained(w, s)
    /\ \A c \in Cycle : WantedListed(c)
    /\ ActualsFromLabels

\* Forecasts go away only with an upload.
LEMMA ForecastsStay ==
    ASSUME TypeInv, [Next]_vars, ~Refreshed
    PROVE  forecasts \subseteq forecasts'
<1>1. ASSUME NEW k \in Caller, NEW r \in Route, SaveShadow(k, r) \/ SavePrimary(k, r)
      PROVE  forecasts \subseteq forecasts'
  BY <1>1 DEF SaveShadow, SavePrimary
<1>2. ASSUME CommitSnapshot PROVE forecasts' = forecasts
  BY <1>2 DEF CommitSnapshot, Refreshed, Tables
<1> QED  BY <1>1, <1>2, Writers DEF SomeSaved

LEMMA WantedListedStep ==
    ASSUME TypeInv, Alone, [Next]_vars, NEW c \in Cycle, WantedListed(c)
    PROVE  WantedListed(c)'
<1>0. /\ cycle[c] \in CycleRecord /\ cycle \in [Cycle -> CycleRecord]
      /\ Stage \cap Warehouse = {} /\ mixed \in BOOLEAN
  BY OperationsAssumption DEF TypeInv, TypeOK
<1> SUFFICES ASSUME cycle'[c].pc \in Warehouse, ~mixed', NEW s \in cycle'[c].want
             PROVE  \E f \in forecasts' : Home[f.route] = cycle'[c].pc /\ s \in Steps(f)
  BY DEF WantedListed, Explained, Steps
<1>1. ~mixed
  BY <1>0, Writers
<1>2. CASE cycle'[c] = cycle[c]
  <2>1. \E f \in forecasts : Home[f.route] = cycle[c].pc /\ s \in Steps(f)
    BY <1>1, <1>2 DEF WantedListed, Explained
  <2>2. ~Refreshed
    BY <1>0, <1>1, <1>2, RefreshedAlone DEF InProgress, CycleRuns, Stage
  <2> QED  BY <1>2, <2>1, <2>2, ForecastsStay
<1>3. ASSUME NEW d \in Cycle, NEW anchor, Begin(d, anchor) PROVE cycle'[c] = cycle[c]
  <2>1. d = c => cycle'[c].pc \in {"ended", "statuses"}
    BY <1>0, <1>3 DEF Begin, NoCycle
  <2> QED  BY <1>0, <1>3, <2>1 DEF Begin, Stage
<1>4. ASSUME CycleStep(c) \/ ChunkFails(c) \/ DispatchFails(c)
      PROVE  \E w \in Warehouse : AskDispatcher(c, w)
  <2>1. ~FetchStatuses(c)
    BY <1>0 DEF FetchStatuses, CycleRecord, Stage
  <2>2. ~PostChunk(c)
    <3>1. ASSUME PostChunk(c) PROVE cycle'[c].pc = "wait"
      <4>1. cycle' = [cycle EXCEPT ![c].pc = "wait", ![c].chunk = NextChunk(c),
                                   ![c].todo = @ \ NextChunk(c)]
        BY <3>1 DEF PostChunk
      <4> QED  BY <1>0, <4>1 DEF CycleRecord
    <3> QED  BY <1>0, <3>1 DEF Stage
  <2>3. ~ChunkAnswered(c)
    BY <1>0 DEF ChunkAnswered, CycleRecord, Stage
  <2>4. ~ReadWarehouses(c)
    BY <1>0 DEF ReadWarehouses, CycleRecord, Stage
  <2>5. \A w \in Warehouse : ~SaveOrders(c, w)
    BY <1>0 DEF SaveOrders, CycleRecord, Stage
  <2>6. ~EndCycle(c) /\ ~ChunkFails(c) /\ ~DispatchFails(c)
    BY <1>0 DEF EndCycle, ChunkFails, DispatchFails, CycleRecord, Stage
  <2> QED  BY <1>4, <2>1, <2>2, <2>3, <2>4, <2>5, <2>6 DEF CycleStep
<1>5. ASSUME NEW w \in Warehouse, AskDispatcher(c, w)
      PROVE  \E f \in forecasts' : Home[f.route] = cycle'[c].pc /\ s \in Steps(f)
  <2>1. /\ cycle'[c].want = Wanted(w, cycle[c].anchor) /\ forecasts' = forecasts
        /\ cycle'[c].pc \in {"ask", w}
    BY <1>0, <1>5 DEF AskDispatcher, CycleRecord, Tables
  <2>2. cycle'[c].pc = w
    BY <1>0, <2>1 DEF Stage
  <2> QED  BY <2>1, <2>2 DEF Wanted
<1>6. ASSUME NEW d \in Cycle, CycleStep(d) \/ ChunkFails(d) \/ DispatchFails(d)
      PROVE  \E f \in forecasts' : Home[f.route] = cycle'[c].pc /\ s \in Steps(f)
  BY <1>2, <1>4, <1>5, <1>6, CycleFrame
<1> QED  BY <1>2, <1>3, <1>6, Writers DEF BeginsSome, CycleMoves

LEMMA ExplainedStep ==
    ASSUME TypeInv, OrderInv, [Next]_vars, NEW w \in Warehouse, NEW s \in Time,
           orders'[w][s] # None, ~mixed'
    PROVE  Explained(w, s)'
<1>1. ~mixed /\ Alone
  BY Writers DEF OrderInv, TypeInv, TypeOK
<1>2. ~Refreshed
  BY <1>1, RefreshedAlone
<1>3. Explained(w, s)
  <2>1. ASSUME orders[w][s] # None PROVE Explained(w, s)
    BY <1>1, <2>1 DEF OrderInv
  <2>2. ASSUME NEW c \in Cycle, SaveOrders(c, w), s \in cycle[c].want PROVE Explained(w, s)
    BY <1>1, <2>2 DEF SaveOrders, OrderInv, WantedListed
  <2> QED  BY <2>1, <2>2, OrderOrigin DEF Mature
<1> QED  BY <1>2, <1>3, ForecastsStay DEF Explained, Steps

LEMMA LabelsStep ==
    ASSUME TypeInv, TimeInv, OrderInv, [Next]_vars, NEW w \in Warehouse, NEW s \in Time,
           orders'[w][s] # None, orders'[w][s].actual # None, ~mixed'
    PROVE  orders'[w][s].actual \subseteq SlotLabels(history', w, s)
<1>1. /\ ~mixed /\ Alone /\ ActualsFromLabels
      /\ orders[w][s] \in OrderRow \cup {None}
  BY Writers DEF OrderInv, TypeInv, TypeOK
<1>2. ~Refreshed
  BY <1>1, RefreshedAlone
<1>3. SlotLabels(history, w, s) \subseteq SlotLabels(history', w, s)
  <2>1. ASSUME NEW r \in Route, history[r][s] # None, history[r][s].label # None
        PROVE  history'[r][s] # None /\ history'[r][s].label = history[r][s].label
    BY <1>2, <2>1, RowsStay
  <2> QED  BY <2>1 DEF SlotLabels
<1>4. ASSUME orders[w][s] # None, orders[w][s].actual # None,
             orders'[w][s].actual = orders[w][s].actual
      PROVE  orders'[w][s].actual \subseteq SlotLabels(history', w, s)
  BY <1>1, <1>3, <1>4 DEF ActualsFromLabels
<1>5. CASE orders'[w][s] = orders[w][s]
  BY <1>4, <1>5
<1>6. ASSUME NEW c, orders'[w][s] = Upserted(orders[w][s], c)
      PROVE  orders'[w][s].actual \subseteq SlotLabels(history', w, s)
  BY <1>4, <1>6 DEF Upserted
<1>7. CASE /\ Mature(w, s)
           /\ orders'[w][s] = [orders[w][s] EXCEPT !.actual = SlotLabels(history, w, s)]
  <2>1. orders'[w][s].actual = SlotLabels(history, w, s)
    BY <1>1, <1>7 DEF Mature, OrderRow
  <2> QED  BY <1>3, <2>1
<1> QED  BY <1>5, <1>6, <1>7, OrderOrigin

LEMMA OrderStep ==
    ASSUME TypeInv, TimeInv, OrderInv, [Next]_vars
    PROVE  OrderInv'
<1>1. Alone'
  BY AloneStep DEF OrderInv
<1>2. ASSUME NEW w \in Warehouse, NEW s \in Time, orders'[w][s] # None
      PROVE  mixed' \/ Explained(w, s)'
  BY <1>2, ExplainedStep
<1>3. \A c \in Cycle : WantedListed(c)'
  BY WantedListedStep DEF OrderInv
<1>4. ActualsFromLabels'
  <2> SUFFICES ASSUME NEW w \in Warehouse, NEW s \in Time, orders'[w][s] # None,
                      orders'[w][s].actual # None, ~mixed'
               PROVE  /\ orders'[w][s].actual \subseteq SlotLabels(history', w, s)
                      /\ s + Lag <= now'
    BY DEF ActualsFromLabels
  <2>1. s + Lag <= now'
    BY TimeStep DEF TimeInv, ActualsMature
  <2> QED  BY <2>1, LabelsStep
<1> QED  BY <1>1, <1>2, <1>3, <1>4 DEF OrderInv

LEMMA OrderInit == Init => OrderInv
<1> SUFFICES ASSUME Init PROVE OrderInv
  OBVIOUS
<1>1. \A w \in Warehouse, s \in Time : orders[w][s] = None
  BY DEF Init
<1>2. \A c \in Cycle : cycle[c].pc = "none"
  BY DEF Init, NoCycle
<1>3. ~Replacing
  BY DEF Init, Replacing, NoUpload
<1> QED  BY <1>1, <1>2, <1>3, OperationsAssumption
         DEF OrderInv, Alone, WantedListed, ActualsFromLabels, Stage

\* Every order has a forecast to be listed with, unless an upload was mixed
\* with something else: the dispatch reads forecasts and stores orders in two
\* transactions, and only refresh_snapshot takes forecasts away.
THEOREM OrdersHaveForecasts == Spec => []OrdersAreExplained
<1>1. TypeInv /\ TimeInv /\ OrderInv /\ [Next]_vars => OrderInv'
  BY OrderStep
<1>2. TypeInv /\ TimeInv /\ [Next]_vars => TypeInv' /\ TimeInv'
  BY TypeStep, TimeStep
<1>3. OrderInv => OrdersAreExplained
  BY ListedExplained DEF OrderInv, OrdersAreExplained
<1> QED  BY <1>1, <1>2, <1>3, TypeInit, TimeInit, OrderInit, PTL DEF Spec

\* The actuals of an order are labels that still stand, as no write of a row
\* takes its label away and no later order its actuals (the ON CONFLICT clauses
\* of append_status_observation and of save_transport_requests).
THEOREM ActualsAreLabels == Spec => []ActualsFromLabels
<1>1. TypeInv /\ TimeInv /\ OrderInv /\ [Next]_vars => OrderInv'
  BY OrderStep
<1>2. TypeInv /\ TimeInv /\ [Next]_vars => TypeInv' /\ TimeInv'
  BY TypeStep, TimeStep
<1>3. OrderInv => ActualsFromLabels
  BY DEF OrderInv
<1> QED  BY <1>1, <1>2, <1>3, TypeInit, TimeInit, OrderInit, PTL DEF Spec

-----------------------------------------------------------------------------
(* The tables after an upload that was alone *)

Homes == {Home[r] : r \in routes}

\* Whatever a cycle still has to do is about routes there are.
CycleAligned(c) ==
    CycleRuns(c) => /\ cycle[c].todo \subseteq routes
                    /\ cycle[c].asked \subseteq Homes
                    /\ cycle[c].pc \in Warehouse => cycle[c].pc \in Homes

TaskAligned(k, r) == TaskRuns(k, r) => r \in routes

TablesAligned ==
    /\ routes = {k[1] : k \in Retained}
    /\ \A r \in Route, t \in Time : history[r][t] # None => r \in routes
    /\ \A f \in forecasts : f.route \in routes
    /\ \A w \in Warehouse, s \in Time : orders[w][s] # None => w \in Homes

AlignedInv ==
    /\ Alone
    /\ (Committed /\ ~mixed) => /\ TablesAligned
                                /\ \A c \in Cycle : CycleAligned(c)
                                /\ \A k \in Caller, r \in Route : TaskAligned(k, r)

LEMMA CycleAlignedStep ==
    ASSUME TypeInv, [Next]_vars, routes' = routes, NEW c \in Cycle, CycleAligned(c)
    PROVE  CycleAligned(c)'
<1>0. /\ cycle[c] \in CycleRecord /\ cycle \in [Cycle -> CycleRecord]
      /\ Stage \cap Warehouse = {} /\ Homes' = Homes
      /\ history \in History /\ routes \subseteq Route
  BY OperationsAssumption DEF TypeInv, TypeOK, Homes
<1>1. ASSUME cycle'[c] = cycle[c] PROVE CycleAligned(c)'
  BY <1>0, <1>1 DEF CycleAligned, CycleRuns
<1>2. ASSUME NEW d \in Cycle, NEW anchor, Begin(d, anchor) PROVE CycleAligned(c)'
  <2>1. CASE d # c
    <3>1. cycle'[c] = cycle[c]
      BY <1>0, <1>2, <2>1 DEF Begin
    <3> QED  BY <1>1, <3>1
  <2>2. CASE d = c
    <3>1. /\ cycle'[c].pc \in {"ended", "statuses"} /\ cycle'[c].todo = routes
          /\ cycle'[c].asked = {}
      BY <1>0, <1>2, <2>2 DEF Begin, NoCycle
    <3> QED  BY <1>0, <3>1 DEF CycleAligned, Stage
  <2> QED  BY <2>1, <2>2
<1>3. ASSUME CycleStep(c) \/ ChunkFails(c) \/ DispatchFails(c) PROVE CycleAligned(c)'
  <2>0. /\ cycle[c].todo \subseteq routes /\ cycle[c].asked \subseteq Homes
        /\ cycle[c].pc \in Warehouse => cycle[c].pc \in Homes
    BY <1>3, CycleFrame DEF CycleAligned
  <2>1. ASSUME cycle'[c].todo \subseteq cycle[c].todo, cycle'[c].asked \subseteq cycle[c].asked,
               cycle'[c].pc \in Stage
        PROVE  CycleAligned(c)'
    BY <1>0, <2>0, <2>1 DEF CycleAligned
  <2>2. ASSUME FetchStatuses(c) PROVE CycleAligned(c)'
    <3> DEFINE L == LatestStatuses(history, cycle[c].todo, cycle[c].anchor)
    <3>1. DOMAIN L \in SUBSET cycle[c].todo
      <4>1. cycle[c].todo \in SUBSET Route /\ cycle[c].anchor \in Time /\ history \in History
        BY <1>0 DEF CycleRecord
      <4> QED  BY ONLY <4>1, LatestStatusesPast
    <3>2. /\ cycle'[c].todo = DOMAIN L /\ cycle'[c].asked = cycle[c].asked
          /\ cycle'[c].pc \in {"warehouses", "post"}
      BY <1>0, <2>2 DEF FetchStatuses, CycleRecord
    <3> HIDE DEF L
    <3> QED  BY <2>1, <3>1, <3>2 DEF Stage
  <2>3. ASSUME PostChunk(c) PROVE CycleAligned(c)'
    <3>1. cycle' = [cycle EXCEPT ![c].pc = "wait", ![c].chunk = NextChunk(c),
                                 ![c].todo = @ \ NextChunk(c)]
      BY <2>3 DEF PostChunk
    <3>2. /\ cycle'[c].todo = cycle[c].todo \ NextChunk(c) /\ cycle'[c].asked = cycle[c].asked
          /\ cycle'[c].pc = "wait"
      BY <1>0, <3>1 DEF CycleRecord
    <3> QED  BY <2>1, <3>2 DEF Stage
  <2>4. ASSUME ChunkAnswered(c) PROVE CycleAligned(c)'
    BY <1>0, <2>1, <2>4 DEF ChunkAnswered, CycleRecord, Stage
  <2>5. ASSUME ReadWarehouses(c) PROVE CycleAligned(c)'
    <3>1. /\ cycle'[c].todo = cycle[c].todo /\ cycle'[c].asked = Homes /\ cycle'[c].pc = "ask"
      BY <1>0, <2>5 DEF ReadWarehouses, CycleRecord, Homes
    <3> QED  BY <1>0, <2>0, <3>1 DEF CycleAligned, Stage
  <2>6. ASSUME NEW w \in Warehouse, AskDispatcher(c, w) PROVE CycleAligned(c)'
    <3>1. /\ cycle'[c].todo = cycle[c].todo /\ cycle'[c].asked \subseteq cycle[c].asked
          /\ cycle'[c].pc \in {"ask", w} /\ w \in cycle[c].asked
      BY <1>0, <2>6 DEF AskDispatcher, CycleRecord
    <3> QED  BY <1>0, <2>0, <3>1 DEF CycleAligned, Stage
  <2>7. ASSUME NEW w \in Warehouse, SaveOrders(c, w) PROVE CycleAligned(c)'
    BY <1>0, <2>1, <2>7 DEF SaveOrders, CycleRecord, Stage
  <2>8. ASSUME EndCycle(c) PROVE CycleAligned(c)'
    BY <1>0, <2>1, <2>8 DEF EndCycle, CycleRecord, Stage
  <2>9. ASSUME ChunkFails(c) PROVE CycleAligned(c)'
    BY <1>0, <2>1, <2>9 DEF ChunkFails, CycleRecord, Stage
  <2>10. ASSUME DispatchFails(c) PROVE CycleAligned(c)'
    BY <1>0, <2>1, <2>10 DEF DispatchFails, CycleRecord, Stage
  <2> QED  BY <1>3, <2>2, <2>3, <2>4, <2>5, <2>6, <2>7, <2>8, <2>9, <2>10 DEF CycleStep
<1>4. ASSUME NEW d \in Cycle, CycleStep(d) \/ ChunkFails(d) \/ DispatchFails(d)
      PROVE  CycleAligned(c)'
  BY <1>1, <1>3, <1>4, CycleFrame
<1> QED  BY <1>1, <1>2, <1>4, Writers DEF BeginsSome, CycleMoves

LEMMA TaskAlignedStep ==
    ASSUME TypeInv, [Next]_vars, routes' = routes, \A c \in Cycle : CycleAligned(c),
           NEW k \in Caller, NEW r \in Route, TaskAligned(k, r)
    PROVE  TaskAligned(k, r)'
<1>1. ASSUME task'[k][r] = task[k][r] PROVE TaskAligned(k, r)'
  BY <1>1 DEF TaskAligned, TaskRuns
<1>2. ASSUME r \in routes PROVE TaskAligned(k, r)'
  BY <1>2 DEF TaskAligned
<1>3. ASSUME NEW c \in Cycle, PostChunk(c) PROVE TaskAligned(k, r)'
  <2>1. task'[k][r] = task[k][r] \/ r \in NextChunk(c)
    BY <1>3, PostedTasks
  <2>2. NextChunk(c) \subseteq cycle[c].todo /\ CycleRuns(c)
    BY <1>3, PostedTasks DEF PostChunk, CycleRuns
  <2>3. cycle[c].todo \subseteq routes
    BY <2>2 DEF CycleAligned
  <2> QED  BY <1>1, <1>2, <2>1, <2>2, <2>3
<1>4. ASSUME NEW q \in Route, PostObservation(q) PROVE TaskAligned(k, r)'
  <2>1. task'[k][r] = task[k][r] \/ r = q
    BY <1>4, ObservedTask
  <2> QED  BY <1>1, <1>2, <1>4, <2>1 DEF PostObservation
<1>5. ASSUME NEW i \in Caller, NEW q \in Route, TaskStep(i, q) \/ TaskFails(i, q)
      PROVE  TaskAligned(k, r)'
  <2>1. CASE i = k /\ q = r
    BY <1>2, <1>5, <2>1, TaskFrame DEF TaskAligned
  <2>2. CASE i # k \/ q # r
    BY <1>1, <1>5, <2>2, TaskFrame
  <2> QED  BY <2>1, <2>2
<1> QED  BY <1>1, <1>3, <1>4, <1>5, Writers DEF SomePosted, SomeObserved, TaskMoves

LEMMA TablesAlignedStep ==
    ASSUME TypeInv, [Next]_vars, routes' = routes, ~CommitSnapshot, TablesAligned,
           \A c \in Cycle : CycleAligned(c),
           \A k \in Caller, r \in Route : TaskAligned(k, r)
    PROVE  TablesAligned'
<1>0. history \in History /\ now \in Time /\ Homes' = Homes
  BY DEF TypeInv, TypeOK, Homes
<1>1. ASSUME NEW r \in Route, NEW t \in Time, history'[r][t] # None PROVE r \in routes
  <2>1. CASE history[r][t] # None
    BY <2>1 DEF TablesAligned
  <2>2. CASE history[r][t] = None
    <3>1. ASSUME NEW k \in Caller, NEW q \in Route, AppendObservation(k, q) PROVE r \in routes
      <4>1. history' = Appended(history, q, task[k][q].anchor, task[k][q].seen)
        BY <3>1 DEF AppendObservation
      <4>2. q = r
        BY <1>0, <1>1, <2>2, <4>1 DEF Appended, History
      <4> QED  BY <3>1, <4>2 DEF AppendObservation, TaskAligned, TaskRuns
    <3>2. ASSUME BackfillTargets PROVE FALSE
      BY <1>0, <1>1, <2>2, <3>2 DEF BackfillTargets, BackfillLabels, Labelled
    <3> QED  BY <1>1, <2>2, <3>1, <3>2, Writers DEF SomeAppended
  <2> QED  BY <2>1, <2>2
<1>2. ASSUME NEW f \in forecasts' PROVE f.route \in routes
  <2>1. CASE f \in forecasts
    BY <2>1 DEF TablesAligned
  <2>2. ASSUME NEW k \in Caller, NEW r \in Route, SaveShadow(k, r) \/ SavePrimary(k, r),
               f \notin forecasts
        PROVE  f.route \in routes
    <3>1. f.route = r
      BY <2>2 DEF SaveShadow, SavePrimary, Forecast
    <3> QED  BY <2>2, <3>1 DEF SaveShadow, SavePrimary, TaskAligned, TaskRuns
  <2> QED  BY <2>1, <2>2, Writers DEF SomeSaved
<1>3. ASSUME NEW w \in Warehouse, NEW s \in Time, orders'[w][s] # None PROVE w \in Homes
  <2>1. CASE orders[w][s] # None
    BY <2>1 DEF TablesAligned
  <2>2. ASSUME NEW c \in Cycle, SaveOrders(c, w) PROVE w \in Homes
    <3>1. cycle[c].pc = w /\ CycleRuns(c)
      BY <2>2, OperationsAssumption DEF SaveOrders, CycleRuns, Stage
    <3> QED  BY <3>1 DEF CycleAligned
  <2> QED  BY <1>3, <2>1, <2>2, OrderOrigin DEF Mature
<1> QED  BY <1>0, <1>1, <1>2, <1>3 DEF TablesAligned

LEMMA AlignedStep ==
    ASSUME TypeInv, AlignedInv, [Next]_vars
    PROVE  AlignedInv'
<1>0. upload \in UploadRecord /\ mixed \in BOOLEAN
  BY DEF TypeInv, TypeOK
<1>1. Alone'
  BY AloneStep DEF AlignedInv
<1> SUFFICES ASSUME Committed', ~mixed'
             PROVE  /\ TablesAligned'
                    /\ \A c \in Cycle : CycleAligned(c)'
                    /\ \A k \in Caller, r \in Route : TaskAligned(k, r)'
  BY <1>1 DEF AlignedInv
<1>2. ~mixed /\ Alone
  BY <1>0, Writers DEF AlignedInv
<1>3. CASE Refreshed
  <2>1. /\ ~InProgress /\ forecasts' = {}
        /\ \A w \in Warehouse, s \in Time : orders'[w][s] = None
        /\ RowsOf(history') = Retained /\ routes' = {k[1] : k \in Retained}
    BY <1>2, <1>3, RefreshedAlone
  <2>2. cycle' = cycle /\ task' = task
    BY <1>3 DEF Refreshed, CommitSnapshot
  <2>3. ASSUME NEW r \in Route, NEW t \in Time, history'[r][t] # None PROVE r \in routes'
    <3>1. <<r, t>> \in Retained
      BY <2>1, <2>3 DEF RowsOf
    <3> QED  BY <2>1, <3>1
  <2>4. TablesAligned'
    BY <2>1, <2>3 DEF TablesAligned
  <2>5. \A c \in Cycle : ~CycleRuns(c)'
    BY <2>1, <2>2 DEF InProgress, CycleRuns
  <2>6. \A k \in Caller, r \in Route : ~TaskRuns(k, r)'
    BY <2>1, <2>2 DEF InProgress, TaskRuns
  <2> QED  BY <2>4, <2>5, <2>6 DEF CycleAligned, TaskAligned
<1>4. CASE ~Refreshed
  <2>1. Committed
    BY <1>0, <1>4, UploadMoves DEF ClearSnapshot, FillSnapshot, Committed, UploadRecord
  <2>2. ~CommitSnapshot
    BY <2>1 DEF CommitSnapshot, Committed
  <2>3. routes' = routes
    BY <2>2, Writers
  <2>4. /\ TablesAligned /\ \A c \in Cycle : CycleAligned(c)
        /\ \A k \in Caller, r \in Route : TaskAligned(k, r)
    BY <1>2, <2>1 DEF AlignedInv
  <2>5. TablesAligned'
    BY <2>2, <2>3, <2>4, TablesAlignedStep
  <2>6. \A c \in Cycle : CycleAligned(c)'
    BY <2>3, <2>4, CycleAlignedStep
  <2>7. \A k \in Caller, r \in Route : TaskAligned(k, r)'
    BY <2>3, <2>4, TaskAlignedStep
  <2> QED  BY <2>5, <2>6, <2>7
<1> QED  BY <1>3, <1>4

\* After an upload during which nothing else was in progress the routes are
\* those of the retained rows, and no row, forecast or order speaks of another,
\* whatever runs from then on (upload.py, "stay aligned").
THEOREM UploadAligns == Spec => []AlignedUnlessOverlapped
<1>1. Init => AlignedInv
  BY DEF Init, NoUpload, AlignedInv, Alone, Replacing, Committed
<1>2. TypeInv /\ AlignedInv /\ [Next]_vars => AlignedInv'
  BY AlignedStep
<1>3. TypeInv /\ AlignedInv => AlignedUnlessOverlapped
  <2> SUFFICES ASSUME TypeInv, AlignedInv, ~mixed, Committed PROVE SnapshotAligned
    BY DEF AlignedUnlessOverlapped, SnapshotAligned, Committed
  <2>1. TablesAligned
    BY DEF AlignedInv
  <2>2. \A k \in RowsOf(history) : k[1] \in routes
    BY <2>1 DEF TablesAligned, RowsOf
  <2>3. \A w \in Warehouse, s \in Time : orders[w][s] # None => \E r \in routes : Home[r] = w
    BY <2>1 DEF TablesAligned, Homes
  <2> QED  BY <2>1, <2>2, <2>3 DEF TablesAligned, SnapshotAligned
<1> QED  BY <1>1, <1>2, <1>3, TypeInit, TypeStep, PTL DEF Spec

=============================================================================
