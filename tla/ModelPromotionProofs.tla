------------------------ MODULE ModelPromotionProofs ------------------------
(* Proofs about ModelPromotion: its types, and what it guarantees about the  *)
(* models that are served, for any versions, scores, requests and            *)
(* disturbances.                                                             *)
EXTENDS ModelPromotion, TLAPS

-----------------------------------------------------------------------------
(* What the helpers of the specification do to the types *)

\* Moving a handler on keeps the handlers well typed.
LEMMA GotoType ==
    ASSUME NEW p \in Proc, NEW pc \in Control, task \in [Proc -> Task], Goto(p, pc)
    PROVE  task' \in [Proc -> Task]
BY DEF Goto, Task

\* So does answering, which also leaves the lock with a Job or with nobody.
LEMMA FinishType ==
    ASSUME NEW p \in Proc, task \in [Proc -> Task], lock \in Job \cup {None}, Finish(p)
    PROVE  task' \in [Proc -> Task] /\ lock' \in Job \cup {None}
<1>1. IdleTask \in Task
  BY DEF IdleTask, Task, Control, Kind
<1> QED  BY <1>1 DEF Finish

\* A request carries the version of its handler.
LEMMA SendType ==
    ASSUME NEW p \in Proc, NEW op \in Op, NEW pc \in Control,
           task \in [Proc -> Task], calls \subseteq Call,
           task[p].v \in Version, Send(p, op, pc)
    PROVE  task' \in [Proc -> Task] /\ calls' \subseteq Call
<1>1. CASE phase \in {"down", "starting"}
  BY <1>1 DEF Send, Task
<1>2. CASE phase \notin {"down", "starting"}
  <2>1. [from |-> p, op |-> op, v |-> task[p].v, open |-> TRUE] \in Call
    BY DEF Call
  <2>2. calls' = calls \cup {[from |-> p, op |-> op, v |-> task[p].v, open |-> TRUE]}
    BY <1>2 DEF Send
  <2>3. task' \in [Proc -> Task]
    BY <1>2 DEF Send, Task
  <2> QED  BY <2>1, <2>2, <2>3
<1> QED  BY <1>1, <1>2

\* A response reaches a handler that exists.
LEMMA ReplyType ==
    ASSUME NEW c \in Call, NEW reply \in {"ok", "err"}, NEW got \in Known \cup {None},
           task \in [Proc -> Task], calls \subseteq Call, Reply(c, reply, got)
    PROVE  task' \in [Proc -> Task] /\ calls' \subseteq Call
BY DEF Reply, Task, Call

\* A timeout only rewrites the answer of the handler that gave up.
LEMMA TimeoutType ==
    ASSUME NEW p \in Proc, task \in [Proc -> Task], calls \subseteq Call, Timeout(p)
    PROVE  task' \in [Proc -> Task] /\ calls' \subseteq Call
<1>1. task' \in [Proc -> Task]
  BY DEF Timeout, Task
<1>2. \A c \in calls : [c EXCEPT !.open = c.open /\ c.from # p] \in Call
  <2> SUFFICES ASSUME NEW c \in calls, NEW b \in BOOLEAN
               PROVE  [c EXCEPT !.open = b] \in Call
    BY DEF Call
  <2> QED  BY DEF Call
<1>3. calls' = {[c EXCEPT !.open = c.open /\ c.from # p] : c \in calls}
  BY DEF Timeout
<1> QED  BY <1>1, <1>2, <1>3

-----------------------------------------------------------------------------
(* Type correctness *)

Saving == {"save_model", "save_meta", "save_aggs", "close_aggs", "save_fill",
           "close_fill", "compare", "register"}

\* TypeOK alone is not inductive: a handler writes its version and its score
\* into files, registry and requests, so it must have them by then.
Equipped ==
    \A p \in Proc :
        /\ task[p].pc # "idle" => task[p].v \in Version
        /\ task[p].pc \in Saving => task[p].score \in Score

TypeInv == TypeOK /\ Equipped

LEMMA TypeInit == Init => TypeInv
<1> SUFFICES ASSUME Init PROVE TypeInv
  OBVIOUS
<1>1. IdleTask \in Task /\ IdleTask.pc = "idle"
  BY DEF IdleTask, Task, Control, Kind
<1>2. task \in [Proc -> Task]
  BY <1>1 DEF Init
<1>3. models \in Manager
  BY DEF Init, LoadMetadata, LoadModel, NoModels, EmptySlot, Manager, Slot, Source, Known
<1>4. files \in Files /\ canon \in Canon /\ engine \in [aggs: Known, fill: Known]
  BY PromotionAssumption DEF Init, Files, Canon, Known
<1>5. Equipped
  BY <1>1 DEF Init, Equipped, Saving
<1> QED
  BY <1>2, <1>3, <1>4, <1>5, PromotionAssumption DEF Init, TypeInv, TypeOK

\* A job keeps the types, from its training to its registration.
LEMMA TypeJob ==
    ASSUME TypeInv, NEW j \in Job, JobStep(j)
    PROVE  TypeInv'
<1> USE DEF TypeInv, TypeOK
<1>a. j \in Proc /\ task[j] \in Task
  BY DEF Proc
<1>b. IdleTask \in Task /\ IdleTask.pc = "idle"
  BY DEF IdleTask, Task, Control, Kind
<1>1. ASSUME NEW kind \in {"retrain", "upload"}, StartCycle(j, kind) PROVE TypeInv'
  <2>1. PICK v \in Version :
           task' = [task EXCEPT ![j] = [IdleTask EXCEPT !.kind = kind, !.pc = "train",
                                                       !.v = v]]
    BY <1>1 DEF StartCycle
  <2>2. [IdleTask EXCEPT !.kind = kind, !.pc = "train", !.v = v] \in Task
    BY <1>b DEF Task, Control, Kind
  <2>3. task' \in [Proc -> Task]
    BY <2>1, <2>2
  <2>4. Equipped'
    BY <1>a, <1>b, <2>1 DEF Equipped, Saving, IdleTask
  <2> QED  BY <1>1, <2>3, <2>4 DEF StartCycle, Disk, Predictor
<1>2. CASE Train(j)
  <2>1. PICK s \in Score : task' = [task EXCEPT ![j].pc = "save_model", ![j].score = s]
    BY <1>2 DEF Train
  <2>2. task' \in [Proc -> Task]
    BY <1>a, <2>1 DEF Task, Control
  <2>3. Equipped'
    BY <1>a, <1>2, <2>1 DEF Equipped, Saving, Task, Train
  <2> QED  BY <1>2, <2>2, <2>3 DEF Train, Disk, Predictor
<1>3. CASE FailCycle(j)
  <2>1. task' \in [Proc -> Task] /\ lock' \in Job \cup {None}
    BY <1>a, <1>3, FinishType DEF FailCycle
  <2>2. Equipped'
    BY <1>3, <1>b DEF FailCycle, Finish, Equipped, Saving
  <2>3. faults' \in [left: Nat, kinds: SUBSET Fault]
    BY <1>3 DEF FailCycle, Disturb
  <2> QED  BY <1>3, <2>1, <2>2, <2>3 DEF FailCycle, Disk, Predictor
<1>4. CASE SaveModel(j)
  <2>1. task' \in [Proc -> Task] /\ Equipped'
    BY <1>a, <1>4, GotoType DEF SaveModel, Goto, Equipped, Saving, Control, Task
  <2>2. files' \in Files
    BY <1>a, <1>4 DEF SaveModel, Files, Equipped
  <2> QED  BY <1>4, <2>1, <2>2 DEF SaveModel, Predictor
<1>5. CASE SaveMetadata(j)
  <2>1. task' \in [Proc -> Task] /\ Equipped'
    BY <1>a, <1>5, GotoType DEF SaveMetadata, Goto, Equipped, Saving, Control, Task
  <2>2. files' \in Files
    BY <1>a, <1>5 DEF SaveMetadata, Files, Equipped
  <2> QED  BY <1>5, <2>1, <2>2 DEF SaveMetadata, Predictor
<1>6. CASE OpenAggs(j)
  <2>1. task' \in [Proc -> Task] /\ Equipped'
    BY <1>a, <1>6, GotoType DEF OpenAggs, Goto, Equipped, Saving, Control, Task
  <2>2. files' \in Files /\ canon' \in Canon
    BY <1>a, <1>6 DEF OpenAggs, Files, Canon, Equipped
  <2> QED  BY <1>6, <2>1, <2>2 DEF OpenAggs, Predictor
<1>7. CASE CloseAggs(j)
  <2>1. task' \in [Proc -> Task] /\ Equipped'
    BY <1>a, <1>7, GotoType DEF CloseAggs, Goto, Equipped, Saving, Control, Task
  <2>2. canon' \in Canon
    BY <1>a, <1>7 DEF CloseAggs, Canon, Equipped, Known
  <2> QED  BY <1>7, <2>1, <2>2 DEF CloseAggs, Predictor
<1>8. CASE OpenFill(j)
  <2>1. task' \in [Proc -> Task] /\ Equipped'
    BY <1>a, <1>8, GotoType DEF OpenFill, Goto, Equipped, Saving, Control, Task
  <2>2. files' \in Files /\ canon' \in Canon
    BY <1>a, <1>8 DEF OpenFill, Files, Canon, Equipped
  <2> QED  BY <1>8, <2>1, <2>2 DEF OpenFill, Predictor
<1>9. CASE CloseFill(j)
  <2>1. task' \in [Proc -> Task] /\ Equipped'
    BY <1>a, <1>9, GotoType DEF CloseFill, Goto, Equipped, Saving, Control, Task
  <2>2. canon' \in Canon
    BY <1>a, <1>9 DEF CloseFill, Canon, Equipped, Known
  <2>3. ready' \subseteq Version
    BY <1>a, <1>9 DEF CloseFill, Equipped
  <2> QED  BY <1>9, <2>1, <2>2, <2>3 DEF CloseFill, Predictor
<1>10. CASE SkipAggs(j)
  <2>1. task' \in [Proc -> Task] /\ Equipped'
    BY <1>a, <1>10, GotoType DEF SkipAggs, Goto, Equipped, Saving, Control, Task
  <2> QED  BY <1>10, <2>1 DEF SkipAggs, Disturb, Disk, Predictor
<1>11. CASE CompareChampion(j)
  <2>1. task' \in [Proc -> Task] /\ Equipped'
    BY <1>a, <1>11 DEF CompareChampion, Equipped, Saving, Control, Task
  <2> QED  BY <1>11, <2>1 DEF CompareChampion, Disk, Predictor
<1>12. CASE Register(j)
  <2>1. registry' \in [Version -> Score \cup {None}]
    BY <1>a, <1>12 DEF Register, Equipped, Saving
  <2>2. CASE task[j].kind = "upload" \/ task[j].better
    <3>1. task' \in [Proc -> Task] /\ Equipped'
      BY <1>a, <1>12, <2>2 DEF Register, Equipped, Saving, Control, Task
    <3> QED  BY <1>12, <2>1, <2>2, <3>1 DEF Register, Predictor
  <2>3. CASE ~(task[j].kind = "upload" \/ task[j].better)
    <3>1. Finish(j)
      BY <1>12, <2>3 DEF Register
    <3>2. task' \in [Proc -> Task] /\ lock' \in Job \cup {None}
      BY <1>a, <3>1, FinishType
    <3>3. Equipped'
      BY <3>1, <1>b DEF Finish, Equipped, Saving
    <3> QED  BY <1>12, <2>1, <3>2, <3>3 DEF Register, Predictor
  <2> QED  BY <2>2, <2>3
<1>13. CASE TriggerPipeline(j)
  <2>1. task' \in [Proc -> Task] /\ lock' \in Job \cup {None}
    BY <1>a, <1>13, FinishType DEF TriggerPipeline
  <2>2. Equipped'
    BY <1>13, <1>b DEF TriggerPipeline, Finish, Equipped, Saving
  <2> QED  BY <1>13, <2>1, <2>2 DEF TriggerPipeline, Disk, Predictor
<1> QED
  BY <1>1, <1>2, <1>3, <1>4, <1>5, <1>6, <1>7, <1>8, <1>9, <1>10, <1>11, <1>12, <1>13
  DEF JobStep

\* So does an unlocked call that is accepted.
LEMMA TypeCaller ==
    ASSUME TypeInv, NEW c \in Caller, CallerStep(c)
    PROVE  TypeInv'
<1>1. PICK kind \in {"promote", "shadow"} : AcceptCall(c, kind)
  BY DEF CallerStep
<1>2. PICK v \in Version :
         task' = [task EXCEPT ![c] = [IdleTask EXCEPT !.kind = kind, !.pc = "load",
                                                     !.v = v]]
  BY <1>1 DEF AcceptCall, Registered
<1>3. [IdleTask EXCEPT !.kind = kind, !.pc = "load", !.v = v] \in Task
  BY DEF IdleTask, Task, Control, Kind
<1>4. task' \in [Proc -> Task]
  BY <1>2, <1>3 DEF TypeInv, TypeOK
<1>5. Equipped'
  BY <1>2 DEF TypeInv, TypeOK, Equipped, Saving, IdleTask, Proc
<1> QED  BY <1>1, <1>4, <1>5 DEF AcceptCall, TypeInv, TypeOK, Disk, Predictor

\* So does every step of a promotion, and a timeout.
LEMMA TypePromotion ==
    ASSUME TypeInv, NEW p \in Proc, PromotionStep(p)
    PROVE  TypeInv'
<1> USE DEF TypeInv, TypeOK
<1>a. task[p] \in Task
  OBVIOUS
<1>b. IdleTask.pc = "idle"
  BY DEF IdleTask
<1>1. CASE SendLoad(p)
  <2>1. task[p].v \in Version /\ Send(p, "shadow_load", "load_wait")
    BY <1>1 DEF SendLoad, Equipped
  <2>2. task' \in [Proc -> Task] /\ calls' \subseteq Call
    BY <2>1, SendType DEF Op, Control, Waiting
  <2>3. Equipped'
    BY <2>1 DEF Send, Equipped, Saving, Task
  <2> QED  BY <1>1, <2>2, <2>3 DEF SendLoad, Disk, Predictor
<1>2. CASE LoadDone(p)
  <2>1. CASE task[p].kind \in {"upload", "promote"}
    <3>1. task' \in [Proc -> Task] /\ Equipped'
      BY <1>2, <2>1, GotoType DEF LoadDone, Goto, Equipped, Saving, Control, Task
    <3> QED  BY <1>2, <2>1, <3>1 DEF LoadDone, Disk, Predictor
  <2>2. CASE ~(task[p].kind \in {"upload", "promote"})
    <3>1. Finish(p)
      BY <1>2, <2>2 DEF LoadDone
    <3>2. task' \in [Proc -> Task] /\ lock' \in Job \cup {None}
      BY <3>1, FinishType
    <3>3. Equipped'
      BY <3>1, <1>b DEF Finish, Equipped, Saving
    <3> QED  BY <1>2, <3>2, <3>3 DEF LoadDone, Disk, Predictor
  <2> QED  BY <2>1, <2>2
<1>3. CASE SendPromote(p)
  <2>1. task[p].v \in Version /\ Send(p, "shadow_promote", "promote_wait")
    BY <1>3 DEF SendPromote, Equipped
  <2>2. task' \in [Proc -> Task] /\ calls' \subseteq Call
    BY <2>1, SendType DEF Op, Control, Waiting
  <2>3. Equipped'
    BY <2>1 DEF Send, Equipped, Saving, Task
  <2> QED  BY <1>3, <2>2, <2>3 DEF SendPromote, Disk, Predictor
<1>4. CASE PromotionFailed(p)
  <2>1. task' \in [Proc -> Task] /\ lock' \in Job \cup {None}
    BY <1>4, FinishType DEF PromotionFailed
  <2>2. Equipped'
    BY <1>4, <1>b DEF PromotionFailed, Finish, Equipped, Saving
  <2> QED  BY <1>4, <2>1, <2>2 DEF PromotionFailed, Disk, Predictor
<1>5. CASE StartCopy(p)
  <2>1. task' \in [Proc -> Task] /\ Equipped'
    BY <1>5, GotoType DEF StartCopy, Goto, Equipped, Saving, Control, Task
  <2> QED  BY <1>5, <2>1 DEF StartCopy, Disk, Predictor
<1>6. CASE CopyModel(p)
  <2>1. task' \in [Proc -> Task] /\ Equipped'
    BY <1>6, GotoType DEF CopyModel, Copy, Goto, Equipped, Saving, Control, Task
  <2>2. canon' \in Canon /\ faults' \in [left: Nat, kinds: SUBSET Fault]
    BY <1>6 DEF CopyModel, Copy, Disturb, Files, Canon, Known
  <2> QED  BY <1>6, <2>1, <2>2 DEF CopyModel, Copy, Predictor
<1>7. CASE CopyMetadata(p)
  <2>1. task' \in [Proc -> Task] /\ Equipped'
    BY <1>7, GotoType DEF CopyMetadata, Copy, Goto, Equipped, Saving, Control, Task
  <2>2. canon' \in Canon /\ faults' \in [left: Nat, kinds: SUBSET Fault]
    BY <1>7 DEF CopyMetadata, Copy, Disturb, Files, Canon, Known
  <2> QED  BY <1>7, <2>1, <2>2 DEF CopyMetadata, Copy, Predictor
<1>8. CASE CopyAggs(p)
  <2>1. task' \in [Proc -> Task] /\ Equipped'
    BY <1>8, GotoType DEF CopyAggs, Copy, Goto, Equipped, Saving, Control, Task
  <2>2. canon' \in Canon /\ faults' \in [left: Nat, kinds: SUBSET Fault]
    BY <1>8 DEF CopyAggs, Copy, Disturb, Files, Canon, Known
  <2> QED  BY <1>8, <2>1, <2>2 DEF CopyAggs, Copy, Predictor
<1>9. CASE CopyFill(p)
  <2>1. task' \in [Proc -> Task] /\ Equipped'
    BY <1>9, GotoType DEF CopyFill, Copy, Goto, Equipped, Saving, Control, Task
  <2>2. canon' \in Canon /\ faults' \in [left: Nat, kinds: SUBSET Fault]
    BY <1>9 DEF CopyFill, Copy, Disturb, Files, Canon, Known
  <2> QED  BY <1>9, <2>1, <2>2 DEF CopyFill, Copy, Predictor
<1>10. CASE SendReload(p)
  <2>1. task[p].v \in Version /\ Send(p, "reload_features", "reload_wait")
    BY <1>10 DEF SendReload, Equipped
  <2>2. task' \in [Proc -> Task] /\ calls' \subseteq Call
    BY <2>1, SendType DEF Op, Control, Waiting
  <2>3. Equipped'
    BY <2>1 DEF Send, Equipped, Saving, Task
  <2> QED  BY <1>10, <2>2, <2>3 DEF SendReload, Disk, Predictor
<1>11. CASE ReloadDone(p)
  <2>1. CASE task[p].kind = "upload"
    <3>1. task' \in [Proc -> Task] /\ Equipped'
      BY <1>11, <2>1, GotoType DEF ReloadDone, Goto, Equipped, Saving, Control, Task
    <3> QED  BY <1>11, <2>1, <3>1 DEF ReloadDone, Disk, Predictor
  <2>2. CASE ~(task[p].kind = "upload")
    <3>1. Finish(p)
      BY <1>11, <2>2 DEF ReloadDone
    <3>2. task' \in [Proc -> Task] /\ lock' \in Job \cup {None}
      BY <3>1, FinishType
    <3>3. Equipped'
      BY <3>1, <1>b DEF Finish, Equipped, Saving
    <3> QED  BY <1>11, <3>2, <3>3 DEF ReloadDone, Disk, Predictor
  <2> QED  BY <2>1, <2>2
<1>12. CASE Timeout(p)
  <2>1. task' \in [Proc -> Task] /\ calls' \subseteq Call
    BY <1>12, TimeoutType
  <2>2. Equipped'
    BY <1>12 DEF Timeout, Equipped, Saving, Task
  <2>3. faults' \in [left: Nat, kinds: SUBSET Fault]
    BY <1>12 DEF Timeout, Disturb
  <2> QED  BY <1>12, <2>1, <2>2, <2>3 DEF Timeout, Disk, Predictor
<1> QED
  BY <1>1, <1>2, <1>3, <1>4, <1>5, <1>6, <1>7, <1>8, <1>9, <1>10, <1>11, <1>12
  DEF PromotionStep

\* So does everything the prediction service does.
LEMMA TypeServer ==
    ASSUME TypeInv, ServerStep
    PROVE  TypeInv'
<1> USE DEF TypeInv, TypeOK
<1>e. ASSUME NEW c \in Call, NEW reply, NEW got, Reply(c, reply, got) PROVE Equipped'
  BY <1>e DEF Reply, Equipped, Saving, Task
<1>1. ASSUME NEW c \in calls, ServeShadowLoad(c) PROVE TypeInv'
  <2>1. models' \in Manager
    BY <1>1 DEF ServeShadowLoad, LoadShadow, Manager, Slot, Source, Known, Call
  <2>2. task' \in [Proc -> Task] /\ calls' \subseteq Call
    BY <1>1, ReplyType DEF ServeShadowLoad
  <2>3. Equipped'
    BY <1>1, <1>e DEF ServeShadowLoad
  <2> QED  BY <1>1, <2>1, <2>2, <2>3 DEF ServeShadowLoad, Disk
<1>2. ASSUME NEW c \in calls, ServePromote(c) PROVE TypeInv'
  <2>1. models' \in Manager
    BY <1>2 DEF ServePromote, PromoteShadow, EmptySlot, Manager, Slot, Source
  <2>2. RuntimeVersion(models'.primary) \in Known \cup {None}
    BY <2>1 DEF RuntimeVersion, Manager, Slot
  <2>3. task' \in [Proc -> Task] /\ calls' \subseteq Call
    BY <1>2, <2>2, ReplyType DEF ServePromote
  <2>4. Equipped'
    BY <1>2, <1>e DEF ServePromote
  <2> QED  BY <1>2, <2>1, <2>3, <2>4 DEF ServePromote, Disk
<1>3. ASSUME NEW c \in calls, ServeReloadFeatures(c) PROVE TypeInv'
  <2>1. engine' \in [aggs: Known, fill: Known]
    BY <1>3 DEF ServeReloadFeatures, Canon
  <2>2. PICK reply \in {"ok", "err"} : Reply(c, reply, None)
    BY <1>3 DEF ServeReloadFeatures
  <2>3. task' \in [Proc -> Task] /\ calls' \subseteq Call
    BY <2>2, ReplyType
  <2>4. Equipped'
    BY <2>2, <1>e
  <2> QED  BY <1>3, <2>1, <2>3, <2>4 DEF ServeReloadFeatures, Disk
<1>4. CASE BeginLoad
  <2>1. models' \in Manager
    BY <1>4 DEF BeginLoad, LoadModel, Canon, Manager, Slot, Source
  <2>2. faults' \in [left: Nat, kinds: SUBSET Fault]
    BY <1>4 DEF BeginLoad, Disturb
  <2> QED  BY <1>4, <2>1, <2>2 DEF BeginLoad, Disk, Equipped
<1>5. CASE FinishReload
  <2>1. models' \in Manager
    BY <1>5 DEF FinishReload, LoadMetadata, Canon, Manager, Slot
  <2> QED  BY <1>5, <2>1 DEF FinishReload, Disk, Equipped
<1>6. CASE FinishStart
  <2>1. models' \in Manager
    BY <1>6 DEF FinishStart, LoadMetadata, NoModels, EmptySlot, Canon, Manager, Slot, Source
  <2>2. engine' \in [aggs: Known, fill: Known]
    BY <1>6 DEF FinishStart, Canon
  <2> QED  BY <1>6, <2>1, <2>2 DEF FinishStart, Disk, Equipped
<1>7. CASE RemoveShadowByHand
  <2>1. models' \in Manager
    BY <1>7 DEF RemoveShadowByHand, RemoveShadow, EmptySlot, Manager, Slot, Source
  <2> QED  BY <1>7, <2>1 DEF RemoveShadowByHand, Disturb, Disk, Equipped
<1>8. ASSUME NEW c \in calls, ShadowLoadFails(c) PROVE TypeInv'
  <2>1. models' \in Manager
    BY <1>8 DEF ShadowLoadFails, LoadShadowUnread, Manager, Slot, Source, Known, Call
  <2>2. task' \in [Proc -> Task] /\ calls' \subseteq Call
    BY <1>8, ReplyType DEF ShadowLoadFails
  <2>3. Equipped'
    BY <1>8, <1>e DEF ShadowLoadFails
  <2>4. unread' \subseteq Version
    BY <1>8 DEF ShadowLoadFails, Call
  <2> QED  BY <1>8, <2>1, <2>2, <2>3, <2>4 DEF ShadowLoadFails, Disturb, Disk
<1>9. CASE LoadFails
  <2>1. models' \in Manager
    BY <1>9 DEF LoadFails, NoModels, EmptySlot, Manager, Slot, Source
  <2> QED  BY <1>9, <2>1 DEF LoadFails, Disturb, Disk, Equipped
<1> QED
  BY <1>1, <1>2, <1>3, <1>4, <1>5, <1>6, <1>7, <1>8, <1>9 DEF ServerStep

\* So does the death of either service.
LEMMA TypeCrash ==
    ASSUME TypeInv, CrashRetraining \/ CrashPrediction
    PROVE  TypeInv'
<1> USE DEF TypeInv, TypeOK
<1>1. CASE CrashRetraining
  <2>1. IdleTask \in Task /\ IdleTask.pc = "idle"
    BY DEF IdleTask, Task, Control, Kind
  <2>2. task' \in [Proc -> Task] /\ Equipped'
    BY <1>1, <2>1 DEF CrashRetraining, Equipped, Saving
  <2>3. \A c \in calls : [c EXCEPT !.open = FALSE] \in Call
    BY DEF Call
  <2>4. calls' \subseteq Call
    BY <1>1, <2>3 DEF CrashRetraining
  <2> QED  BY <1>1, <2>2, <2>4 DEF CrashRetraining, Disturb, Disk, Predictor
<1>2. CASE CrashPrediction
  <2>1. \A p \in Proc : [task[p] EXCEPT !.reply = "err"] \in Task
    BY DEF Task
  <2>2. task' \in [Proc -> Task]
    BY <1>2, <2>1 DEF CrashPrediction
  <2>3. Equipped'
    BY <1>2 DEF CrashPrediction, Equipped, Saving, Task
  <2>4. models' \in Manager
    BY <1>2 DEF CrashPrediction, NoModels, EmptySlot, Manager, Slot, Source
  <2> QED  BY <1>2, <2>2, <2>3, <2>4 DEF CrashPrediction, Disturb, Disk
<1> QED  BY <1>1, <1>2

LEMMA TypeStutter ==
    ASSUME TypeInv, UNCHANGED vars
    PROVE  TypeInv'
BY DEF TypeInv, TypeOK, Equipped, vars

LEMMA TypeInductive == Spec => []TypeInv
<1>1. TypeInv /\ [Next]_vars => TypeInv'
  BY TypeJob, TypeCaller, TypePromotion, TypeServer, TypeCrash, TypeStutter DEF Next
<1> QED  BY TypeInit, <1>1, PTL DEF Spec

\* TypeOK holds in every reachable state: whatever the interleaving, no file
\* is written for a version that does not exist, no torn table reaches the
\* feature engine, and no request is sent for a handler without a version.
THEOREM TypeCorrect == Spec => []TypeOK
BY TypeInductive, PTL DEF TypeInv

-----------------------------------------------------------------------------
(* Only registered versions are served *)

Promoting == {"load", "promote", "copy_model", "copy_meta", "copy_aggs", "copy_fill",
              "reload", "trigger"} \cup Waiting

\* A handler enters the promotion with a registered version.
PromotersRegistered ==
    \A p \in Proc : task[p].pc \in Promoting => task[p].v \in Registered

\* A request in flight, an abandoned one too, names a registered version.
RequestsRegistered == \A c \in calls : c.v \in Registered

RegistryInv == PromotersRegistered /\ RequestsRegistered /\ OnlyRegisteredServed

\* Nothing that is seen from outside moves, and no registration is lost.
Quiet ==
    /\ Registered \subseteq Registered'
    /\ models' = models
    /\ canon'.model = canon.model /\ canon'.meta = canon.meta

LEMMA QuietServed == OnlyRegisteredServed /\ Quiet => OnlyRegisteredServed'
BY DEF OnlyRegisteredServed, Quiet

LEMMA RegistryInit == Init => RegistryInv
<1> SUFFICES ASSUME Init PROVE RegistryInv
  OBVIOUS
<1>1. PromotersRegistered /\ RequestsRegistered
  BY DEF Init, IdleTask, PromotersRegistered, Promoting, Waiting, RequestsRegistered
<1>2. OnlyRegisteredServed
  BY DEF Init, OnlyRegisteredServed, LoadMetadata, LoadModel, NoModels, EmptySlot
<1> QED  BY <1>1, <1>2 DEF RegistryInv

\* A job promotes only what it has registered.
LEMMA RegistryJob ==
    ASSUME TypeInv, RegistryInv, NEW j \in Job, JobStep(j)
    PROVE  RegistryInv'
<1> USE DEF TypeInv, TypeOK, RegistryInv
<1>a. j \in Proc /\ task[j] \in Task
  BY DEF Proc
<1>b. IdleTask.pc = "idle"
  BY DEF IdleTask
<1>c. ASSUME registry' = registry PROVE Registered' = Registered
  BY <1>c DEF Registered
<1>1. CASE Register(j)
  <2>1. task[j].v \in Version /\ task[j].score \in Score
    BY <1>a, <1>1 DEF Register, Equipped, Saving
  <2>2. Registered \subseteq Registered' /\ task[j].v \in Registered'
    BY <1>1, <2>1, PromotionAssumption DEF Register, Registered
  <2>3. PromotersRegistered'
    BY <1>1, <1>a, <1>b, <2>2 DEF Register, Finish, PromotersRegistered, Promoting, Waiting, Task
  <2>4. RequestsRegistered'
    BY <1>1, <2>2 DEF Register, RequestsRegistered
  <2>5. Quiet
    BY <1>1, <2>2 DEF Register, Quiet, Predictor
  <2> QED  BY <2>3, <2>4, <2>5, QuietServed
<1>2. CASE ~Register(j)
  <2>1. registry' = registry /\ calls' = calls /\ models' = models
    BY <1>2 DEF JobStep, StartCycle, Train, FailCycle, SaveModel, SaveMetadata, OpenAggs,
                CloseAggs, OpenFill, CloseFill, SkipAggs, CompareChampion,
                TriggerPipeline, Disk, Predictor
  <2>2. canon'.model = canon.model /\ canon'.meta = canon.meta
    <3>1. CASE OpenAggs(j) \/ CloseAggs(j) \/ OpenFill(j) \/ CloseFill(j)
      BY <3>1 DEF OpenAggs, CloseAggs, OpenFill, CloseFill, Canon
    <3>2. CASE ~(OpenAggs(j) \/ CloseAggs(j) \/ OpenFill(j) \/ CloseFill(j))
      BY <1>2, <3>2 DEF JobStep, StartCycle, Train, FailCycle, SaveModel, SaveMetadata,
                SkipAggs, CompareChampion, TriggerPipeline, Disk
    <3> QED  BY <3>1, <3>2
  <2>3. \A p \in Proc \ {j} : task'[p] = task[p]
    BY <1>2 DEF JobStep, StartCycle, Train, FailCycle, SaveModel, SaveMetadata, OpenAggs,
                CloseAggs, OpenFill, CloseFill, SkipAggs, CompareChampion,
                TriggerPipeline, Goto, Finish
  <2>4. task'[j].pc \notin Promoting
    <3>1. CASE StartCycle(j, "retrain") \/ StartCycle(j, "upload")
      <4>1. PICK kind, v : task' = [task EXCEPT ![j] =
                [IdleTask EXCEPT !.kind = kind, !.pc = "train", !.v = v]]
        BY <3>1, ZenonT(30) DEF StartCycle
      <4>2. task'[j].pc = "train"
        BY ONLY <1>a, <4>1, TypeOK, j \in Proc DEF TypeOK, IdleTask
      <4> QED  BY <4>2 DEF Promoting, Waiting
    <3>2. CASE FailCycle(j) \/ TriggerPipeline(j)
      BY <1>a, <1>b, <3>2 DEF FailCycle, TriggerPipeline, Finish, Promoting, Waiting
    <3>3. CASE \/ Train(j) \/ SaveModel(j) \/ SaveMetadata(j) \/ OpenAggs(j) \/ CloseAggs(j)
               \/ OpenFill(j) \/ CloseFill(j) \/ SkipAggs(j) \/ CompareChampion(j)
      BY <1>a, <3>3 DEF Train, SaveModel, SaveMetadata, OpenAggs, CloseAggs, OpenFill,
                CloseFill, SkipAggs, CompareChampion, Goto, Promoting, Waiting, Task
    <3> QED  BY <1>2, <3>1, <3>2, <3>3 DEF JobStep
  <2>5. Registered' = Registered
    BY <1>c, <2>1
  <2>6. PromotersRegistered'
    BY <2>3, <2>4, <2>5 DEF PromotersRegistered
  <2>7. RequestsRegistered'
    BY <2>1, <2>5 DEF RequestsRegistered
  <2> QED  BY <2>1, <2>2, <2>5, <2>6, <2>7, QuietServed DEF Quiet
<1> QED  BY <1>1, <1>2

\* promote_version and load_shadow answer 404 for any other version.
LEMMA RegistryCaller ==
    ASSUME TypeInv, RegistryInv, NEW c \in Caller, CallerStep(c)
    PROVE  RegistryInv'
<1> USE DEF TypeInv, TypeOK, RegistryInv
<1>1. PICK kind \in {"promote", "shadow"} : AcceptCall(c, kind)
  BY DEF CallerStep
<1>2. PICK v \in Registered :
         task' = [task EXCEPT ![c] = [IdleTask EXCEPT !.kind = kind, !.pc = "load",
                                                     !.v = v]]
  BY <1>1 DEF AcceptCall
<1>3. Registered' = Registered
  BY <1>1 DEF AcceptCall, Disk, Registered
<1>4. PromotersRegistered'
  BY <1>2, <1>3 DEF PromotersRegistered, IdleTask, Proc
<1>5. RequestsRegistered'
  BY <1>1, <1>3 DEF AcceptCall, RequestsRegistered
<1> QED  BY <1>1, <1>3, <1>4, <1>5, QuietServed DEF AcceptCall, Quiet, Disk, Predictor

\* A promotion sends requests for its version, and copies its version.
LEMMA RegistryPromotion ==
    ASSUME TypeInv, RegistryInv, NEW p \in Proc, PromotionStep(p)
    PROVE  RegistryInv'
<1> USE DEF TypeInv, TypeOK, RegistryInv
<1>a. task[p] \in Task /\ IdleTask.pc = "idle"
  BY DEF IdleTask
<1>b. Registered' = Registered
  BY DEF PromotionStep, SendLoad, LoadDone, SendPromote, PromotionFailed, StartCopy, CopyModel,
         CopyMetadata, CopyAggs, CopyFill, Copy, SendReload, ReloadDone, Timeout, Disk, Registered
<1>c. \A q \in Proc \ {p} : task'[q] = task[q]
  BY DEF PromotionStep, SendLoad, LoadDone, SendPromote, PromotionFailed, StartCopy, CopyModel,
         CopyMetadata, CopyAggs, CopyFill, Copy, SendReload, ReloadDone, Timeout,
         Goto, Finish, Send
<1>d. \/ task'[p].pc = "idle"
      \/ task[p].pc \in Promoting /\ task'[p].v = task[p].v
  BY <1>a DEF PromotionStep, SendLoad, LoadDone, SendPromote, PromotionFailed, StartCopy,
         CopyModel, CopyMetadata, CopyAggs, CopyFill, Copy, SendReload, ReloadDone, Timeout,
         Goto, Finish, Send, Promoting, Waiting, Task
<1>1. PromotersRegistered'
  BY <1>b, <1>c, <1>d DEF PromotersRegistered, Promoting, Waiting
<1>2. RequestsRegistered'
  <2>1. CASE SendLoad(p) \/ SendPromote(p) \/ SendReload(p)
    <3>1. task[p].v \in Registered
      BY <2>1 DEF SendLoad, SendPromote, SendReload, PromotersRegistered, Promoting
    <3>2. \A c \in calls' : c \in calls \/ c.v = task[p].v
      BY <2>1 DEF SendLoad, SendPromote, SendReload, Send
    <3> QED  BY <1>b, <3>1, <3>2 DEF RequestsRegistered
  <2>2. CASE Timeout(p)
    <3>1. \A c \in calls' : \E d \in calls : c.v = d.v
      BY <2>2 DEF Timeout, Call
    <3> QED  BY <1>b, <3>1 DEF RequestsRegistered
  <2>3. CASE ~(SendLoad(p) \/ SendPromote(p) \/ SendReload(p) \/ Timeout(p))
    <3>1. calls' = calls
      BY <2>3 DEF PromotionStep, LoadDone, PromotionFailed, StartCopy, CopyModel, CopyMetadata,
             CopyAggs, CopyFill, Copy, ReloadDone
    <3> QED  BY <1>b, <3>1 DEF RequestsRegistered
  <2> QED  BY <2>1, <2>2, <2>3
<1>3. OnlyRegisteredServed'
  <2>1. CASE CopyModel(p) \/ CopyMetadata(p) \/ CopyAggs(p) \/ CopyFill(p)
    <3>1. task[p].v \in Registered
      BY <2>1 DEF CopyModel, CopyMetadata, CopyAggs, CopyFill, Copy,
                  PromotersRegistered, Promoting
    <3>2. canon'.model \in {canon.model, task[p].v} /\ canon'.meta \in {canon.meta, task[p].v}
      BY <2>1 DEF CopyModel, CopyMetadata, CopyAggs, CopyFill, Copy, Canon
    <3>3. models' = models
      BY <2>1 DEF CopyModel, CopyMetadata, CopyAggs, CopyFill, Copy, Predictor
    <3> QED  BY <1>b, <3>1, <3>2, <3>3 DEF OnlyRegisteredServed
  <2>2. CASE ~(CopyModel(p) \/ CopyMetadata(p) \/ CopyAggs(p) \/ CopyFill(p))
    <3>1. models' = models /\ canon' = canon
      BY <2>2 DEF PromotionStep, SendLoad, LoadDone, SendPromote, PromotionFailed, StartCopy,
             SendReload, ReloadDone, Timeout, Disk, Predictor
    <3> QED  BY <1>b, <3>1, QuietServed DEF Quiet
  <2> QED  BY <2>1, <2>2
<1> QED  BY <1>1, <1>2, <1>3

\* The prediction service answers requests and moves none of them.
LEMMA ServerKeepsPlace ==
    ASSUME TypeInv, ServerStep \/ CrashPrediction
    PROVE  \A p \in Proc : task'[p].pc = task[p].pc /\ task'[p].v = task[p].v
<1> USE DEF TypeInv, TypeOK
<1>1. ASSUME NEW c \in calls, NEW reply, NEW got, Reply(c, reply, got)
      PROVE  \A p \in Proc : task'[p].pc = task[p].pc /\ task'[p].v = task[p].v
  BY <1>1 DEF Reply, Task
<1>2. CASE CrashPrediction
  BY <1>2 DEF CrashPrediction, Task
<1> QED
  BY <1>1, <1>2 DEF ServerStep, ServeShadowLoad, ServePromote, ServeReloadFeatures,
                    BeginLoad, FinishReload, FinishStart, LoadFails,
         RemoveShadowByHand, ShadowLoadFails

\* A slot is filled from a request, from the other slot or from the canonical
\* file.
LEMMA RegistryServer ==
    ASSUME TypeInv, RegistryInv, ServerStep
    PROVE  RegistryInv'
<1> USE DEF TypeInv, TypeOK, RegistryInv
<1>a. Registered' = Registered
  BY DEF ServerStep, ServeShadowLoad, ServePromote, ServeReloadFeatures, BeginLoad,
         FinishReload, FinishStart, LoadFails,
         RemoveShadowByHand, ShadowLoadFails, Disk, Registered
<1>b. \A p \in Proc : task'[p].pc = task[p].pc /\ task'[p].v = task[p].v
  BY ServerKeepsPlace
<1>c. calls' \subseteq calls
  BY DEF ServerStep, ServeShadowLoad, ServePromote, ServeReloadFeatures, BeginLoad,
         FinishReload, FinishStart, LoadFails,
         RemoveShadowByHand, ShadowLoadFails, Reply
<1>d. canon' = canon
  BY DEF ServerStep, ServeShadowLoad, ServePromote, ServeReloadFeatures, BeginLoad,
         FinishReload, FinishStart, LoadFails,
         RemoveShadowByHand, ShadowLoadFails, Disk
<1>e. {models'.primary.model, models'.shadow.model}
        \subseteq {models.primary.model, models.shadow.model, canon.model, None} \cup Registered
  <2>1. ASSUME NEW c \in calls, ServeShadowLoad(c)
        PROVE  models'.primary = models.primary /\ models'.shadow.model \in {models.shadow.model, c.v}
    BY <2>1 DEF ServeShadowLoad, LoadShadow, Manager
  <2>2. ASSUME NEW c \in calls, ServePromote(c)
        PROVE  {models'.primary.model, models'.shadow.model}
                  \subseteq {models.primary.model, models.shadow.model, None}
    BY <2>2 DEF ServePromote, PromoteShadow, EmptySlot
  <2>3. ASSUME \/ BeginLoad \/ FinishReload \/ FinishStart \/ LoadFails
               \/ RemoveShadowByHand
        PROVE  /\ models'.primary.model \in {models.primary.model, canon.model, None}
               /\ models'.shadow.model \in {models.shadow.model, None}
    <3>1. CASE BeginLoad
      BY <3>1 DEF BeginLoad, LoadModel, Manager, Slot
    <3>2. CASE FinishReload
      BY <3>2 DEF FinishReload, LoadMetadata, Manager, Slot
    <3>3. CASE FinishStart
      BY <3>3 DEF FinishStart, LoadMetadata, NoModels, EmptySlot, Manager, Slot
    <3>4. CASE RemoveShadowByHand
      BY <3>4 DEF RemoveShadowByHand, RemoveShadow, EmptySlot, Manager, Slot
    <3>5. CASE LoadFails
      BY <3>5 DEF LoadFails, NoModels, EmptySlot
    <3> QED  BY <2>3, <3>1, <3>2, <3>3, <3>4, <3>5
  <2>4. ASSUME NEW c \in calls, ServeReloadFeatures(c)
        PROVE  models' = models
    BY <2>4 DEF ServeReloadFeatures
  <2>5. \A c \in calls : c.v \in Registered
    BY DEF RequestsRegistered
  <2>6. CASE \E c \in calls : ServeShadowLoad(c)
    <3>1. PICK c \in calls : ServeShadowLoad(c)
      BY <2>6
    <3>2. c.v \in Registered
      BY <2>5
    <3>3. models'.primary = models.primary /\ models'.shadow.model \in {models.shadow.model, c.v}
      BY <2>1, <3>1
    <3> QED  BY <3>2, <3>3
  <2>7. CASE \E c \in calls : ServePromote(c) \/ ServeReloadFeatures(c)
    BY <2>2, <2>4, <2>7
  <2>8. CASE \E c \in calls : ShadowLoadFails(c)
    <3>1. PICK c \in calls : ShadowLoadFails(c)
      BY <2>8
    <3>2. models'.primary = models.primary /\ models'.shadow.model = c.v
      BY <3>1 DEF ShadowLoadFails, LoadShadowUnread, Manager, Slot
    <3> QED  BY <2>5, <3>1, <3>2
  <2> QED  BY <2>3, <2>6, <2>7, <2>8 DEF ServerStep
<1>1. PromotersRegistered'
  BY <1>a, <1>b DEF PromotersRegistered
<1>2. RequestsRegistered'
  BY <1>a, <1>c DEF RequestsRegistered
<1>3. OnlyRegisteredServed'
  BY <1>a, <1>d, <1>e DEF OnlyRegisteredServed
<1> QED  BY <1>1, <1>2, <1>3

\* What a crash leaves behind was registered before.
LEMMA RegistryCrash ==
    ASSUME TypeInv, RegistryInv, CrashRetraining \/ CrashPrediction
    PROVE  RegistryInv'
<1> USE DEF TypeInv, TypeOK, RegistryInv
<1>1. Registered' = Registered
  BY DEF CrashRetraining, CrashPrediction, Disk, Registered
<1>2. PromotersRegistered'
  BY <1>1 DEF CrashRetraining, CrashPrediction, IdleTask, PromotersRegistered, Promoting,
              Waiting, Task
<1>3. \A c \in calls' : \E d \in calls : c.v = d.v
  BY DEF CrashRetraining, CrashPrediction, Call
<1>4. OnlyRegisteredServed'
  BY <1>1 DEF CrashRetraining, CrashPrediction, Disk, Predictor, NoModels, EmptySlot,
              OnlyRegisteredServed
<1> QED  BY <1>1, <1>2, <1>3, <1>4 DEF RequestsRegistered

LEMMA RegistryStutter ==
    ASSUME RegistryInv, UNCHANGED vars
    PROVE  RegistryInv'
BY DEF RegistryInv, PromotersRegistered, RequestsRegistered, OnlyRegisteredServed,
       Registered, vars

LEMMA RegistryInductive == Spec => []RegistryInv
<1>1. TypeInv /\ RegistryInv /\ [Next]_vars => RegistryInv'
  BY RegistryJob, RegistryCaller, RegistryPromotion, RegistryServer, RegistryCrash,
     RegistryStutter DEF Next
<1> QED  BY TypeInductive, RegistryInit, <1>1, PTL DEF Spec

\* No unregistered version is ever primary, shadow or canonical: not after an
\* aborted cycle, a crash at any point, or a request served after its sender
\* gave up.
THEOREM ServedIsRegistered == Spec => []OnlyRegisteredServed
BY RegistryInductive, PTL DEF RegistryInv

-----------------------------------------------------------------------------
(* Promoted models carry their own metadata *)

\* What is registered has its model and its metadata on disk.
RegisteredAreSaved == Registered \subseteq files.model \cap files.meta

\* A job has written them by the time it registers.
JobsSave ==
    \A p \in Proc :
        /\ task[p].pc \in Saving \ {"save_model"} => task[p].v \in files.model
        /\ task[p].pc \in Saving \ {"save_model", "save_meta"} => task[p].v \in files.meta

\* Only a canonical model is ever given the canonical metadata.
LoadIsCanonical ==
    phase \in {"starting", "reloading"} => models.primary.from = "canonical"

WholeInv == RegisteredAreSaved /\ JobsSave /\ LoadIsCanonical /\ PromotedIsWhole

\* PromotedIsWhole, for one slot.
SlotWhole(slot) ==
    (slot.from = "versioned" /\ slot.model \notin unread) => RuntimeVersion(slot) = slot.model

LEMMA EmptyIsWhole == SlotWhole(EmptySlot)
BY DEF SlotWhole, EmptySlot, RuntimeVersion

LEMMA CanonicalIsWhole ==
    ASSUME NEW slot, slot.from = "canonical"
    PROVE  SlotWhole(slot)
BY DEF SlotWhole

LEMMA WholeInit == Init => WholeInv
<1> SUFFICES ASSUME Init PROVE WholeInv
  OBVIOUS
<1>1. RegisteredAreSaved /\ JobsSave /\ LoadIsCanonical
  BY DEF Init, RegisteredAreSaved, JobsSave, Saving, IdleTask, LoadIsCanonical
<1>2. PromotedIsWhole
  <2>1. models.primary.from = "canonical" /\ models.shadow = EmptySlot
    BY DEF Init, LoadMetadata, LoadModel, NoModels, EmptySlot
  <2> QED  BY <2>1, EmptyIsWhole, CanonicalIsWhole DEF SlotWhole, PromotedIsWhole
<1> QED  BY <1>1, <1>2 DEF WholeInv

\* A cycle begins with training.
LEMMA StartTrains ==
    ASSUME task \in [Proc -> Task], NEW j \in Proc,
           StartCycle(j, "retrain") \/ StartCycle(j, "upload")
    PROVE  task'[j].pc = "train"
<1>1. PICK kind, v : task' = [task EXCEPT ![j] = [IdleTask EXCEPT !.kind = kind,
                                                                  !.pc = "train", !.v = v]]
  BY DEF StartCycle
<1>2. task'[j] = [IdleTask EXCEPT !.kind = kind, !.pc = "train", !.v = v]
  BY <1>1
<1>3. [IdleTask EXCEPT !.kind = kind, !.pc = "train", !.v = v].pc = "train"
  BY DEF IdleTask
<1> QED  BY <1>2, <1>3

\* The order of the steps of a cycle: model, metadata, registration.
LEMMA WholeJob ==
    ASSUME TypeInv, WholeInv, NEW j \in Job, JobStep(j)
    PROVE  WholeInv'
<1> USE DEF TypeInv, TypeOK, WholeInv
<1>a. j \in Proc /\ task[j] \in Task /\ IdleTask.pc = "idle"
  BY DEF Proc, IdleTask
<1>b. phase' = phase /\ models' = models /\ unread' = unread
  BY DEF JobStep, StartCycle, Train, FailCycle, SaveModel, SaveMetadata, OpenAggs, CloseAggs,
         OpenFill, CloseFill, SkipAggs, CompareChampion, Register, TriggerPipeline, Predictor
<1>c. files.model \subseteq files'.model /\ files.meta \subseteq files'.meta
  <2>1. CASE SaveModel(j) \/ SaveMetadata(j) \/ OpenAggs(j) \/ OpenFill(j)
    BY <2>1 DEF SaveModel, SaveMetadata, OpenAggs, OpenFill, Files
  <2>2. CASE ~(SaveModel(j) \/ SaveMetadata(j) \/ OpenAggs(j) \/ OpenFill(j))
    BY <2>2 DEF JobStep, StartCycle, Train, FailCycle, CloseAggs, CloseFill, SkipAggs,
           CompareChampion, Register, TriggerPipeline, Disk
  <2> QED  BY <2>1, <2>2
<1>d. \A p \in Proc \ {j} : task'[p] = task[p]
  BY DEF JobStep, StartCycle, Train, FailCycle, SaveModel, SaveMetadata, OpenAggs, CloseAggs,
         OpenFill, CloseFill, SkipAggs, CompareChampion, Register, TriggerPipeline,
         Goto, Finish
<1>e. /\ task'[j].pc \in Saving \ {"save_model"} => task'[j].v \in files'.model
      /\ task'[j].pc \in Saving \ {"save_model", "save_meta"} => task'[j].v \in files'.meta
  <2>1. CASE \/ StartCycle(j, "retrain") \/ StartCycle(j, "upload") \/ Train(j)
             \/ FailCycle(j) \/ TriggerPipeline(j)
    <3>1. CASE StartCycle(j, "retrain") \/ StartCycle(j, "upload")
      <4>1. task'[j].pc = "train"
        BY <1>a, <3>1, StartTrains
      <4> QED  BY <4>1 DEF Saving
    <3>2. CASE Train(j)
      <4>1. task'[j].pc = "save_model"
        BY <1>a, <3>2 DEF Train, Task
      <4> QED  BY <4>1
    <3>3. CASE FailCycle(j) \/ TriggerPipeline(j)
      BY <1>a, <3>3 DEF FailCycle, TriggerPipeline, Finish, Saving
    <3> QED  BY <2>1, <3>1, <3>2, <3>3
  <2>2. CASE SaveModel(j)
    BY <1>a, <2>2 DEF SaveModel, Goto, Files, Task
  <2>3. CASE SaveMetadata(j)
    BY <1>a, <2>3 DEF SaveMetadata, Goto, Files, Task, JobsSave, Saving
  <2>4. CASE \/ OpenAggs(j) \/ CloseAggs(j) \/ OpenFill(j) \/ CloseFill(j) \/ SkipAggs(j)
             \/ CompareChampion(j)
    <3>1. task[j].v \in files.model /\ task[j].v \in files.meta
      BY <1>a, <2>4 DEF OpenAggs, CloseAggs, OpenFill, CloseFill, SkipAggs, CompareChampion,
             JobsSave, Saving
    <3>2. task'[j].v = task[j].v
      BY <1>a, <2>4 DEF OpenAggs, CloseAggs, OpenFill, CloseFill, SkipAggs, CompareChampion,
             Goto, Task
    <3> QED  BY <1>c, <3>1, <3>2
  <2>5. CASE Register(j)
    BY <1>a, <2>5 DEF Register, Finish, Saving, Task
  <2> QED  BY <2>1, <2>2, <2>3, <2>4, <2>5 DEF JobStep
<1>1. RegisteredAreSaved'
  <2>1. CASE Register(j)
    <3>1. task[j].v \in files.model /\ task[j].v \in files.meta
      BY <1>a, <2>1 DEF Register, JobsSave, Saving
    <3>2. Registered' \subseteq Registered \cup {task[j].v}
      BY <1>a, <2>1 DEF Register, Registered
    <3> QED  BY <1>c, <3>1, <3>2 DEF RegisteredAreSaved
  <2>2. CASE ~Register(j)
    <3>1. registry' = registry
      BY <2>2 DEF JobStep, StartCycle, Train, FailCycle, SaveModel, SaveMetadata, OpenAggs,
             CloseAggs, OpenFill, CloseFill, SkipAggs, CompareChampion, TriggerPipeline, Disk
    <3> QED  BY <1>c, <3>1 DEF RegisteredAreSaved, Registered
  <2> QED  BY <2>1, <2>2
<1>2. JobsSave'
  BY <1>c, <1>d, <1>e DEF JobsSave
<1>3. LoadIsCanonical' /\ PromotedIsWhole'
  BY <1>b DEF LoadIsCanonical, PromotedIsWhole
<1> QED  BY <1>1, <1>2, <1>3

\* Outside a cycle no request enters the middle of one.
LEMMA SavingKept ==
    ASSUME TypeInv,
           \/ \E c \in Caller : CallerStep(c)
           \/ \E p \in Proc : PromotionStep(p)
           \/ CrashRetraining
    PROVE  \A p \in Proc : task'[p].pc \in Saving => task'[p] = task[p]
<1> USE DEF TypeInv, TypeOK
<1> DEFINE KeepsSaving == \A p \in Proc : task'[p].pc \in Saving => task'[p] = task[p]
<1>1. ASSUME NEW c \in Caller, CallerStep(c) PROVE KeepsSaving
  <2>1. \A p \in Proc \ {c} : task'[p] = task[p]
    BY <1>1 DEF CallerStep, AcceptCall
  <2>2. c \in Proc /\ task'[c].pc = "load"
    BY <1>1 DEF CallerStep, AcceptCall, IdleTask, Proc
  <2> QED  BY <2>1, <2>2 DEF Saving
<1>2. ASSUME NEW q \in Proc, PromotionStep(q) PROVE KeepsSaving
  <2>1. \A p \in Proc \ {q} : task'[p] = task[p]
    BY <1>2 DEF PromotionStep, SendLoad, LoadDone, SendPromote, PromotionFailed, StartCopy,
           CopyModel, CopyMetadata, CopyAggs, CopyFill, Copy, SendReload, ReloadDone,
           Timeout, Goto, Finish, Send
  <2>2. task'[q].pc \in Promoting \cup {"idle"}
    <3>1. CASE LoadDone(q) \/ PromotionFailed(q) \/ ReloadDone(q)
      BY <3>1 DEF LoadDone, PromotionFailed, ReloadDone, Goto, Finish, IdleTask, Promoting, Task
    <3>2. CASE SendLoad(q) \/ SendPromote(q) \/ SendReload(q) \/ Timeout(q)
      BY <3>2 DEF SendLoad, SendPromote, SendReload, Send, Timeout, Promoting, Waiting, Task
    <3>3. CASE \/ StartCopy(q) \/ CopyModel(q) \/ CopyMetadata(q) \/ CopyAggs(q)
               \/ CopyFill(q)
      BY <3>3 DEF StartCopy, CopyModel, CopyMetadata, CopyAggs, CopyFill, Copy, Goto,
             Promoting, Task
    <3> QED  BY <1>2, <3>1, <3>2, <3>3 DEF PromotionStep
  <2> QED  BY <2>1, <2>2 DEF Saving, Promoting, Waiting
<1>3. CASE CrashRetraining
  BY <1>3 DEF CrashRetraining, IdleTask, Saving
<1> QED  BY <1>1, <1>2, <1>3

\* No request handler and no crash deletes an artifact.
LEMMA WholeElsewhere ==
    ASSUME TypeInv, WholeInv,
           \/ \E c \in Caller : CallerStep(c)
           \/ \E p \in Proc : PromotionStep(p)
           \/ CrashRetraining
    PROVE  WholeInv'
<1> USE DEF TypeInv, TypeOK, WholeInv
<1>1. /\ files' = files /\ registry' = registry
      /\ phase' = phase /\ models' = models /\ unread' = unread
  BY DEF CallerStep, AcceptCall, PromotionStep, SendLoad, LoadDone, SendPromote,
         PromotionFailed, StartCopy, CopyModel, CopyMetadata, CopyAggs, CopyFill, Copy,
         SendReload, ReloadDone, Timeout, CrashRetraining, Disk, Predictor
<1>2. \A p \in Proc : task'[p].pc \in Saving => task'[p] = task[p]
  BY SavingKept
<1>3. RegisteredAreSaved' /\ LoadIsCanonical' /\ PromotedIsWhole'
  BY <1>1 DEF RegisteredAreSaved, Registered, LoadIsCanonical, PromotedIsWhole
<1>4. JobsSave'
  BY <1>1, <1>2 DEF JobsSave
<1> QED  BY <1>3, <1>4

\* A shadow is loaded with its own metadata, since a request names a
\* registered version, or is one whose metadata could not be read; the primary
\* is loaded in two halves only from the canonical files.
LEMMA WholeServer ==
    ASSUME TypeInv, RegistryInv, WholeInv, ServerStep \/ CrashPrediction
    PROVE  WholeInv'
<1> USE DEF TypeInv, TypeOK, WholeInv
<1>a. files' = files /\ registry' = registry
  BY DEF ServerStep, ServeShadowLoad, ServePromote, ServeReloadFeatures, BeginLoad,
         FinishReload, FinishStart, LoadFails,
         RemoveShadowByHand, ShadowLoadFails, CrashPrediction, Disk
<1>b. \A p \in Proc : task'[p].pc = task[p].pc /\ task'[p].v = task[p].v
  BY ServerKeepsPlace
<1>u. unread \subseteq unread'
  BY DEF ServerStep, ServeShadowLoad, ServePromote, ServeReloadFeatures, BeginLoad,
         FinishReload, FinishStart, LoadFails,
         RemoveShadowByHand, ShadowLoadFails, CrashPrediction
<1>w. /\ SlotWhole(models.primary) /\ SlotWhole(models.shadow)
      /\ SlotWhole(models'.primary) /\ SlotWhole(models'.shadow) => PromotedIsWhole'
  BY <1>u DEF SlotWhole, PromotedIsWhole
<1>1. RegisteredAreSaved' /\ JobsSave'
  BY <1>a, <1>b DEF RegisteredAreSaved, Registered, JobsSave
<1>2. ASSUME NEW c \in calls, ServeShadowLoad(c) PROVE LoadIsCanonical' /\ PromotedIsWhole'
  <2>1. c.v \in files.meta /\ c.v \in Version
    BY DEF RegistryInv, RequestsRegistered, RegisteredAreSaved, Registered
  <2>2. CASE models' = models
    BY <1>2, <2>2 DEF ServeShadowLoad, LoadIsCanonical, PromotedIsWhole
  <2>3. CASE models' = LoadShadow(models, c.v, c.v \in files.meta)
    <3>1. /\ models'.primary = models.primary
          /\ models'.shadow = [model |-> c.v, meta |-> c.v, from |-> "versioned"]
      BY <2>1, <2>3 DEF LoadShadow, Manager
    <3>2. RuntimeVersion(models'.shadow) = c.v
      BY <2>1, <3>1, PromotionAssumption DEF RuntimeVersion, Known
    <3> QED  BY <1>2, <3>1, <3>2 DEF ServeShadowLoad, LoadIsCanonical, PromotedIsWhole
  <2> QED  BY <1>2, <2>2, <2>3 DEF ServeShadowLoad
<1>3. ASSUME NEW c \in calls, ServePromote(c) PROVE LoadIsCanonical' /\ PromotedIsWhole'
  <2>1. RuntimeVersion(EmptySlot) = EmptySlot.model
    BY DEF RuntimeVersion, EmptySlot
  <2>2. models' = models \/ (models'.primary = models.shadow /\ models'.shadow = EmptySlot)
    BY <1>3 DEF ServePromote, PromoteShadow
  <2> QED  BY <1>3, <2>1, <2>2 DEF ServePromote, LoadIsCanonical, PromotedIsWhole
<1>4. ASSUME NEW c \in calls, ServeReloadFeatures(c) PROVE LoadIsCanonical' /\ PromotedIsWhole'
  BY <1>4 DEF ServeReloadFeatures, LoadIsCanonical, PromotedIsWhole
<1>5. CASE BeginLoad
  <2>1. models'.primary.from = "canonical" /\ models'.shadow = models.shadow
    BY <1>5 DEF BeginLoad, LoadModel, Manager, Slot
  <2> QED  BY <1>1, <1>w, <2>1, CanonicalIsWhole DEF LoadIsCanonical
<1>6. CASE FinishReload \/ FinishStart \/ CrashPrediction
  <2>1. \/ models' = NoModels /\ phase' = "down"
        \/ models' = LoadMetadata(models, canon.meta) /\ models.primary.from = "canonical"
    <3>1. CASE FinishReload
      BY <3>1 DEF FinishReload, LoadIsCanonical
    <3>2. CASE FinishStart
      BY <3>2 DEF FinishStart, LoadIsCanonical
    <3>3. CASE CrashPrediction
      BY <3>3 DEF CrashPrediction
    <3> QED  BY <1>6, <3>1, <3>2, <3>3
  <2>2. CASE models' = NoModels /\ phase' = "down"
    <3>1. models'.primary = EmptySlot /\ models'.shadow = EmptySlot
      BY <2>2 DEF NoModels
    <3> QED  BY <1>1, <1>w, <2>2, <3>1, EmptyIsWhole DEF LoadIsCanonical
  <2>3. CASE models' = LoadMetadata(models, canon.meta) /\ models.primary.from = "canonical"
    <3>1. models'.primary.from = "canonical" /\ models'.shadow = models.shadow
      BY <2>3 DEF LoadMetadata, Manager, Slot
    <3> QED  BY <1>1, <1>w, <3>1, CanonicalIsWhole DEF LoadIsCanonical
  <2> QED  BY <2>1, <2>2, <2>3
<1>7. CASE RemoveShadowByHand
  <2>1. models'.primary = models.primary /\ models'.shadow = EmptySlot /\ phase' = phase
    BY <1>7 DEF RemoveShadowByHand, RemoveShadow, Manager
  <2> QED  BY <1>1, <1>w, <2>1, EmptyIsWhole DEF LoadIsCanonical
<1>8. ASSUME NEW c \in calls, ShadowLoadFails(c) PROVE LoadIsCanonical' /\ PromotedIsWhole'
  <2>1. /\ models'.primary = models.primary /\ phase' = phase
        /\ models'.shadow.model = c.v /\ c.v \in unread'
    BY <1>8 DEF ShadowLoadFails, LoadShadowUnread, Manager, Slot
  <2> QED  BY <1>u, <2>1 DEF LoadIsCanonical, PromotedIsWhole
<1>9. CASE LoadFails
  <2>1. CASE models' = models /\ phase' = "up"
    BY <1>1, <1>w, <2>1 DEF LoadIsCanonical
  <2>2. CASE models' = NoModels /\ phase' = "down"
    <3>1. models'.primary = EmptySlot /\ models'.shadow = EmptySlot
      BY <2>2 DEF NoModels
    <3> QED  BY <1>1, <1>w, <2>2, <3>1, EmptyIsWhole DEF LoadIsCanonical
  <2> QED  BY <1>9, <2>1, <2>2 DEF LoadFails
<1> QED
  BY <1>1, <1>2, <1>3, <1>4, <1>5, <1>6, <1>7, <1>8, <1>9 DEF ServerStep

LEMMA WholeStutter ==
    ASSUME WholeInv, UNCHANGED vars
    PROVE  WholeInv'
BY DEF WholeInv, RegisteredAreSaved, Registered, JobsSave, LoadIsCanonical,
       PromotedIsWhole, vars

LEMMA WholeInductive == Spec => []WholeInv
<1>1. TypeInv /\ RegistryInv /\ WholeInv /\ [Next]_vars => WholeInv'
  BY WholeJob, WholeElsewhere, WholeServer, WholeStutter DEF Next
<1> QED  BY TypeInductive, RegistryInductive, WholeInit, <1>1, PTL DEF Spec

\* The version under which forecasts are stored is that of the model that
\* computed them, for every model that was loaded as shadow or promoted and
\* whose own metadata could be read: artifacts are complete before a version
\* can be named in a request, and a load that fails half-way misnames nothing
\* but the model it was loading.
THEOREM PromotedModelsAreWhole == Spec => []PromotedIsWhole
BY WholeInductive, PTL DEF WholeInv

-----------------------------------------------------------------------------
(* What is offered for Team Track loads *)

\* A version is ready only when both tables are on disk.
ReadyAreSaved == ready \subseteq files.aggs \cap files.fill

\* A job has written a table by the time it goes on to the next.
TablesSave ==
    \A p \in Proc :
        /\ task[p].pc \in {"close_aggs", "save_fill", "close_fill"} => task[p].v \in files.aggs
        /\ task[p].pc = "close_fill" => task[p].v \in files.fill

BundleInv == ReadyAreSaved /\ TablesSave

LEMMA BundleInit == Init => BundleInv
BY DEF Init, BundleInv, ReadyAreSaved, TablesSave, IdleTask

\* The order of the steps of save_static_aggs, and that the version is marked
\* ready after the last of them.
LEMMA BundleJob ==
    ASSUME TypeInv, BundleInv, NEW j \in Job, JobStep(j)
    PROVE  BundleInv'
<1> USE DEF TypeInv, TypeOK, BundleInv
<1>a. j \in Proc /\ task[j] \in Task /\ IdleTask.pc = "idle"
  BY DEF Proc, IdleTask
<1>b. files.aggs \subseteq files'.aggs /\ files.fill \subseteq files'.fill
  <2>1. CASE SaveModel(j) \/ SaveMetadata(j) \/ OpenAggs(j) \/ OpenFill(j)
    BY <2>1 DEF SaveModel, SaveMetadata, OpenAggs, OpenFill, Files
  <2>2. CASE ~(SaveModel(j) \/ SaveMetadata(j) \/ OpenAggs(j) \/ OpenFill(j))
    BY <2>2 DEF JobStep, StartCycle, Train, FailCycle, CloseAggs, CloseFill, SkipAggs,
           CompareChampion, Register, TriggerPipeline, Disk
  <2> QED  BY <2>1, <2>2
<1>c. \A p \in Proc \ {j} : task'[p] = task[p]
  BY DEF JobStep, StartCycle, Train, FailCycle, SaveModel, SaveMetadata, OpenAggs, CloseAggs,
         OpenFill, CloseFill, SkipAggs, CompareChampion, Register, TriggerPipeline,
         Goto, Finish
<1>d. /\ task'[j].pc \in {"close_aggs", "save_fill", "close_fill"} => task'[j].v \in files'.aggs
      /\ task'[j].pc = "close_fill" => task'[j].v \in files'.fill
  <2>1. CASE OpenAggs(j)
    BY <1>a, <2>1 DEF OpenAggs, Goto, Files, Task
  <2>2. CASE CloseAggs(j) \/ OpenFill(j)
    <3>1. task[j].v \in files.aggs /\ task'[j].v = task[j].v
      BY <1>a, <2>2 DEF CloseAggs, OpenFill, Goto, TablesSave, Task
    <3>2. CASE CloseAggs(j)
      BY <1>a, <1>b, <3>1, <3>2 DEF CloseAggs, Goto, Task
    <3>3. CASE OpenFill(j)
      BY <1>a, <1>b, <3>1, <3>3 DEF OpenFill, Goto, Files, Task
    <3> QED  BY <2>2, <3>2, <3>3
  <2>3. CASE StartCycle(j, "retrain") \/ StartCycle(j, "upload")
    <3>1. task'[j].pc = "train"
      BY <1>a, <2>3, StartTrains
    <3> QED  BY <3>1
  <2>4. CASE \/ Train(j) \/ FailCycle(j) \/ SaveModel(j) \/ SaveMetadata(j) \/ CloseFill(j)
             \/ SkipAggs(j) \/ CompareChampion(j) \/ Register(j) \/ TriggerPipeline(j)
    <3>1. task'[j].pc \in {"save_model", "save_meta", "save_aggs", "compare", "register",
                           "load", "idle"}
      BY <1>a, <2>4 DEF Train, FailCycle, SaveModel, SaveMetadata, CloseFill, SkipAggs,
             CompareChampion, Register, TriggerPipeline, Goto, Finish, Task
    <3> QED  BY <3>1
  <2> QED  BY <2>1, <2>2, <2>3, <2>4 DEF JobStep
<1>1. ReadyAreSaved'
  <2>1. CASE CloseFill(j)
    BY <1>a, <1>b, <2>1 DEF CloseFill, ReadyAreSaved, TablesSave
  <2>2. CASE ~CloseFill(j)
    <3>1. ready' = ready
      BY <2>2 DEF JobStep, StartCycle, Train, FailCycle, SaveModel, SaveMetadata, OpenAggs,
             CloseAggs, OpenFill, SkipAggs, CompareChampion, Register, TriggerPipeline, Disk
    <3> QED  BY <1>b, <3>1 DEF ReadyAreSaved
  <2> QED  BY <2>1, <2>2
<1>2. TablesSave'
  BY <1>b, <1>c, <1>d DEF TablesSave
<1> QED  BY <1>1, <1>2

\* Nothing else writes a table of a version or marks one ready.
LEMMA BundleElsewhere ==
    ASSUME TypeInv, BundleInv,
           \/ \E c \in Caller : CallerStep(c)
           \/ \E p \in Proc : PromotionStep(p)
           \/ ServerStep \/ CrashRetraining \/ CrashPrediction
    PROVE  BundleInv'
<1>1. files' = files /\ ready' = ready
  BY DEF CallerStep, AcceptCall, PromotionStep, SendLoad, LoadDone, SendPromote,
         PromotionFailed, StartCopy, CopyModel, CopyMetadata, CopyAggs, CopyFill, Copy,
         SendReload, ReloadDone, Timeout, ServerStep, ServeShadowLoad, ServePromote,
         ServeReloadFeatures, BeginLoad, FinishReload, FinishStart, LoadFails,
         RemoveShadowByHand, ShadowLoadFails,
         CrashRetraining, CrashPrediction, Disk
<1>2. \A p \in Proc : task'[p].pc \in Saving =>
         task'[p].pc = task[p].pc /\ task'[p].v = task[p].v
  BY SavingKept, ServerKeepsPlace
<1>3. {"close_aggs", "save_fill", "close_fill"} \subseteq Saving
  BY DEF Saving
<1> QED  BY <1>1, <1>2, <1>3 DEF BundleInv, ReadyAreSaved, TablesSave

LEMMA BundleInductive == Spec => []BundleInv
<1>1. BundleInv /\ UNCHANGED vars => BundleInv'
  BY DEF BundleInv, ReadyAreSaved, TablesSave, vars
<1>2. TypeInv /\ BundleInv /\ [Next]_vars => BundleInv'
  BY BundleJob, BundleElsewhere, <1>1 DEF Next
<1> QED  BY TypeInductive, BundleInit, <1>2, PTL DEF Spec

\* A version that Team Track offers has all four of its own files, whatever
\* was lost or cut short on the way: it is offered only once it is registered,
\* with model and metadata saved, and marked ready, with both tables saved.
THEOREM WhatIsOfferedLoads == Spec => []OfferedCanBeLoaded
<1>1. TypeInv /\ WholeInv /\ BundleInv => OfferedCanBeLoaded
  <2> SUFFICES ASSUME TypeInv, WholeInv, BundleInv, NEW v \in Offered
               PROVE  Bundle(v) = [model |-> v, meta |-> v, aggs |-> v, fill |-> v]
    BY DEF OfferedCanBeLoaded
  <2>1. v \in Version /\ v # None
    BY PromotionAssumption DEF Offered, Registered, Known
  <2>2. /\ v \in files.model /\ v \in files.meta
        /\ v \in files.aggs /\ v \in files.fill
    BY DEF Offered, WholeInv, RegisteredAreSaved, BundleInv, ReadyAreSaved
  <2> QED  BY <2>1, <2>2 DEF Bundle
<1> QED  BY TypeInductive, WholeInductive, BundleInductive, <1>1, PTL
=============================================================================
