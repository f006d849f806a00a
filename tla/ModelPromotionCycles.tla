------------------------ MODULE ModelPromotionCycles ------------------------
(* What a training cycle relies on while it holds _retrain_lock, what is     *)
(* published for the next restart, and that the protocol implements the      *)
(* slots of the prediction service, for any versions, scores, requests and   *)
(* disturbances.                                                             *)
EXTENDS ModelPromotionProofs

-----------------------------------------------------------------------------
(* The lock *)

\* A cycle runs only under the lock, so there is one at a time.
CyclesLocked == \A j \in Job : task[j].pc # "idle" => lock = j

\* A score is better than all that are registered.
BeatsAll(score, others) == \A v \in others : score < registry[v]

\* The outcome of the comparison is still true when the cycle registers, and a
\* retrain goes on only with a better challenger.
ComparisonStands(j) ==
    /\ (task[j].pc = "register" /\ task[j].better) => BeatsAll(task[j].score, Registered)
    /\ (task[j].kind = "retrain" /\ task[j].pc \in {"load", "load_wait"}) =>
           BeatsAll(registry[task[j].v], Registered \ {task[j].v})

LockInv == CyclesLocked /\ \A j \in Job : ComparisonStands(j)

\* What the steps of a job leave alone.
LEMMA JobFrame ==
    ASSUME NEW j \in Job, JobStep(j), TypeInv
    PROVE  /\ \A p \in Proc \ {j} : task'[p] = task[p]
           /\ calls' = calls /\ phase' = phase /\ models' = models /\ engine' = engine
           /\ loop' = loop
           /\ canon'.model = canon.model /\ canon'.meta = canon.meta
           /\ faults.kinds \subseteq faults'.kinds
<1>1. \A p \in Proc \ {j} : task'[p] = task[p]
  BY DEF TypeInv, TypeOK, JobStep, StartCycle, Train, FailCycle, SaveModel, SaveMetadata, OpenAggs, CloseAggs,
         OpenFill, CloseFill, SkipAggs, CompareChampion, Register, TriggerPipeline,
         Goto, Finish
<1>4. calls' = calls /\ loop' = loop
  BY DEF JobStep, StartCycle, Train, FailCycle, SaveModel, SaveMetadata, OpenAggs, CloseAggs,
         OpenFill, CloseFill, SkipAggs, CompareChampion, Register, TriggerPipeline
<1>5. phase' = phase /\ models' = models /\ engine' = engine
  BY DEF JobStep, StartCycle, Train, FailCycle, SaveModel, SaveMetadata, OpenAggs, CloseAggs,
         OpenFill, CloseFill, SkipAggs, CompareChampion, Register, TriggerPipeline, Predictor
<1>2. canon'.model = canon.model /\ canon'.meta = canon.meta
  <2>1. CASE OpenAggs(j) \/ CloseAggs(j) \/ OpenFill(j) \/ CloseFill(j)
    BY <2>1 DEF OpenAggs, CloseAggs, OpenFill, CloseFill, TypeInv, TypeOK, Canon
  <2>2. CASE ~(OpenAggs(j) \/ CloseAggs(j) \/ OpenFill(j) \/ CloseFill(j))
    BY <2>2 DEF JobStep, StartCycle, Train, FailCycle, SaveModel, SaveMetadata, SkipAggs,
           CompareChampion, Register, TriggerPipeline, Disk
  <2> QED  BY <2>1, <2>2
<1>3. faults.kinds \subseteq faults'.kinds
  <2>1. CASE FailCycle(j) \/ SkipAggs(j)
    BY <2>1 DEF FailCycle, SkipAggs, Disturb
  <2>2. CASE ~(FailCycle(j) \/ SkipAggs(j))
    BY <2>2 DEF JobStep, StartCycle, Train, SaveModel, SaveMetadata, OpenAggs, CloseAggs,
           OpenFill, CloseFill, CompareChampion, Register, TriggerPipeline
  <2> QED  BY <2>1, <2>2
<1> QED  BY <1>1, <1>2, <1>3, <1>4, <1>5

\* What the steps of a promotion leave alone.
LEMMA PromotionFrame ==
    ASSUME NEW p \in Proc, PromotionStep(p), TypeInv
    PROVE  /\ \A q \in Proc \ {p} : task'[q] = task[q]
           /\ registry' = registry /\ files' = files
           /\ phase' = phase /\ models' = models /\ engine' = engine
           /\ faults.kinds \subseteq faults'.kinds
           /\ lock' = lock \/ (lock = p /\ lock' = None /\ task'[p] = IdleTask)
           /\ task[p].pc \in Promoting
           /\ \/ task'[p] = IdleTask
              \/ /\ task'[p].kind = task[p].kind /\ task'[p].v = task[p].v
                 /\ task'[p].pc \in Promoting
<1> USE DEF TypeInv, TypeOK
<1>1. /\ \A q \in Proc \ {p} : task'[q] = task[q]
      /\ registry' = registry /\ files' = files
      /\ phase' = phase /\ models' = models /\ engine' = engine
  BY DEF PromotionStep, SendLoad, LoadDone, SendPromote, PromotionFailed, StartCopy, CopyModel,
         CopyMetadata, CopyAggs, CopyFill, Copy, SendReload, ReloadDone, Timeout, Disk, Predictor,
         Goto, Finish, Send
<1>2. faults.kinds \subseteq faults'.kinds
  BY DEF PromotionStep, SendLoad, LoadDone, SendPromote, PromotionFailed, StartCopy, CopyModel,
         CopyMetadata, CopyAggs, CopyFill, Copy, SendReload, ReloadDone, Timeout, Disturb
<1>3. lock' = lock \/ (lock = p /\ lock' = None /\ task'[p] = IdleTask)
  BY DEF PromotionStep, SendLoad, LoadDone, SendPromote, PromotionFailed, StartCopy, CopyModel,
         CopyMetadata, CopyAggs, CopyFill, Copy, SendReload, ReloadDone, Timeout, Finish
<1>4. task[p].pc \in Promoting
  BY DEF PromotionStep, SendLoad, LoadDone, SendPromote, PromotionFailed, StartCopy, CopyModel,
         CopyMetadata, CopyAggs, CopyFill, Copy, SendReload, ReloadDone, Timeout, Promoting,
         Waiting
<1>5. \/ task'[p] = IdleTask
      \/ /\ task'[p].kind = task[p].kind /\ task'[p].v = task[p].v
         /\ task'[p].pc \in Promoting
  <2>1. CASE LoadDone(p) \/ PromotionFailed(p) \/ ReloadDone(p)
    BY <2>1 DEF LoadDone, PromotionFailed, ReloadDone, Goto, Finish, Promoting, Task
  <2>2. CASE SendLoad(p) \/ SendPromote(p) \/ SendReload(p) \/ Timeout(p)
    BY <2>2 DEF SendLoad, SendPromote, SendReload, Send, Timeout, Promoting, Waiting, Task
  <2>3. CASE \/ StartCopy(p) \/ CopyModel(p) \/ CopyMetadata(p) \/ CopyAggs(p)
             \/ CopyFill(p)
    BY <2>3 DEF StartCopy, CopyModel, CopyMetadata, CopyAggs, CopyFill, Copy, Goto,
           Promoting, Task
  <2> QED  BY <2>1, <2>2, <2>3 DEF PromotionStep
<1> QED  BY <1>1, <1>2, <1>3, <1>4, <1>5

\* The prediction service answers requests and changes nothing else of them.
LEMMA ServerFrame ==
    ASSUME ServerStep \/ CrashPrediction, TypeInv
    PROVE  /\ \A p \in Proc : /\ task'[p].pc = task[p].pc /\ task'[p].v = task[p].v
                             /\ task'[p].kind = task[p].kind
                             /\ task'[p].score = task[p].score
                             /\ task'[p].better = task[p].better
           /\ lock' = lock /\ loop' = loop /\ registry' = registry /\ canon' = canon
           /\ files' = files /\ faults.kinds \subseteq faults'.kinds
<1> USE DEF TypeInv, TypeOK
<1> DEFINE Kept(p) == /\ task'[p].pc = task[p].pc /\ task'[p].v = task[p].v
                      /\ task'[p].kind = task[p].kind
                      /\ task'[p].score = task[p].score
                      /\ task'[p].better = task[p].better
<1>1. ASSUME NEW c \in calls, NEW reply, NEW got, Reply(c, reply, got)
      PROVE  \A p \in Proc : Kept(p)
  BY <1>1 DEF Reply, Task
<1>2. CASE CrashPrediction
  <2>1. \A p \in Proc : Kept(p)
    BY <1>2 DEF CrashPrediction, Task
  <2> QED  BY <1>2, <2>1 DEF CrashPrediction, Disk, Disturb
<1>3. CASE ServerStep
  <2>1. \A p \in Proc : Kept(p)
    <3>1. CASE \E c \in calls : ServeShadowLoad(c) \/ ServePromote(c) \/ ServeReloadFeatures(c)
      <4>1. \E c \in calls : \E reply, got : Reply(c, reply, got)
        BY <3>1 DEF ServeShadowLoad, ServePromote, ServeReloadFeatures
      <4> HIDE DEF Kept
      <4> QED  BY <1>1, <4>1
    <3>2. CASE BeginLoad \/ FinishReload \/ FinishStart \/ LoadFails \/ RemoveShadowByHand
      BY <3>2 DEF BeginLoad, FinishReload, FinishStart, LoadFails, RemoveShadowByHand
    <3>3. CASE \E c \in calls : ShadowLoadFails(c)
      <4>1. \E c \in calls : Reply(c, "err", None)
        BY <3>3 DEF ShadowLoadFails
      <4> HIDE DEF Kept
      <4> QED  BY <1>1, <4>1
    <3> QED  BY <1>3, <3>1, <3>2, <3>3 DEF ServerStep
  <2>2. /\ lock' = lock /\ loop' = loop /\ registry' = registry /\ canon' = canon
        /\ files' = files /\ faults.kinds \subseteq faults'.kinds
    BY <1>3 DEF ServerStep, ServeShadowLoad, ServePromote, ServeReloadFeatures, BeginLoad,
         FinishReload, FinishStart, LoadFails, RemoveShadowByHand, ShadowLoadFails, Disk,
         Disturb
  <2> QED  BY <2>1, <2>2
<1> QED  BY <1>2, <1>3

LEMMA LockInit == Init => LockInv
BY DEF Init, LockInv, CyclesLocked, ComparisonStands, IdleTask, Proc

\* While one job steps, no other is in a cycle.
LEMMA AloneInCycle ==
    ASSUME TypeInv, LockInv, NEW j \in Job, JobStep(j)
    PROVE  \A k \in Job \ {j} : task[k].pc = "idle" /\ task'[k].pc = "idle"
<1>1. CASE lock = None
  <2>1. \A k \in Job : k # None
    BY PromotionAssumption DEF Proc
  <2> QED  BY <1>1, <2>1, JobFrame DEF LockInv, CyclesLocked, Proc
<1>2. CASE lock # None
  <2>1. task[j].pc # "idle"
    BY <1>2 DEF JobStep, StartCycle, Train, FailCycle, SaveModel, SaveMetadata, OpenAggs,
       CloseAggs, OpenFill, CloseFill, SkipAggs, CompareChampion, Register, TriggerPipeline
  <2> QED  BY <2>1, JobFrame DEF LockInv, CyclesLocked, Proc
<1> QED  BY <1>1, <1>2

LEMMA LockJob ==
    ASSUME TypeInv, LockInv, NEW j \in Job, JobStep(j)
    PROVE  LockInv'
<1> USE DEF TypeInv, TypeOK, LockInv
<1>a. j \in Proc /\ task[j] \in Task /\ IdleTask.pc = "idle"
  BY DEF Proc, IdleTask
<1>b. \A k \in Job \ {j} : task'[k].pc = "idle"
  BY AloneInCycle
<1>1. task'[j].pc # "idle" => lock' = j
  <2>1. CASE StartCycle(j, "retrain") \/ StartCycle(j, "upload")
    BY <2>1 DEF StartCycle
  <2>2. CASE FailCycle(j) \/ TriggerPipeline(j)
    BY <1>a, <2>2 DEF FailCycle, TriggerPipeline, Finish
  <2>3. CASE Register(j)
    BY <1>a, <2>3 DEF Register, Finish, CyclesLocked
  <2>4. CASE \/ Train(j) \/ SaveModel(j) \/ SaveMetadata(j) \/ OpenAggs(j) \/ CloseAggs(j)
             \/ OpenFill(j) \/ CloseFill(j) \/ SkipAggs(j) \/ CompareChampion(j)
    BY <2>4 DEF Train, SaveModel, SaveMetadata, OpenAggs, CloseAggs, OpenFill, CloseFill,
       SkipAggs, CompareChampion, CyclesLocked
  <2> QED  BY <2>1, <2>2, <2>3, <2>4 DEF JobStep
<1>c. ASSUME ComparisonStands(j)' PROVE LockInv'
  <2> HIDE DEF TypeInv, TypeOK
  <2>1. \A k \in Job \ {j} : ComparisonStands(k)'
    BY <1>b DEF ComparisonStands
  <2>2. CyclesLocked'
    BY <1>b, <1>1 DEF CyclesLocked
  <2> QED  BY <1>c, <2>1, <2>2
<1>2. CASE CompareChampion(j)
  <2>1. Registered' = Registered
    BY <1>2 DEF CompareChampion, Disk, Registered
  <2>2. task'[j].pc = "register" /\ task'[j].score = task[j].score
    BY <1>a, <1>2 DEF CompareChampion, Task
  <2>3. task'[j].better => BeatsAll(task[j].score, Registered)'
    BY <1>a, <1>2, <2>1, <2>2 DEF CompareChampion, BeatsAll, Task, Disk
  <2>4. ComparisonStands(j)'
    BY <2>2, <2>3 DEF ComparisonStands
  <2> QED  BY <1>c, <2>4
<1>3. CASE Register(j)
  <2>1. CASE task[j].kind = "upload" \/ task[j].better
    <3>1. /\ task'[j].pc = "load" /\ task'[j].kind = task[j].kind
          /\ task'[j].v = task[j].v
      BY <1>a, <1>3, <2>1 DEF Register, Task
    <3>2. ASSUME task'[j].kind = "retrain"
          PROVE  BeatsAll(registry[task[j].v], Registered \ {task[j].v})'
      <4>1. BeatsAll(task[j].score, Registered)
        BY <1>3, <2>1, <3>1, <3>2 DEF Register, ComparisonStands
      <4>2. task[j].v \in Version
        BY <1>a, <1>3 DEF Register, Equipped
      <4>3. registry'[task[j].v] = task[j].score
        BY <1>3, <4>2 DEF Register
      <4>4. \A v \in Registered' \ {task[j].v} : v \in Registered /\ registry'[v] = registry[v]
        BY <1>3, <4>2 DEF Register, Registered
      <4> QED  BY <3>1, <4>1, <4>3, <4>4 DEF BeatsAll
    <3>3. ComparisonStands(j)'
      BY <3>1, <3>2 DEF ComparisonStands
    <3> QED  BY <1>c, <3>3
  <2>2. CASE ~(task[j].kind = "upload" \/ task[j].better)
    <3>1. task'[j].pc = "idle"
      BY <1>a, <1>3, <2>2 DEF Register, Finish
    <3> QED  BY <1>c, <3>1 DEF ComparisonStands
  <2> QED  BY <2>1, <2>2
<1>4. CASE ~CompareChampion(j) /\ ~Register(j)
  <2>1. task'[j].pc \notin {"register", "load", "load_wait"}
    <3>1. CASE StartCycle(j, "retrain") \/ StartCycle(j, "upload")
      <4>1. PICK kind, v : task' = [task EXCEPT ![j] =
                [IdleTask EXCEPT !.kind = kind, !.pc = "train", !.v = v]]
        BY <3>1, ZenonT(30) DEF StartCycle
      <4>2. task'[j].pc = "train"
        BY ONLY <1>a, <4>1, TypeOK, j \in Proc DEF TypeOK, IdleTask
      <4> QED  BY <4>2
    <3>2. CASE FailCycle(j) \/ TriggerPipeline(j)
      BY <1>a, <3>2 DEF FailCycle, TriggerPipeline, Finish
    <3>3. CASE \/ Train(j) \/ SaveModel(j) \/ SaveMetadata(j) \/ OpenAggs(j) \/ CloseAggs(j)
               \/ OpenFill(j) \/ CloseFill(j) \/ SkipAggs(j)
      BY <1>a, <3>3 DEF Train, SaveModel, SaveMetadata, OpenAggs, CloseAggs, OpenFill,
         CloseFill, SkipAggs, Goto, Task
    <3> QED  BY <1>4, <3>1, <3>2, <3>3 DEF JobStep
  <2> QED  BY <1>c, <2>1 DEF ComparisonStands
<1> QED  BY <1>2, <1>3, <1>4

LEMMA LockElsewhere ==
    ASSUME TypeInv, LockInv,
           \/ \E c \in Caller : CallerStep(c)
           \/ \E p \in Proc : PromotionStep(p)
           \/ ServerStep \/ CrashPrediction \/ CrashRetraining
    PROVE  LockInv'
<1> USE DEF TypeInv, TypeOK, LockInv
<1>1. ASSUME NEW c \in Caller, CallerStep(c) PROVE LockInv'
  <2>1. \A j \in Job : task'[j] = task[j]
    BY <1>1, PromotionAssumption DEF CallerStep, AcceptCall, Proc
  <2>2. registry' = registry /\ lock' = lock
    BY <1>1 DEF CallerStep, AcceptCall, Disk
  <2>3. Registered' = Registered
    BY <2>2 DEF Registered
  <2> HIDE DEF TypeInv, TypeOK
  <2> QED  BY <2>1, <2>2, <2>3 DEF CyclesLocked, ComparisonStands, BeatsAll
<1>2. ASSUME NEW p \in Proc, PromotionStep(p) PROVE LockInv'
  <2>1. CyclesLocked'
    BY <1>2, PromotionFrame DEF CyclesLocked, IdleTask, Proc, Promoting, Waiting
  <2>2. Registered' = Registered /\ registry' = registry
    BY <1>2, PromotionFrame DEF Registered
  <2>3. ASSUME NEW j \in Job PROVE task'[j].pc \in Saving => task'[j] = task[j]
    BY <1>2, SavingKept DEF Proc
  <2>4. ASSUME NEW j \in Job, task'[j].kind = "retrain", task'[j].pc \in {"load", "load_wait"}
        PROVE  /\ task[j].kind = "retrain" /\ task[j].pc \in {"load", "load_wait"}
               /\ task'[j].v = task[j].v
    <3>1. CASE j # p
      BY <1>2, <2>4, <3>1, PromotionFrame DEF Proc
    <3>2. CASE j = p
      <4>1. task[p].kind = "retrain" /\ task'[p].v = task[p].v
        BY <1>2, <2>4, <3>2, PromotionFrame DEF IdleTask
      <4>2. CASE SendLoad(p) \/ Timeout(p)
        BY <2>4, <3>2, <4>1, <4>2 DEF SendLoad, Timeout, Task
      <4>3. CASE SendPromote(p) \/ SendReload(p)
        BY <2>4, <3>2, <4>3 DEF SendPromote, SendReload, Send, Task
      <4>4. CASE LoadDone(p) \/ PromotionFailed(p) \/ ReloadDone(p)
        BY <2>4, <3>2, <4>4 DEF LoadDone, PromotionFailed, ReloadDone, Goto, Finish, IdleTask, Task
      <4>5. CASE StartCopy(p) \/ CopyModel(p) \/ CopyMetadata(p) \/ CopyAggs(p) \/ CopyFill(p)
        BY <2>4, <3>2, <4>5 DEF StartCopy, CopyModel, CopyMetadata, CopyAggs, CopyFill, Copy,
           Goto, Task
      <4> QED  BY <1>2, <3>2, <4>2, <4>3, <4>4, <4>5 DEF PromotionStep
    <3> QED  BY <3>1, <3>2
  <2>5. ASSUME NEW j \in Job PROVE ComparisonStands(j)'
    <3> HIDE DEF TypeInv, TypeOK
    <3> QED  BY <2>2, <2>3, <2>4 DEF ComparisonStands, BeatsAll, Saving
  <2> QED  BY <2>1, <2>5
<1>3. CASE ServerStep \/ CrashPrediction
  <2>1. Registered' = Registered
    BY <1>3, ServerFrame DEF Registered
  <2>2. CyclesLocked'
    BY <1>3, ServerFrame DEF CyclesLocked, Proc
  <2>3. \A j \in Job : ComparisonStands(j)'
    BY <1>3, <2>1, ServerFrame DEF ComparisonStands, BeatsAll, Proc
  <2> QED  BY <2>2, <2>3
<1>4. CASE CrashRetraining
  BY <1>4 DEF CrashRetraining, CyclesLocked, ComparisonStands, IdleTask, Proc
<1> QED  BY <1>1, <1>2, <1>3, <1>4

LEMMA LockInductive == Spec => []LockInv
<1>1. LockInv /\ UNCHANGED vars => LockInv'
  BY DEF LockInv, CyclesLocked, ComparisonStands, BeatsAll, Registered, vars
<1>2. TypeInv /\ LockInv /\ [Next]_vars => LockInv'
  BY LockJob, LockElsewhere, <1>1 DEF Next
<1> QED  BY TypeInductive, LockInit, <1>2, PTL DEF Spec

\* A challenger put up as shadow is strictly better than every other
\* registered model until its load is over: the lock that its cycle holds
\* keeps any other cycle from registering one.
THEOREM ChallengerStaysBest == Spec => []ChallengerBeatsRegistry
<1>1. LockInv => ChallengerBeatsRegistry
  BY DEF LockInv, ComparisonStands, BeatsAll, ChallengerBeatsRegistry
<1> QED  BY LockInductive, <1>1, PTL

-----------------------------------------------------------------------------
(* The canonical pair *)

Copying == {"copy_model", "copy_meta", "copy_aggs", "copy_fill"}

NotCut == faults.kinds \cap {"io", "crash_retrain"} = {}

\* Who copies keeps the event loop, and nobody else does.
CopiesAreAtomic ==
    /\ \A p \in Proc : task[p].pc \in Copying => loop = p
    /\ loop # None => task[loop].pc \in Copying

\* The pair differs only between its two copies, and then the one to follow
\* makes it whole.
PairInv ==
    /\ CopiesAreAtomic
    /\ NotCut =>
          IF loop # None /\ task[loop].pc = "copy_meta"
          THEN canon.model = task[loop].v
          ELSE canon.model = canon.meta

LEMMA PairInit == Init => PairInv
BY PromotionAssumption DEF Init, PairInv, CopiesAreAtomic, NotCut, IdleTask, Copying, Proc

\* Nobody who copies has moved, and nobody has come to.
CopyKept(p) ==
    \/ task'[p].pc = task[p].pc /\ task'[p].v = task[p].v
    \/ task[p].pc \notin Copying /\ task'[p].pc \notin Copying

LEMMA PairKept ==
    ASSUME TypeInv, PairInv, loop' = loop, faults.kinds \subseteq faults'.kinds,
           canon'.model = canon.model, canon'.meta = canon.meta,
           \A p \in Proc : CopyKept(p)
    PROVE  PairInv'
<1> USE DEF CopyKept
<1>1. NotCut' => NotCut
  BY DEF NotCut
<1>2. CopiesAreAtomic'
  BY DEF PairInv, CopiesAreAtomic, TypeInv, TypeOK
<1>3. loop # None => task'[loop].pc = task[loop].pc /\ task'[loop].v = task[loop].v
  BY DEF PairInv, CopiesAreAtomic, TypeInv, TypeOK
<1> QED  BY <1>1, <1>2, <1>3 DEF PairInv

LEMMA PairJob ==
    ASSUME TypeInv, PairInv, NEW j \in Job, JobStep(j)
    PROVE  PairInv'
<1> USE DEF TypeInv, TypeOK
<1>a. j \in Proc /\ task[j] \in Task /\ IdleTask.pc = "idle"
  BY DEF Proc, IdleTask
<1>1. task[j].pc \notin Copying
  BY DEF JobStep, StartCycle, Train, FailCycle, SaveModel, SaveMetadata, OpenAggs, CloseAggs,
         OpenFill, CloseFill, SkipAggs, CompareChampion, Register, TriggerPipeline, Copying
<1>2. task'[j].pc \notin Copying
  <2>1. CASE StartCycle(j, "retrain") \/ StartCycle(j, "upload")
    <3>1. PICK kind, v : task' = [task EXCEPT ![j] =
              [IdleTask EXCEPT !.kind = kind, !.pc = "train", !.v = v]]
      BY <2>1, ZenonT(30) DEF StartCycle
    <3>2. task'[j].pc = "train"
      BY ONLY <1>a, <3>1, TypeOK, j \in Proc DEF TypeOK, IdleTask
    <3> QED  BY <3>2 DEF Copying
  <2>2. CASE FailCycle(j) \/ TriggerPipeline(j)
    BY <1>a, <2>2 DEF FailCycle, TriggerPipeline, Finish, Copying
  <2>3. CASE \/ Train(j) \/ SaveModel(j) \/ SaveMetadata(j) \/ OpenAggs(j) \/ CloseAggs(j)
             \/ OpenFill(j) \/ CloseFill(j) \/ SkipAggs(j) \/ CompareChampion(j)
    BY <1>a, <2>3 DEF Train, SaveModel, SaveMetadata, OpenAggs, CloseAggs, OpenFill,
       CloseFill, SkipAggs, CompareChampion, Goto, Task, Copying
  <2>4. CASE Register(j)
    BY <1>a, <2>4 DEF Register, Finish, Task, Copying
  <2> QED  BY <2>1, <2>2, <2>3, <2>4 DEF JobStep
<1>3. /\ \A p \in Proc \ {j} : task'[p] = task[p]
      /\ loop' = loop /\ faults.kinds \subseteq faults'.kinds
      /\ canon'.model = canon.model /\ canon'.meta = canon.meta
  BY JobFrame
<1>4. \A p \in Proc : CopyKept(p)
  BY <1>1, <1>2, <1>3 DEF CopyKept
<1> HIDE DEF TypeInv, TypeOK
<1> QED  BY <1>3, <1>4, PairKept

\* The copies of one promotion, in order; what it copies is on disk.
LEMMA PairCopy ==
    ASSUME TypeInv, RegistryInv, WholeInv, PairInv, NEW p \in Proc,
           CopyModel(p) \/ CopyMetadata(p) \/ CopyAggs(p) \/ CopyFill(p)
    PROVE  PairInv'
<1> USE DEF TypeInv, TypeOK
<1>a. task[p].pc \in Copying /\ loop = p /\ p # None
  BY PromotionAssumption DEF CopyModel, CopyMetadata, CopyAggs, CopyFill, Copy, Copying,
     PairInv, CopiesAreAtomic
<1>b. task[p].v \in files.model /\ task[p].v \in files.meta
  BY <1>a DEF Copying, RegistryInv, PromotersRegistered, Promoting, WholeInv, RegisteredAreSaved
<1>c. \A q \in Proc \ {p} : task[q].pc \notin Copying /\ task'[q] = task[q]
  BY <1>a DEF PairInv, CopiesAreAtomic, CopyModel, CopyMetadata, CopyAggs, CopyFill, Copy, Goto
<1>d. task'[p].v = task[p].v /\ (NotCut' => NotCut)
  BY DEF CopyModel, CopyMetadata, CopyAggs, CopyFill, Copy, Goto, Disturb, NotCut, Task
<1>1. CASE CopyModel(p)
  <2>1. task'[p].pc = "copy_meta" /\ loop' = p
    BY <1>a, <1>1 DEF CopyModel, Copy, Goto, Task
  <2>2. NotCut' => canon'.model = task[p].v
    BY <1>1, <1>b DEF CopyModel, Copy, Disturb, NotCut, Canon
  <2>3. CopiesAreAtomic'
    BY <1>c, <2>1 DEF CopiesAreAtomic, Copying
  <2> QED  BY <1>a, <1>d, <2>1, <2>2, <2>3 DEF PairInv
<1>2. CASE CopyMetadata(p)
  <2>1. task'[p].pc = "copy_aggs" /\ loop' = p /\ task[p].pc = "copy_meta"
    BY <1>a, <1>2 DEF CopyMetadata, Copy, Goto, Task
  <2>2. NotCut' => canon'.meta = task[p].v /\ canon'.model = canon.model
    BY <1>2, <1>b DEF CopyMetadata, Copy, Disturb, NotCut, Canon
  <2>3. CopiesAreAtomic'
    BY <1>c, <2>1 DEF CopiesAreAtomic, Copying
  <2> QED  BY <1>a, <1>d, <2>1, <2>2, <2>3 DEF PairInv
<1>3. CASE CopyAggs(p) \/ CopyFill(p)
  <2>1. /\ task[p].pc \in {"copy_aggs", "copy_fill"}
        /\ \/ task'[p].pc = "copy_fill" /\ loop' = p
           \/ task'[p].pc = "reload" /\ loop' = None
    BY <1>a, <1>3 DEF CopyAggs, CopyFill, Copy, Goto, Task
  <2>2. canon'.meta = canon.meta /\ canon'.model = canon.model
    BY <1>3 DEF CopyAggs, CopyFill, Copy, Canon
  <2>3. CopiesAreAtomic'
    BY <1>c, <2>1 DEF CopiesAreAtomic, Copying
  <2> QED  BY <1>a, <1>d, <2>1, <2>2, <2>3 DEF PairInv
<1> QED  BY <1>1, <1>2, <1>3

LEMMA PairPromotion ==
    ASSUME TypeInv, RegistryInv, WholeInv, PairInv, NEW p \in Proc, PromotionStep(p)
    PROVE  PairInv'
<1> USE DEF TypeInv, TypeOK
<1>1. CASE CopyModel(p) \/ CopyMetadata(p) \/ CopyAggs(p) \/ CopyFill(p)
  BY <1>1, PairCopy
<1>2. CASE StartCopy(p)
  <2>1. loop = None /\ loop' = p /\ task'[p].pc = "copy_model" /\ p # None
    BY <1>2, PromotionAssumption DEF StartCopy, LoopFree, Goto
  <2>2. \A q \in Proc \ {p} : task[q].pc \notin Copying /\ task'[q] = task[q]
    BY <1>2, <2>1, PromotionAssumption DEF StartCopy, Goto, PairInv, CopiesAreAtomic
  <2>3. CopiesAreAtomic'
    BY <2>1, <2>2 DEF CopiesAreAtomic, Copying
  <2>4. canon' = canon /\ (NotCut' => NotCut)
    BY <1>2 DEF StartCopy, Disk, NotCut
  <2> QED  BY <2>1, <2>3, <2>4 DEF PairInv
<1>3. CASE ~(CopyModel(p) \/ CopyMetadata(p) \/ CopyAggs(p) \/ CopyFill(p) \/ StartCopy(p))
  <2>1. loop' = loop /\ canon' = canon
    BY <1>3 DEF PromotionStep, SendLoad, LoadDone, SendPromote, PromotionFailed, SendReload,
       ReloadDone, Timeout, Disk
  <2>2. task[p].pc \notin Copying /\ task'[p].pc \notin Copying
    <3>1. CASE LoadDone(p) \/ PromotionFailed(p) \/ ReloadDone(p)
      BY <3>1 DEF LoadDone, PromotionFailed, ReloadDone, Goto, Finish, IdleTask, Copying, Task
    <3>2. CASE SendLoad(p) \/ SendPromote(p) \/ SendReload(p) \/ Timeout(p)
      BY <3>2 DEF SendLoad, SendPromote, SendReload, Send, Timeout, Waiting, Copying, Task
    <3> QED  BY <1>3, <3>1, <3>2 DEF PromotionStep
  <2>3. \A q \in Proc \ {p} : task'[q] = task[q]
    BY PromotionFrame
  <2>4. faults.kinds \subseteq faults'.kinds
    BY PromotionFrame
  <2>5. \A q \in Proc : CopyKept(q)
    BY <2>2, <2>3 DEF CopyKept
  <2> HIDE DEF TypeInv, TypeOK
  <2> QED  BY <2>1, <2>4, <2>5, PairKept
<1> QED  BY <1>1, <1>2, <1>3

LEMMA PairElsewhere ==
    ASSUME TypeInv, PairInv,
           \/ \E c \in Caller : CallerStep(c)
           \/ ServerStep \/ CrashPrediction \/ CrashRetraining
    PROVE  PairInv'
<1>1. ASSUME NEW c \in Caller, CallerStep(c) PROVE PairInv'
  <2>1. \A p \in Proc \ {c} : task'[p] = task[p]
    BY <1>1 DEF CallerStep, AcceptCall, TypeInv, TypeOK
  <2>2. c \in Proc /\ task[c].pc = "idle" /\ task'[c].pc = "load"
    BY <1>1 DEF CallerStep, AcceptCall, IdleTask, Proc, TypeInv, TypeOK
  <2>3. loop' = loop /\ faults' = faults /\ canon' = canon
    BY <1>1 DEF CallerStep, AcceptCall, Disk
  <2>4. \A p \in Proc : CopyKept(p)
    BY <2>1, <2>2 DEF CopyKept, Copying
  <2> QED  BY <2>3, <2>4, PairKept
<1>2. CASE ServerStep \/ CrashPrediction
  <2>1. loop' = loop /\ canon' = canon /\ faults.kinds \subseteq faults'.kinds
    BY <1>2, ServerFrame
  <2>2. \A p \in Proc : task'[p].pc = task[p].pc /\ task'[p].v = task[p].v
    BY <1>2, ServerFrame
  <2>3. \A p \in Proc : CopyKept(p)
    BY <2>2 DEF CopyKept
  <2> QED  BY <2>1, <2>3, PairKept
<1>3. CASE CrashRetraining
  <2>1. loop' = None /\ \A p \in Proc : task'[p] = IdleTask
    BY <1>3 DEF CrashRetraining
  <2>2. ~NotCut'
    BY <1>3 DEF CrashRetraining, Disturb, NotCut
  <2> QED  BY <2>1, <2>2 DEF PairInv, CopiesAreAtomic, IdleTask, Copying
<1> QED  BY <1>1, <1>2, <1>3

LEMMA PairInductive == Spec => []PairInv
<1>1. PairInv /\ UNCHANGED vars => PairInv'
  BY DEF PairInv, CopiesAreAtomic, NotCut, vars
<1>2. TypeInv /\ RegistryInv /\ WholeInv /\ PairInv /\ [Next]_vars => PairInv'
  BY PairJob, PairPromotion, PairElsewhere, <1>1 DEF Next
<1> QED  BY TypeInductive, RegistryInductive, WholeInductive, PairInit, <1>2, PTL DEF Spec

\* Unless a copy fails or the retraining service dies inside the block, a
\* restart never finds the model of one version beside the metadata of
\* another, whoever promotes at the same time.
THEOREM PairStaysWhole == Spec => []PairWholeUnlessCut
<1>1. PairInv => PairWholeUnlessCut
  BY DEF PairInv, NotCut, PairWholeUnlessCut, CanonicalPairWhole, LoopFree
<1> QED  BY PairInductive, <1>1, PTL

-----------------------------------------------------------------------------
(* The slots of the prediction service *)

SlotsSame ==
    /\ models'.primary.model = models.primary.model
    /\ models'.shadow.model = models.shadow.model
    /\ canon'.model = canon.model
    /\ Registered' = Registered

LEMMA SlotsStutter == SlotsSame => UNCHANGED Slots!slots
BY DEF SlotsSame, Slots!slots

LEMMA SlotsInit == Init => Slots!Init
<1> SUFFICES ASSUME Init PROVE Slots!Init
  OBVIOUS
<1>1. models.primary.model = Seed /\ models.shadow.model = None
  BY DEF Init, LoadMetadata, LoadModel, NoModels, EmptySlot
<1> QED  BY <1>1 DEF Init, Slots!Init

\* A cycle shows itself only by registering its version.
LEMMA SlotsJob ==
    ASSUME TypeInv, NEW j \in Job, JobStep(j)
    PROVE  [Slots!Next]_(Slots!slots)
<1>1. models' = models /\ canon'.model = canon.model
  BY JobFrame
<1>2. CASE Register(j)
  <2>1. task[j].v \in Version /\ task[j].score \in Score
    BY <1>2 DEF Register, TypeInv, Equipped, Saving, Proc
  <2>2. Registered' = Registered \cup {task[j].v}
    BY <1>2, <2>1, PromotionAssumption DEF Register, Registered, TypeInv, TypeOK
  <2>3. Slots!Register
    BY <1>1, <2>1, <2>2 DEF Slots!Register
  <2> QED  BY <2>3 DEF Slots!Next
<1>3. CASE ~Register(j)
  <2>1. registry' = registry
    BY <1>3 DEF JobStep, StartCycle, Train, FailCycle, SaveModel, SaveMetadata, OpenAggs,
       CloseAggs, OpenFill, CloseFill, SkipAggs, CompareChampion, TriggerPipeline, Disk
  <2> QED  BY <1>1, <2>1, SlotsStutter DEF SlotsSame, Registered
<1> QED  BY <1>2, <1>3

\* A promotion shows itself only by publishing its version.
LEMMA SlotsPromotion ==
    ASSUME TypeInv, RegistryInv, NEW p \in Proc, PromotionStep(p)
    PROVE  [Slots!Next]_(Slots!slots)
<1>1. models' = models /\ Registered' = Registered
  BY PromotionFrame DEF Registered
<1>2. CASE canon'.model = canon.model
  BY <1>1, <1>2, SlotsStutter DEF SlotsSame
<1>3. CASE canon'.model # canon.model
  <2>1. canon'.model = task[p].v
    <3>1. CASE CopyModel(p) \/ CopyMetadata(p) \/ CopyAggs(p) \/ CopyFill(p)
      BY <1>3, <3>1 DEF CopyModel, CopyMetadata, CopyAggs, CopyFill, Copy, TypeInv, TypeOK, Canon
    <3>2. CASE ~(CopyModel(p) \/ CopyMetadata(p) \/ CopyAggs(p) \/ CopyFill(p))
      BY <1>3, <3>2 DEF PromotionStep, SendLoad, LoadDone, SendPromote, PromotionFailed,
         StartCopy, SendReload, ReloadDone, Timeout, Disk
    <3> QED  BY <3>1, <3>2
  <2>2. task[p].v \in Registered
    BY PromotionFrame DEF RegistryInv, PromotersRegistered
  <2>3. Slots!Publish
    BY <1>1, <2>1, <2>2 DEF Slots!Publish
  <2> QED  BY <2>3 DEF Slots!Next
<1> QED  BY <1>2, <1>3

\* What the prediction service does to its models is what a slot may do.
LEMMA SlotsServer ==
    ASSUME TypeInv, RegistryInv, ServerStep \/ CrashPrediction
    PROVE  [Slots!Next]_(Slots!slots)
<1> USE DEF TypeInv, TypeOK
<1>1. Registered' = Registered /\ canon' = canon
  BY ServerFrame DEF Registered
<1>2. CASE models' = models
  BY <1>1, <1>2, SlotsStutter DEF SlotsSame
<1>3. ASSUME NEW c \in calls, ServeShadowLoad(c), models' # models
      PROVE  Slots!Evaluate
  <2>1. models'.primary = models.primary /\ models'.shadow.model = c.v
    BY <1>3 DEF ServeShadowLoad, LoadShadow, Manager
  <2>2. c.v \in Registered
    BY DEF RegistryInv, RequestsRegistered
  <2> QED  BY <1>1, <2>1, <2>2 DEF Slots!Evaluate
<1>4. ASSUME NEW c \in calls, ServePromote(c), models' # models
      PROVE  Slots!Swap
  <2>1. /\ models.shadow.model # None
        /\ models'.primary = models.shadow /\ models'.shadow = EmptySlot
    BY <1>4 DEF ServePromote, PromoteShadow, HasShadow
  <2> QED  BY <1>1, <2>1 DEF Slots!Swap, EmptySlot
<1>5. CASE BeginLoad
  <2>1. models'.primary.model = canon.model /\ models'.shadow = models.shadow
    BY <1>5 DEF BeginLoad, LoadModel, Manager, Slot
  <2> QED  BY <1>1, <2>1 DEF Slots!Load, Slots!Next
<1>6. CASE models' = LoadMetadata(models, canon.meta)
  <2>1. models'.primary.model = models.primary.model /\ models'.shadow = models.shadow
    BY <1>6 DEF LoadMetadata, Manager, Slot
  <2> QED  BY <1>1, <2>1, SlotsStutter DEF SlotsSame
<1>7. CASE models' = NoModels
  <2>1. models'.primary.model = None /\ models'.shadow.model = None
    BY <1>7 DEF NoModels, EmptySlot
  <2> QED  BY <1>1, <2>1 DEF Slots!Stop, Slots!Next
<1>8. CASE RemoveShadowByHand
  <2>1. models'.primary = models.primary /\ models'.shadow = EmptySlot
    BY <1>8 DEF RemoveShadowByHand, RemoveShadow, Manager
  <2> QED  BY <1>1, <2>1 DEF Slots!Drop, Slots!Next, EmptySlot
<1>9. CASE \E c \in calls : ServeShadowLoad(c) \/ ServePromote(c) \/ ServeReloadFeatures(c)
  <2> SUFFICES ASSUME models' # models PROVE Slots!Next
    BY <1>2
  <2>1. \A c \in calls : ~ServeReloadFeatures(c)
    BY DEF ServeReloadFeatures
  <2> QED  BY <1>3, <1>4, <1>9, <2>1 DEF Slots!Next
<1>10. CASE FinishReload \/ FinishStart \/ LoadFails \/ CrashPrediction
  BY <1>2, <1>6, <1>7, <1>10 DEF FinishReload, FinishStart, LoadFails, CrashPrediction
<1>11. ASSUME NEW c \in calls, ShadowLoadFails(c) PROVE Slots!Evaluate
  <2>1. models'.primary = models.primary /\ models'.shadow.model = c.v
    BY <1>11 DEF ShadowLoadFails, LoadShadowUnread, Manager, Slot
  <2>2. c.v \in Registered
    BY DEF RegistryInv, RequestsRegistered
  <2> QED  BY <1>1, <2>1, <2>2 DEF Slots!Evaluate
<1>12. CASE \E c \in calls : ShadowLoadFails(c)
  BY <1>11, <1>12 DEF Slots!Next
<1> HIDE DEF TypeInv, TypeOK
<1> QED  BY <1>5, <1>8, <1>9, <1>10, <1>12 DEF ServerStep

LEMMA SlotsNext ==
    ASSUME TypeInv, RegistryInv, [Next]_vars
    PROVE  [Slots!Next]_(Slots!slots)
<1>1. ASSUME NEW c \in Caller, CallerStep(c) PROVE [Slots!Next]_(Slots!slots)
  <2>1. SlotsSame
    BY <1>1 DEF CallerStep, AcceptCall, Disk, Predictor, SlotsSame, Registered
  <2> QED  BY <2>1, SlotsStutter
<1>2. CASE CrashRetraining \/ UNCHANGED vars
  <2>1. SlotsSame
    BY <1>2 DEF CrashRetraining, Disk, Predictor, SlotsSame, Registered, vars
  <2> QED  BY <2>1, SlotsStutter
<1> QED  BY <1>1, <1>2, SlotsJob, SlotsPromotion, SlotsServer DEF Next

\* Seen from outside, all of this is what ModelSlots allows: whatever jobs,
\* callers, crashes and late requests do, the primary and the shadow change
\* only by one evaluation, swap, drop, load or stop at a time, and only to
\* versions that had been registered.
THEOREM ProtocolImplementsSlots == Spec => ImplementsSlots
<1>1. TypeInv /\ RegistryInv /\ [Next]_vars => [Slots!Next]_(Slots!slots)
  BY SlotsNext
<1> QED
  BY SlotsInit, TypeInductive, RegistryInductive, <1>1, PTL
  DEF Spec, ImplementsSlots, Slots!Spec

-----------------------------------------------------------------------------
(* An upload that nothing disturbs *)

\* Where the handler of a request waits for it.
WaitsIn(op) == CASE op = "shadow_load" -> "load_wait"
                 [] op = "shadow_promote" -> "promote_wait"
                 [] op = "reload_features" -> "reload_wait"

Whole(slot, v) == slot.model = v /\ slot.meta = v

\* Both tables of the cycle are the canonical ones.
Tabled == {"compare", "register"} \cup Promoting

\* Its model is the shadow, or has been and is the primary.
Evaluated(j) ==
    \/ task[j].pc = "load_wait" /\ task[j].reply = "ok"
    \/ task[j].pc = "promote"
    \/ task[j].pc = "promote_wait" /\ task[j].reply = "none"

Swapped(j) ==
    \/ task[j].pc = "promote_wait" /\ task[j].reply = "ok"
    \/ task[j].pc \in Copying \cup {"reload", "reload_wait", "trigger"}

Reloaded(j) ==
    \/ task[j].pc = "reload_wait" /\ task[j].reply # "none"
    \/ task[j].pc = "trigger"

\* How far a cycle has come, by where its handler is.
Progress(j) ==
    /\ task[j].pc = "close_aggs" => canon.aggs = Torn
    /\ task[j].pc \in {"save_fill", "close_fill"} => canon.aggs = task[j].v
    /\ task[j].pc = "close_fill" => canon.fill = Torn
    /\ task[j].pc \in Tabled => canon.aggs = task[j].v /\ canon.fill = task[j].v
    /\ Evaluated(j) => Whole(models.shadow, task[j].v)
    /\ Swapped(j) => Whole(models.primary, task[j].v)
    /\ task[j].pc \in {"copy_meta", "copy_aggs", "copy_fill", "reload", "reload_wait", "trigger"}
          => canon.model = task[j].v
    /\ task[j].pc \in {"copy_aggs", "copy_fill", "reload", "reload_wait", "trigger"}
          => canon.meta = task[j].v
    /\ Reloaded(j) => engine = [aggs |-> task[j].v, fill |-> task[j].v]

\* A request in flight is the one its sender waits for.
Awaited(c) == /\ c.open /\ c.v = task[c.from].v
              /\ task[c.from].pc = WaitsIn(c.op) /\ task[c.from].reply = "none"

CycleInv ==
    Undisturbed => /\ phase = "up"
                   /\ \A c \in calls : Awaited(c)
                   /\ \A j \in Job : Progress(j)

LEMMA CycleInit == Init => CycleInv
BY DEF Init, CycleInv, IdleTask, Proc, Progress, Tabled, Promoting, Waiting, Evaluated, Swapped,
       Reloaded, Copying

\* A step that leaves the behaviour undisturbed found it so, and disturbs nothing.
LEMMA StillUndisturbed ==
    ASSUME TypeInv, [Next]_vars, Undisturbed'
    PROVE  Undisturbed /\ \A kind : ~Disturb(kind)
<1>1. \A kind : ~Disturb(kind)
  BY DEF Disturb, Undisturbed
<1>2. faults.kinds \subseteq faults'.kinds
  <2>1. CASE \E c \in Caller : CallerStep(c)
    BY <2>1 DEF CallerStep, AcceptCall
  <2>2. CASE CrashRetraining \/ UNCHANGED vars
    BY <2>2 DEF CrashRetraining, Disturb, vars
  <2> QED  BY <2>1, <2>2, JobFrame, PromotionFrame, ServerFrame DEF Next
<1> QED  BY <1>1, <1>2 DEF Undisturbed

LEMMA IdleHasProgressed ==
    ASSUME NEW k, task[k].pc = "idle"
    PROVE  Progress(k)
BY DEF Progress, Tabled, Promoting, Waiting, Evaluated, Swapped, Reloaded, Copying

\* Without callers the lock leaves one handler at a time.
LEMMA OthersIdle ==
    ASSUME Caller = {}, TypeInv, LockInv, NEW j \in Proc, task[j].pc # "idle"
    PROVE  \A k \in Proc \ {j} : task[k].pc = "idle"
BY DEF LockInv, CyclesLocked, Proc

LEMMA WaitsInWaiting == \A op \in Op : WaitsIn(op) \in Waiting
BY DEF WaitsIn, Op, Waiting

\* While a handler is not waiting, no request is in flight.
LEMMA NoneInFlight ==
    ASSUME Caller = {}, TypeInv, LockInv, CycleInv, Undisturbed,
           NEW j \in Proc, task[j].pc \notin Waiting \/ task[j].reply # "none",
           \A k \in Proc \ {j} : task[k].pc = "idle"
    PROVE  calls = {}
<1> SUFFICES ASSUME NEW c \in calls PROVE FALSE
  OBVIOUS
<1>1. c.from \in Proc /\ c.op \in Op
  BY DEF TypeInv, TypeOK, Call
<1>2. task[c.from].pc \in Waiting /\ task[c.from].reply = "none"
  BY <1>1, WaitsInWaiting DEF CycleInv, Awaited
<1> QED  BY <1>1, <1>2 DEF Waiting

LEMMA CycleJob ==
    ASSUME Caller = {}, TypeInv, LockInv, CycleInv, Undisturbed, \A kind : ~Disturb(kind),
           NEW j \in Job, JobStep(j)
    PROVE  phase' = "up" /\ calls' = {} /\ \A k \in Job : Progress(k)'
<1>a. j \in Proc /\ Proc = Job /\ task[j] \in Task /\ task \in [Proc -> Task]
  BY DEF Proc, TypeInv, TypeOK
<1>b. \A k \in Job \ {j} : task[k].pc = "idle" /\ task'[k].pc = "idle"
  BY AloneInCycle
<1>c. task[j].pc \notin Waiting
  BY DEF JobStep, StartCycle, Train, FailCycle, SaveModel, SaveMetadata, OpenAggs, CloseAggs,
         OpenFill, CloseFill, SkipAggs, CompareChampion, Register, TriggerPipeline, Waiting
<1>d. phase' = "up" /\ calls' = {}
  <2>1. calls = {}
    BY <1>a, <1>b, <1>c, NoneInFlight
  <2> QED  BY <2>1, JobFrame DEF CycleInv
<1>e. ASSUME task'[j].pc \in {"idle", "train", "save_model", "save_meta", "save_aggs"}
      PROVE  Progress(j)'
  BY <1>e DEF Progress, Tabled, Promoting, Waiting, Evaluated, Swapped, Reloaded, Copying
<1>f. \A k \in Job \ {j} : Progress(k)'
  BY <1>b DEF Progress, Tabled, Promoting, Waiting, Evaluated, Swapped, Reloaded, Copying
<1> SUFFICES Progress(j)'
  BY <1>d, <1>f
<1>p. Progress(j)
  BY DEF CycleInv
<1>1. CASE StartCycle(j, "retrain") \/ StartCycle(j, "upload")
  <2>1. PICK kind, v : task' = [task EXCEPT ![j] =
            [IdleTask EXCEPT !.kind = kind, !.pc = "train", !.v = v]]
    BY <1>1, ZenonT(30) DEF StartCycle
  <2>2. task'[j].pc = "train"
    BY ONLY <1>a, <2>1, j \in Proc DEF IdleTask
  <2> QED  BY <1>e, <2>2
<1>2. CASE FailCycle(j) \/ TriggerPipeline(j)
  BY <1>a, <1>e, <1>2 DEF FailCycle, TriggerPipeline, Finish, IdleTask
<1>3. CASE Train(j) \/ SaveModel(j) \/ SaveMetadata(j)
  <2>1. task'[j].pc \in {"save_model", "save_meta", "save_aggs"}
    BY <1>a, <1>3 DEF Train, SaveModel, SaveMetadata, Goto, Task
  <2> QED  BY <1>e, <2>1
<1>4. CASE OpenAggs(j)
  <2>1. task'[j].pc = "close_aggs" /\ canon'.aggs = Torn
    BY <1>a, <1>4 DEF OpenAggs, Goto, Task, TypeInv, TypeOK, Canon
  <2> QED  BY <2>1 DEF Progress, Tabled, Promoting, Waiting, Evaluated, Swapped, Reloaded, Copying
<1>5. CASE CloseAggs(j)
  <2>1. /\ task'[j].pc = "save_fill" /\ task'[j].v = task[j].v
        /\ canon'.aggs = task[j].v
    BY <1>a, <1>p, <1>5 DEF CloseAggs, Goto, Task, TypeInv, TypeOK, Canon, Progress
  <2> QED  BY <2>1 DEF Progress, Tabled, Promoting, Waiting, Evaluated, Swapped, Reloaded, Copying
<1>6. CASE OpenFill(j)
  <2>1. /\ task'[j].pc = "close_fill" /\ task'[j].v = task[j].v
        /\ canon'.aggs = task[j].v /\ canon'.fill = Torn
    BY <1>a, <1>p, <1>6 DEF OpenFill, Goto, Task, TypeInv, TypeOK, Canon, Progress
  <2> QED  BY <2>1 DEF Progress, Tabled, Promoting, Waiting, Evaluated, Swapped, Reloaded, Copying
<1>7. CASE CloseFill(j)
  <2>1. /\ task'[j].pc = "compare" /\ task'[j].v = task[j].v
        /\ canon'.aggs = task[j].v /\ canon'.fill = task[j].v
    BY <1>a, <1>p, <1>7 DEF CloseFill, Goto, Task, TypeInv, TypeOK, Canon, Progress
  <2> QED  BY <2>1 DEF Progress, Evaluated, Swapped, Reloaded, Copying
<1>8. CASE CompareChampion(j) \/ Register(j)
  <2>1. /\ task'[j].pc \in {"register", "load", "idle"}
        /\ task'[j].pc # "idle" => task'[j].v = task[j].v
        /\ canon' = canon
    BY <1>a, <1>8 DEF CompareChampion, Register, Finish, IdleTask, Task, Disk
  <2>2. canon.aggs = task[j].v /\ canon.fill = task[j].v
    BY <1>p, <1>8 DEF CompareChampion, Register, Progress, Tabled
  <2> QED
    BY <2>1, <2>2 DEF Progress, Tabled, Promoting, Waiting, Evaluated, Swapped, Reloaded, Copying
<1>9. ~SkipAggs(j)
  BY DEF SkipAggs
<1> QED
  BY <1>1, <1>2, <1>3, <1>4, <1>5, <1>6, <1>7, <1>8, <1>9 DEF JobStep

LEMMA CyclePromotion ==
    ASSUME Caller = {}, TypeInv, LockInv, RegistryInv, WholeInv, CycleInv, Undisturbed,
           \A kind : ~Disturb(kind), NEW p \in Proc, PromotionStep(p)
    PROVE  phase' = "up" /\ (\A c \in calls' : Awaited(c)') /\ \A k \in Job : Progress(k)'
<1>a. Proc = Job /\ task[p] \in Task /\ task \in [Proc -> Task]
  BY DEF Proc, TypeInv, TypeOK
<1>b. task[p].pc \in Promoting /\ task[p].pc # "idle"
  BY PromotionFrame DEF Promoting, Waiting
<1>c. \A k \in Proc \ {p} : task[k].pc = "idle" /\ task'[k].pc = "idle"
  BY <1>b, OthersIdle, PromotionFrame
<1>d. phase' = "up" /\ phase = "up" /\ models' = models /\ engine' = engine
  BY PromotionFrame DEF CycleInv
<1>e. \A k \in Job \ {p} : Progress(k)'
  BY <1>a, <1>c DEF Progress, Tabled, Promoting, Waiting, Evaluated, Swapped, Reloaded, Copying
<1> SUFFICES (\A c \in calls' : Awaited(c)') /\ Progress(p)'
  BY <1>a, <1>d, <1>e
<1>p. Progress(p)
  BY <1>a DEF CycleInv
<1>t. canon.aggs = task[p].v /\ canon.fill = task[p].v
  BY <1>p, <1>b DEF Progress, Tabled
<1>f. ASSUME task[p].pc \notin Waiting \/ task[p].reply # "none" PROVE calls = {}
  BY <1>c, <1>f, NoneInFlight
<1>v. task[p].v \in files.model /\ task[p].v \in files.meta
  BY <1>b DEF RegistryInv, PromotersRegistered, WholeInv, RegisteredAreSaved
<1>g. ASSUME NEW op \in Op, Send(p, op, WaitsIn(op)), task[p].pc \notin Waiting
      PROVE  /\ task'[p].pc = WaitsIn(op) /\ task'[p].reply = "none" /\ task'[p].v = task[p].v
             /\ \A c \in calls' : Awaited(c)'
  <2>1. calls = {}
    BY <1>f, <1>g
  <2>2. /\ task'[p].pc = WaitsIn(op) /\ task'[p].reply = "none" /\ task'[p].v = task[p].v
        /\ calls' = {[from |-> p, op |-> op, v |-> task[p].v, open |-> TRUE]}
    BY <1>a, <1>d, <1>g, <2>1 DEF Send, Task
  <2> QED  BY <2>2 DEF Awaited
<1>1. CASE SendLoad(p)
  <2>1. task'[p].pc = "load_wait" /\ task'[p].reply = "none" /\ task'[p].v = task[p].v
        /\ \A c \in calls' : Awaited(c)'
    BY <1>1, <1>g DEF SendLoad, WaitsIn, Op, Waiting
  <2>2. canon' = canon
    BY <1>1 DEF SendLoad, Disk
  <2> QED  BY <1>t, <2>1, <2>2 DEF Progress, Evaluated, Swapped, Reloaded, Copying
<1>2. CASE SendPromote(p)
  <2>1. task'[p].pc = "promote_wait" /\ task'[p].reply = "none" /\ task'[p].v = task[p].v
        /\ \A c \in calls' : Awaited(c)'
    BY <1>2, <1>g DEF SendPromote, WaitsIn, Op, Waiting
  <2>2. canon' = canon /\ Whole(models.shadow, task[p].v)
    BY <1>p, <1>2 DEF SendPromote, Disk, Progress, Evaluated
  <2> QED  BY <1>d, <1>t, <2>1, <2>2 DEF Progress, Evaluated, Swapped, Reloaded, Copying, Whole
<1>3. CASE SendReload(p)
  <2>1. task'[p].pc = "reload_wait" /\ task'[p].reply = "none" /\ task'[p].v = task[p].v
        /\ \A c \in calls' : Awaited(c)'
    BY <1>3, <1>g DEF SendReload, WaitsIn, Op, Waiting
  <2>2. /\ canon' = canon /\ Whole(models.primary, task[p].v)
        /\ canon.model = task[p].v /\ canon.meta = task[p].v
    BY <1>p, <1>3 DEF SendReload, Disk, Progress, Swapped
  <2> QED  BY <1>d, <1>t, <2>1, <2>2 DEF Progress, Evaluated, Swapped, Reloaded, Copying, Whole
<1>h. ASSUME calls' = calls, calls = {} PROVE \A c \in calls' : Awaited(c)'
  BY <1>h
<1>4. CASE LoadDone(p)
  <2>1. calls' = calls /\ calls = {} /\ canon' = canon
    BY <1>4, <1>f DEF LoadDone, Disk
  <2>2. Whole(models.shadow, task[p].v)
    BY <1>p, <1>4 DEF LoadDone, Progress, Evaluated
  <2>3. \/ task'[p].pc = "idle"
        \/ task'[p].pc = "promote" /\ task'[p].v = task[p].v
    BY <1>a, <1>4 DEF LoadDone, Goto, Finish, IdleTask, Task
  <2>4. Progress(p)'
    BY <1>d, <1>t, <2>1, <2>2, <2>3 DEF Progress, Evaluated, Swapped, Reloaded, Copying, Whole,
       Tabled, Promoting, Waiting
  <2> QED  BY <1>h, <2>1, <2>4
<1>5. CASE PromotionFailed(p)
  <2>1. calls' = calls /\ calls = {} /\ task'[p].pc = "idle"
    BY <1>a, <1>5, <1>f DEF PromotionFailed, Finish, IdleTask
  <2>2. Progress(p)'
    BY <2>1 DEF Progress, Evaluated, Swapped, Reloaded, Copying, Tabled, Promoting, Waiting
  <2> QED  BY <1>h, <2>1, <2>2
<1>6. CASE StartCopy(p)
  <2>1. /\ calls' = calls /\ calls = {} /\ canon' = canon
        /\ task'[p].pc = "copy_model" /\ task'[p].v = task[p].v
    BY <1>a, <1>6, <1>f DEF StartCopy, Disk, Goto, Task
  <2>2. Whole(models.primary, task[p].v)
    BY <1>p, <1>6 DEF StartCopy, Progress, Swapped
  <2>3. Progress(p)'
    BY <1>d, <1>t, <2>1, <2>2 DEF Progress, Evaluated, Swapped, Reloaded, Copying, Whole
  <2> QED  BY <1>h, <2>1, <2>3
<1>7. CASE CopyModel(p) \/ CopyMetadata(p) \/ CopyAggs(p) \/ CopyFill(p)
  <2>1. task[p].pc \notin Waiting
    BY <1>7 DEF CopyModel, CopyMetadata, CopyAggs, CopyFill, Copy, Waiting
  <2>2. calls' = calls /\ calls = {} /\ task'[p].v = task[p].v
    BY <1>a, <1>7, <1>f, <2>1 DEF CopyModel, CopyMetadata, CopyAggs, CopyFill, Copy, Goto, Task
  <2>3. Whole(models.primary, task[p].v)
    BY <1>p, <1>7 DEF CopyModel, CopyMetadata, CopyAggs, CopyFill, Copy, Progress, Swapped, Copying
  <2>c. canon \in Canon
    BY DEF TypeInv, TypeOK
  <2>4. CASE CopyModel(p)
    <3>1. /\ task'[p].pc = "copy_meta" /\ canon'.model = task[p].v
          /\ canon'.aggs = canon.aggs /\ canon'.fill = canon.fill
      BY <1>a, <1>v, <2>4, <2>c DEF CopyModel, Copy, Goto, Task, Canon
    <3>2. Progress(p)'
      BY <1>d, <1>t, <2>2, <2>3, <3>1 DEF Progress, Evaluated, Swapped, Reloaded, Copying, Whole
    <3> QED  BY <1>h, <2>2, <3>2
  <2>5. CASE CopyMetadata(p)
    <3>1. /\ task'[p].pc = "copy_aggs" /\ canon'.meta = task[p].v
          /\ canon'.model = canon.model /\ canon'.aggs = canon.aggs /\ canon'.fill = canon.fill
          /\ canon.model = task[p].v
      BY <1>a, <1>p, <1>v, <2>5, <2>c DEF CopyMetadata, Copy, Goto, Task, Canon, Progress
    <3>2. Progress(p)'
      BY <1>d, <1>t, <2>2, <2>3, <3>1 DEF Progress, Evaluated, Swapped, Reloaded, Copying, Whole
    <3> QED  BY <1>h, <2>2, <3>2
  <2>6. CASE CopyAggs(p) \/ CopyFill(p)
    <3>1. /\ task'[p].pc \in {"copy_fill", "reload"}
          /\ canon'.meta = canon.meta /\ canon'.model = canon.model
          /\ canon'.aggs = task[p].v /\ canon'.fill = task[p].v
      BY <1>a, <1>t, <2>6, <2>c DEF CopyAggs, CopyFill, Copy, Goto, Task, Canon
    <3>2. canon.model = task[p].v /\ canon.meta = task[p].v
      BY <1>p, <2>6 DEF CopyAggs, CopyFill, Copy, Progress
    <3>3. Progress(p)'
      BY <1>d, <2>2, <2>3, <3>1, <3>2 DEF Progress, Evaluated, Swapped, Reloaded, Copying, Whole
    <3> QED  BY <1>h, <2>2, <3>3
  <2> QED  BY <1>7, <2>4, <2>5, <2>6
<1>8. CASE ReloadDone(p)
  <2>1. calls' = calls /\ calls = {} /\ canon' = canon
    BY <1>8, <1>f DEF ReloadDone, Disk
  <2>2. /\ Whole(models.primary, task[p].v)
        /\ canon.model = task[p].v /\ canon.meta = task[p].v
        /\ engine = [aggs |-> task[p].v, fill |-> task[p].v]
    BY <1>p, <1>8 DEF ReloadDone, Progress, Swapped, Reloaded
  <2>3. \/ task'[p].pc = "idle"
        \/ task'[p].pc = "trigger" /\ task'[p].v = task[p].v
    BY <1>a, <1>8 DEF ReloadDone, Goto, Finish, IdleTask, Task
  <2>4. Progress(p)'
    BY <1>d, <1>t, <2>1, <2>2, <2>3 DEF Progress, Evaluated, Swapped, Reloaded, Copying, Whole,
       Tabled, Promoting, Waiting
  <2> QED  BY <1>h, <2>1, <2>4
<1>9. ~Timeout(p)
  BY DEF Timeout
<1> QED  BY <1>1, <1>2, <1>3, <1>4, <1>5, <1>6, <1>7, <1>8, <1>9 DEF PromotionStep

LEMMA CycleServer ==
    ASSUME Caller = {}, TypeInv, LockInv, RegistryInv, WholeInv, CycleInv, Undisturbed,
           \A kind : ~Disturb(kind), ServerStep
    PROVE  phase' = "up" /\ (\A c \in calls' : Awaited(c)') /\ \A k \in Job : Progress(k)'
<1>1. phase = "up"
  BY DEF CycleInv
<1>2. /\ ~(BeginLoad \/ FinishReload \/ FinishStart \/ LoadFails \/ RemoveShadowByHand)
      /\ \A c \in calls : ~ShadowLoadFails(c)
  BY <1>1 DEF BeginLoad, FinishReload, FinishStart, LoadFails, RemoveShadowByHand,
              ShadowLoadFails
<1>3. PICK c \in calls : ServeShadowLoad(c) \/ ServePromote(c) \/ ServeReloadFeatures(c)
  BY <1>2 DEF ServerStep
<1> DEFINE j == c.from
<1>a. Proc = Job /\ j \in Job /\ c.op \in Op /\ task[j] \in Task /\ task \in [Proc -> Task]
  BY DEF Proc, TypeInv, TypeOK, Call
<1>b. /\ c.open /\ c.v = task[j].v /\ task[j].pc = WaitsIn(c.op) /\ task[j].reply = "none"
  BY DEF CycleInv, Awaited
<1>c. \A k \in Proc \ {j} : task[k].pc = "idle"
  BY <1>a, <1>b, OthersIdle, WaitsInWaiting DEF Waiting
<1>4. calls \subseteq {c}
  <2> SUFFICES ASSUME NEW d \in calls PROVE d = c
    OBVIOUS
  <2>1. d \in Call /\ c \in Call /\ Awaited(d)
    BY DEF CycleInv, TypeInv, TypeOK
  <2>2. d.op \in Op /\ d.from \in Proc
    BY <2>1 DEF Call
  <2>3. d.from = j
    BY <1>c, <2>1, <2>2, WaitsInWaiting DEF Awaited, Waiting
  <2>4. WaitsIn(d.op) = WaitsIn(c.op) /\ d.v = c.v /\ d.open = c.open
    BY <1>b, <2>1, <2>3 DEF Awaited, Call
  <2>5. d.op = c.op
    BY <1>a, <2>2, <2>4 DEF WaitsIn, Op
  <2> QED  BY <2>1, <2>3, <2>4, <2>5 DEF Call
<1>5. ASSUME NEW reply, NEW got, Reply(c, reply, got)
      PROVE  /\ calls' = {}
             /\ \A k \in Proc \ {j} : task'[k] = task[k]
             /\ task'[j].reply = reply /\ task'[j].v = task[j].v /\ task'[j].pc = task[j].pc
  BY <1>4, <1>5, <1>a, <1>b DEF Reply, Task
<1>6. phase' = "up" /\ canon' = canon
  BY <1>1, <1>3 DEF ServeShadowLoad, ServePromote, ServeReloadFeatures, Disk
<1>7. ASSUME calls' = {}, \A k \in Proc \ {j} : task'[k] = task[k], Progress(j)'
      PROVE  (\A d \in calls' : Awaited(d)') /\ \A k \in Job : Progress(k)'
  <2>1. \A k \in Job \ {j} : Progress(k)'
    BY <1>7, <1>a, <1>c DEF Progress, Tabled, Promoting, Waiting, Evaluated, Swapped, Reloaded,
       Copying
  <2> QED  BY <1>7, <2>1
<1>p. Progress(j)
  BY <1>a DEF CycleInv
<1>t. canon.aggs = task[j].v /\ canon.fill = task[j].v
  BY <1>a, <1>b, <1>p, WaitsInWaiting DEF Progress, Tabled, Promoting
<1>v. c.v \in Version /\ c.v \in files.model /\ c.v \in files.meta
  BY DEF RegistryInv, RequestsRegistered, WholeInv, RegisteredAreSaved, Registered
<1>w. models \in Manager
  BY DEF TypeInv, TypeOK
<1>8. CASE ServeShadowLoad(c)
  <2>1. Reply(c, "ok", None) /\ models' = LoadShadow(models, c.v, TRUE) /\ task[j].pc = "load_wait"
    BY <1>8, <1>b, <1>v DEF ServeShadowLoad, WaitsIn
  <2>2. /\ calls' = {} /\ \A k \in Proc \ {j} : task'[k] = task[k]
        /\ task'[j].reply = "ok" /\ task'[j].v = task[j].v /\ task'[j].pc = "load_wait"
    BY <2>1, <1>5
  <2>3. Whole(models'.shadow, task[j].v)
    BY <2>1, <1>b, <1>w DEF LoadShadow, Whole, Manager
  <2>4. Progress(j)'
    BY <1>6, <1>t, <2>2, <2>3 DEF Progress, Evaluated, Swapped, Reloaded, Copying, Whole
  <2> QED  BY <1>6, <1>7, <2>2, <2>4
<1>9. CASE ServePromote(c)
  <2>1. task[j].pc = "promote_wait"
    BY <1>9, <1>b DEF ServePromote, WaitsIn
  <2>2. Whole(models.shadow, task[j].v)
    BY <1>b, <1>p, <2>1 DEF Progress, Evaluated
  <2>3. HasShadow(models)
    BY <1>b, <1>v, <2>2, PromotionAssumption DEF Whole, HasShadow, Known
  <2>4. models' = PromoteShadow(models) /\ \E got : Reply(c, "ok", got)
    BY <1>9, <2>3 DEF ServePromote
  <2>5. /\ calls' = {} /\ \A k \in Proc \ {j} : task'[k] = task[k]
        /\ task'[j].reply = "ok" /\ task'[j].v = task[j].v /\ task'[j].pc = "promote_wait"
    BY <2>1, <2>4, <1>5
  <2>6. Whole(models'.primary, task[j].v)
    BY <2>2, <2>4 DEF PromoteShadow, Whole
  <2>7. Progress(j)'
    BY <1>6, <1>t, <2>5, <2>6 DEF Progress, Evaluated, Swapped, Reloaded, Copying, Whole
  <2> QED  BY <1>6, <1>7, <2>5, <2>7
<1>10. CASE ServeReloadFeatures(c)
  <2>1. task[j].pc = "reload_wait" /\ models' = models
    BY <1>10, <1>b DEF ServeReloadFeatures, WaitsIn
  <2>2. /\ Whole(models.primary, task[j].v)
        /\ canon.model = task[j].v /\ canon.meta = task[j].v
    BY <1>p, <2>1 DEF Progress, Swapped
  <2>3. engine' = [aggs |-> task[j].v, fill |-> task[j].v] /\ Reply(c, "ok", None)
    BY <1>10, <1>b, <1>t, <1>v, PromotionAssumption DEF ServeReloadFeatures, Known
  <2>4. /\ calls' = {} /\ \A k \in Proc \ {j} : task'[k] = task[k]
        /\ task'[j].reply = "ok" /\ task'[j].v = task[j].v /\ task'[j].pc = "reload_wait"
    BY <2>1, <2>3, <1>5
  <2>5. Progress(j)'
    BY <1>6, <1>t, <2>1, <2>2, <2>3, <2>4
    DEF Progress, Evaluated, Swapped, Reloaded, Copying, Whole
  <2> QED  BY <1>6, <1>7, <2>4, <2>5
<1> QED  BY <1>3, <1>8, <1>9, <1>10

LEMMA CycleInductive ==
    ASSUME Caller = {}
    PROVE  Spec => []CycleInv
<1>1. ASSUME TypeInv, LockInv, RegistryInv, WholeInv, CycleInv, [Next]_vars
      PROVE  CycleInv'
  <2> SUFFICES ASSUME Undisturbed'
               PROVE  /\ phase' = "up"
                      /\ \A c \in calls' : Awaited(c)'
                      /\ \A k \in Job : Progress(k)'
    BY DEF CycleInv
  <2>1. Undisturbed /\ \A kind : ~Disturb(kind)
    BY <1>1, StillUndisturbed
  <2>2. ASSUME NEW j \in Job, JobStep(j)
        PROVE  phase' = "up" /\ calls' = {} /\ \A k \in Job : Progress(k)'
    BY <1>1, <2>1, <2>2, CycleJob
  <2>3. CASE UNCHANGED vars
    BY <1>1, <2>1, <2>3 DEF vars, CycleInv, Awaited, Progress, Evaluated, Swapped, Reloaded
  <2>4. ~CrashRetraining /\ ~CrashPrediction
    BY <2>1 DEF CrashRetraining, CrashPrediction
  <2> QED
    BY <1>1, <2>1, <2>2, <2>3, <2>4, CyclePromotion, CycleServer DEF Next
<1> QED
  BY CycleInit, TypeInductive, LockInductive, RegistryInductive, WholeInductive, <1>1, PTL DEF Spec

\* What an upload relies on when it triggers the pipeline run, as long as
\* nothing goes wrong and nobody promotes outside the lock: its model answers
\* under its own name, a restart would load the same pair, and inference uses
\* the tables of its training.
THEOREM AloneForcePrimary ==
    ASSUME Caller = {}
    PROVE  Spec => []ForcePrimaryHolds
<1>1. TypeInv /\ CycleInv => ForcePrimaryHolds
  <2> SUFFICES ASSUME TypeInv, CycleInv, NEW j \in Job, Undisturbed, task[j].pc = "trigger"
               PROVE  /\ models.primary.model = task[j].v
                      /\ RuntimeVersion(models.primary) = task[j].v
                      /\ canon = [model |-> task[j].v, meta |-> task[j].v,
                                  aggs |-> task[j].v, fill |-> task[j].v]
                      /\ engine = [aggs |-> task[j].v, fill |-> task[j].v]
    BY DEF ForcePrimaryHolds
  <2>1. Progress(j) /\ canon \in Canon
    BY DEF CycleInv, TypeInv, TypeOK
  <2>2. /\ Whole(models.primary, task[j].v)
        /\ canon.model = task[j].v /\ canon.meta = task[j].v
        /\ canon.aggs = task[j].v /\ canon.fill = task[j].v
        /\ engine = [aggs |-> task[j].v, fill |-> task[j].v]
    BY <2>1 DEF Progress, Swapped, Reloaded, Tabled, Promoting
  <2>3. canon = [model |-> task[j].v, meta |-> task[j].v, aggs |-> task[j].v, fill |-> task[j].v]
    BY <2>1, <2>2 DEF Canon
  <2>4. task[j].v # None
    BY PromotionAssumption DEF TypeInv, Equipped, Proc, Known
  <2> QED  BY <2>2, <2>3, <2>4 DEF Whole, RuntimeVersion
<1> QED  BY TypeInductive, CycleInductive, <1>1, PTL
=============================================================================
