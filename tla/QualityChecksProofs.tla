------------------------- MODULE QualityChecksProofs -------------------------
(* What is proved of QualityChecks for every value of its constants.         *)
EXTENDS QualityChecks, TLAPS

-----------------------------------------------------------------------------
(* Types *)

JobRecord == [pc: {"idle", "judge", "retrain", "promote"}, pairs: Seq(Cycle),
              shadow: Version \cup {None}, alert: BOOLEAN]

Verdict == [version: Version, win: BOOLEAN]

LEMMA SplitIsTyped ==
    ASSUME NEW pairs \in Seq(Cycle), NEW primary,
           NEW v \in TakenForShadow(pairs, primary)
    PROVE  v \in Version \cup {None}
<1>1. ASSUME NEW c \in Range(pairs)
      PROVE  c \in Cycle
  BY <1>1 DEF Range
<1>2. ASSUME NEW x \in Seen(pairs)
      PROVE  x \in Version
  <2>1. PICK c \in Range(pairs) : x \in {c.primary, c.shadow} /\ x # None
    BY <1>2 DEF Seen
  <2> QED
    BY <1>1, <2>1 DEF Cycle
<1> QED
  BY <1>2 DEF TakenForShadow

LEMMA IdleIsTyped == IdleJob \in JobRecord
BY DEF IdleJob, JobRecord

LEMMA IdleIsIdle == IdleJob.pc = "idle"
BY DEF IdleJob

LEMMA DecideIsTyped ==
    ASSUME job \in [Check -> JobRecord],
           NEW p \in Check, NEW v \in Version \cup {None}, NEW n, NEW alert \in BOOLEAN,
           Decide(p, v, n, alert)
    PROVE  job' \in [Check -> JobRecord]
<1>1. job[p] \in JobRecord
  OBVIOUS
<1>2. Promoting(p, v, alert) \in JobRecord
  BY <1>1 DEF Promoting, JobRecord
<1> QED
  BY <1>2, IdleIsTyped DEF Decide

LEMMA TypeOKInit == Init => TypeOK
BY QualityAssumption DEF Init, TypeOK, Cycle, IdleJob

\* What the history keeps: the new verdict last, the others as they were.
LEMMA RecordedShape ==
    ASSUME verdicts \in Seq(Verdict), Len(verdicts) <= Threshold,
           NEW v \in Version, NEW win \in BOOLEAN
    PROVE  LET kept == Recorded(v, win)
           IN  /\ kept \in Seq(Verdict)
               /\ Len(kept) \in Nat /\ Len(kept) <= Threshold
               /\ Len(kept) = IF Len(verdicts) < Threshold THEN Len(verdicts) + 1 ELSE Threshold
               /\ kept[Len(kept)] = [version |-> v, win |-> win]
               /\ \A i \in 1..(Len(kept) - 1) : kept[i] = verdicts[i + Len(verdicts) + 1 - Len(kept)]
<1> DEFINE old == verdicts
           r == [version |-> v, win |-> win]
           new == Append(old, r)
           kept == Recorded(v, win)
<1>0. r \in Verdict /\ kept = IF Len(new) > Threshold THEN Tail(new) ELSE new
  BY DEF Verdict, Recorded
<1> HIDE DEF kept
<1>1. Threshold \in Nat /\ Threshold >= 1
  BY QualityAssumption
<1>2. new \in Seq(Verdict) /\ Len(new) = Len(old) + 1 /\ Len(old) \in Nat
  <2> HIDE DEF r
  <2> QED
    BY <1>0
<1>3. new[Len(old) + 1] = r /\ \A i \in 1..Len(old) : new[i] = old[i]
  OBVIOUS
<1>4. CASE Len(old) < Threshold
  <2>1. kept = new /\ Len(kept) = Len(old) + 1
    BY <1>0, <1>1, <1>2, <1>4
  <2> HIDE DEF new
  <2> QED
    BY <1>1, <1>2, <1>3, <1>4, <2>1 DEF kept
<1>5. CASE Len(old) = Threshold
  <2>1. kept = Tail(new) /\ new # <<>>
    BY <1>0, <1>1, <1>2, <1>5
  <2> HIDE DEF new
  <2>2. kept \in Seq(Verdict) /\ Len(kept) = Threshold
    BY <1>1, <1>2, <1>5, <2>1
  <2>3. \A i \in 1..Threshold : kept[i] = new[i + 1]
    BY <1>1, <1>2, <1>5, <2>1, <2>2
  <2> QED
    BY <1>1, <1>2, <1>3, <1>5, <2>2, <2>3 DEF kept
<1> QED
  BY <1>1, <1>2, <1>4, <1>5

LEMMA ConcludeIsTyped ==
    ASSUME TypeOK, NEW p \in Check, NEW v \in Version \cup {None},
           NEW win \in BOOLEAN, NEW alert \in BOOLEAN,
           Conclude(p, v, win, alert), UNCHANGED <<slots, window, checks>>
    PROVE  TypeOK'
<1>1. job \in [Check -> JobRecord] /\ job[p] \in JobRecord
  BY DEF TypeOK, JobRecord
<1>2. job' \in [Check -> JobRecord]
  <2>1. CASE alert
    BY <1>1, <2>1, SMTT(30) DEF Conclude, JobRecord
  <2>2. CASE ~alert
    BY <1>1, <2>2, DecideIsTyped DEF Conclude
  <2> QED
    BY <2>1, <2>2
<1>3. CASE v = None
  BY <1>2, <1>3 DEF TypeOK, Conclude, JobRecord
<1>4. CASE v # None
  <2>1. v \in Version /\ streak' = NewStreak(v, win) /\ champion' = v
        /\ verdicts' = Recorded(v, win)
    BY <1>4 DEF Conclude
  <2>2. streak' \in Nat
    BY <2>1 DEF TypeOK, NewStreak
  <2>3. verdicts' \in Seq(Verdict) /\ Len(verdicts') <= Threshold
    <3>1. verdicts \in Seq(Verdict) /\ Len(verdicts) <= Threshold
      BY DEF TypeOK, Verdict
    <3> QED
      BY <2>1, <3>1, RecordedShape
  <2> QED
    BY <1>2, <1>4, <2>1, <2>2, <2>3 DEF TypeOK, JobRecord, Verdict
<1> QED
  BY <1>3, <1>4

\* A judgement concludes on one version seen in the window, or on none.
LEMMA JudgeConcludes ==
    ASSUME TypeOK, NEW p \in Check, Judge(p)
    PROVE  \E v \in Version \cup {None}, win \in BOOLEAN, alert \in BOOLEAN :
               Conclude(p, v, win, alert)
<1>1. PICK primary \in TakenForPrimary(job[p].pairs) :
          \E v \in TakenForShadow(job[p].pairs, primary), win, alert \in BOOLEAN :
              Conclude(p, v, win, alert)
  BY DEF Judge
<1>2. job[p].pairs \in Seq(Cycle)
  BY DEF TypeOK
<1> QED
  BY <1>1, <1>2, SplitIsTyped

LEMMA TypeOKStep == TypeOK /\ [Next]_vars => TypeOK'
<1> SUFFICES ASSUME TypeOK, [Next]_vars
             PROVE  TypeOK'
  OBVIOUS
<1>0. job \in [Check -> JobRecord]
  BY DEF TypeOK, JobRecord
<1>1. CASE PredictionCycle
  <2>1. Len(window) \in Nat /\ Lookback \in Nat /\ Lookback >= 1
    BY QualityAssumption DEF TypeOK
  <2>2. window' \in Seq(Cycle) /\ Len(window') <= Lookback
    <3>1. CASE Len(window) < Lookback
      BY <1>1, <2>1, <3>1 DEF PredictionCycle, TypeOK
    <3>2. CASE Len(window) = Lookback
      <4>1. Tail(window) \in Seq(Cycle) /\ Len(Tail(window)) = Lookback - 1
        BY <2>1, <3>2 DEF TypeOK
      <4>2. window' = Append(Tail(window), slots)
        BY <1>1, <2>1, <3>2 DEF PredictionCycle
      <4> QED
        BY <2>1, <4>1, <4>2 DEF TypeOK
    <3> QED
      BY <2>1, <3>1, <3>2 DEF TypeOK
  <2> QED
    BY <1>1, <2>2 DEF PredictionCycle, TypeOK
<1>2. ASSUME NEW v \in Named \cup {None},
             Deploy(v) \/ (v \in Named /\ PromoteElsewhere(v))
      PROVE  TypeOK'
  <2>1. slots' \in Cycle
    BY <1>2, QualityAssumption DEF Deploy, PromoteElsewhere, Promoted, TypeOK, Cycle
  <2> QED
    BY <1>2, <2>1 DEF Deploy, PromoteElsewhere, TypeOK
<1>3. ASSUME NEW p \in Check, Begin(p)
      PROVE  TypeOK'
  <2>1. job' \in [Check -> JobRecord]
    BY <1>0, <1>3 DEF Begin, JobRecord, TypeOK
  <2> QED
    BY <1>3, <2>1 DEF Begin, TypeOK, JobRecord
<1>4. ASSUME NEW p \in Check, Judge(p)
      PROVE  TypeOK'
  <2>1. PICK v \in Version \cup {None}, win \in BOOLEAN, alert \in BOOLEAN :
            Conclude(p, v, win, alert)
    BY <1>4, JudgeConcludes
  <2>2. UNCHANGED <<slots, window, checks>>
    BY <1>4 DEF Judge
  <2> QED
    BY <2>1, <2>2, ConcludeIsTyped
<1>5. ASSUME NEW p \in Check, Retrained(p)
      PROVE  TypeOK'
  <2>1. job[p].shadow \in Version \cup {None}
    BY <1>0 DEF JobRecord
  <2>2. job' \in [Check -> JobRecord]
    BY <1>0, <1>5, <2>1, DecideIsTyped DEF Retrained
  <2> QED
    BY <1>5, <2>2 DEF Retrained, TypeOK, JobRecord
<1>6. ASSUME NEW p \in Check, TriggerPromote(p)
      PROVE  TypeOK'
  <2>1. job' \in [Check -> JobRecord]
    BY <1>0, <1>6, IdleIsTyped DEF TriggerPromote
  <2>2. slots' \in Cycle
    BY <1>6, QualityAssumption DEF TriggerPromote, Promoted, TypeOK, Cycle
  <2> QED
    BY <1>6, <2>1, <2>2 DEF TriggerPromote, Settle, TypeOK, JobRecord
<1>7. CASE Restart
  BY <1>7, IdleIsTyped DEF Restart, TypeOK, JobRecord
<1>8. CASE UNCHANGED vars
  BY <1>8 DEF vars, TypeOK
<1> QED
  BY <1>1, <1>2, <1>3, <1>4, <1>5, <1>6, <1>7, <1>8 DEF Next

\* Type correctness of the quality checks, for any number of checks, versions,
\* wins required and cycles remembered.
THEOREM TypeCorrect == Spec => []TypeOK
BY TypeOKInit, TypeOKStep, PTL DEF Spec

-----------------------------------------------------------------------------
(* The streak *)

LEMMA VerdictExtends ==
    ASSUME TypeOK, StreakIsEarned, NEW v \in Version, NEW win \in BOOLEAN,
           streak' = NewStreak(v, win), champion' = v, verdicts' = Recorded(v, win)
    PROVE  StreakIsEarned'
<1> DEFINE n == IF streak < Threshold THEN streak ELSE Threshold
           k == IF streak' < Threshold THEN streak' ELSE Threshold
<1>1. /\ Threshold \in Nat /\ Threshold >= 1 /\ streak \in Nat
      /\ Len(verdicts) \in Nat /\ Len(verdicts) <= Threshold
  BY QualityAssumption DEF TypeOK
<1>2. /\ Len(verdicts') = IF Len(verdicts) < Threshold THEN Len(verdicts) + 1 ELSE Threshold
      /\ verdicts'[Len(verdicts')] = [version |-> v, win |-> win]
      /\ \A i \in 1..(Len(verdicts') - 1) :
            verdicts'[i] = verdicts[i + Len(verdicts) + 1 - Len(verdicts')]
  BY RecordedShape DEF TypeOK, Verdict
<1>3. CASE ~win
  <2>1. k = 0
    BY <1>1, <1>3 DEF NewStreak
  <2> QED
    BY <1>1, <1>2, <2>1 DEF StreakIsEarned, WonInARow
<1>4. CASE win /\ v # champion
  <2>1. k = 1
    BY <1>1, <1>4 DEF NewStreak
  <2>2. Len(verdicts') \in Nat /\ 1 <= Len(verdicts')
    BY <1>1, <1>2
  <2>3. ASSUME NEW i \in (Len(verdicts') - k + 1)..Len(verdicts')
        PROVE  verdicts'[i] = [version |-> v, win |-> TRUE]
    <3>1. i = Len(verdicts')
      BY <2>1, <2>2
    <3> QED
      BY <1>2, <1>4, <3>1
  <2> QED
    BY <2>1, <2>2, <2>3 DEF StreakIsEarned, WonInARow
<1>5. CASE win /\ v = champion
  <2>1. streak' = streak + 1
    BY <1>5 DEF NewStreak
  <2>2. n \in Nat /\ n <= Len(verdicts)
        /\ \A i \in (Len(verdicts) - n + 1)..Len(verdicts) : verdicts[i] = [version |-> v, win |-> TRUE]
    BY <1>1, <1>5 DEF StreakIsEarned, WonInARow
  <2>3. k \in Nat /\ k <= n + 1 /\ k <= Threshold
    BY <1>1, <2>1
  <2>4. k <= Len(verdicts')
    BY <1>1, <1>2, <2>2, <2>3
  <2>5. ASSUME NEW i \in (Len(verdicts') - k + 1)..Len(verdicts')
        PROVE  verdicts'[i] = [version |-> v, win |-> TRUE]
    <3> HIDE DEF n, k
    <3>1. i \in Int /\ i >= 1 /\ Len(verdicts') \in Nat
      BY <1>1, <1>2, <2>3, <2>4, <2>5
    <3>2. CASE i = Len(verdicts')
      BY <1>2, <1>5, <3>2
    <3>3. CASE i < Len(verdicts')
      <4> DEFINE o == i + Len(verdicts) + 1 - Len(verdicts')
      <4>1. verdicts'[i] = verdicts[o]
        BY <1>2, <3>1, <3>3
      <4>2. o \in (Len(verdicts) - n + 1)..Len(verdicts)
        BY <1>1, <2>2, <2>3, <2>5, <3>1, <3>3
      <4> QED
        BY <2>2, <4>1, <4>2
    <3> QED
      BY <2>5, <3>1, <3>2, <3>3
  <2> QED
    BY <2>1, <2>4, <2>5, <1>5 DEF StreakIsEarned, WonInARow
<1> QED
  BY <1>3, <1>4, <1>5

LEMMA StreakIsEarnedStep == TypeOK /\ StreakIsEarned /\ [Next]_vars => StreakIsEarned'
<1> SUFFICES ASSUME TypeOK, StreakIsEarned, [Next]_vars
             PROVE  StreakIsEarned'
  OBVIOUS
<1>1. ASSUME NEW p \in Check, Judge(p)
      PROVE  StreakIsEarned'
  <2>1. PICK v \in Version \cup {None}, win \in BOOLEAN, alert \in BOOLEAN :
            Conclude(p, v, win, alert)
    BY <1>1, JudgeConcludes
  <2>2. CASE v = None
    BY <2>1, <2>2 DEF Conclude, StreakIsEarned, WonInARow
  <2>3. CASE v # None
    <3>1. streak' = NewStreak(v, win) /\ champion' = v /\ verdicts' = Recorded(v, win)
      BY <2>1, <2>3 DEF Conclude
    <3> QED
      BY <2>3, <3>1, VerdictExtends
  <2> QED
    BY <2>2, <2>3
<1>2. CASE streak' = 0 /\ verdicts' = verdicts
  BY <1>2, QualityAssumption DEF StreakIsEarned, WonInARow, TypeOK
<1>3. CASE UNCHANGED <<streak, champion, verdicts>>
  BY <1>3 DEF StreakIsEarned, WonInARow
<1> QED
  BY <1>1, <1>2, <1>3 DEF Next, PredictionCycle, Deploy, PromoteElsewhere, Begin,
     Retrained, TriggerPromote, Settle, Restart, vars

\* The streak counts only consecutive wins of the version it names, however
\* many checks interleave and whatever becomes of their promotions.
THEOREM StreakEarned == Spec => []StreakIsEarned
<1>1. Init => StreakIsEarned
  BY QualityAssumption DEF Init, StreakIsEarned, WonInARow
<1> QED
  BY <1>1, TypeCorrect, StreakIsEarnedStep, PTL DEF Spec

LEMMA DecisionIsEarned ==
    ASSUME TypeOK, TypeOK', StreakIsEarned', [Next]_vars, NEW p \in Check, NEW v \in Version,
           job[p].pc # "promote", job'[p] = Promoting(p, v, FALSE)
    PROVE  WonInARow(v, Threshold)'
<1>1. job[p] \in JobRecord /\ job \in [Check -> JobRecord]
  BY DEF TypeOK, JobRecord
<1>2. job'[p].pc = "promote" /\ job'[p].shadow = v /\ job'[p].alert = FALSE
  BY <1>1 DEF Promoting, JobRecord
<1>3. Judge(p)
  <2>1. ASSUME NEW q \in Check, Judge(q), q # p
        PROVE  FALSE
    BY <1>1, <1>2, <2>1 DEF Judge, Conclude, Decide
  <2>2. ASSUME NEW q \in Check, Begin(q)
        PROVE  FALSE
    BY <1>1, <1>2, <2>2 DEF Begin, JobRecord
  <2>3. ASSUME NEW q \in Check, Retrained(q)
        PROVE  FALSE
    BY <1>1, <1>2, <2>3 DEF Retrained, Decide, Promoting, JobRecord, IdleJob
  <2>4. ASSUME NEW q \in Check, TriggerPromote(q)
        PROVE  FALSE
    BY <1>1, <1>2, <2>4 DEF TriggerPromote, IdleJob
  <2>5. ~Restart
    <3> SUFFICES ASSUME Restart
                 PROVE  FALSE
      OBVIOUS
    <3>1. job'[p] = IdleJob
      BY DEF Restart
    <3>2. job'[p].pc = "idle"
      BY <3>1, IdleIsIdle
    <3> QED
      BY <1>2, <3>2
  <2>6. job' # job
    BY <1>2
  <2> QED
    BY <2>1, <2>2, <2>3, <2>4, <2>5, <2>6 DEF Next, PredictionCycle, Deploy,
       PromoteElsewhere, vars
<1>4. PICK w \in Version \cup {None}, win \in BOOLEAN, alert \in BOOLEAN :
          Conclude(p, w, win, alert)
  BY <1>3, JudgeConcludes
<1>5. ~alert
  <2>1. ASSUME alert
        PROVE  job'[p].pc = "retrain"
    <3>1. job' = [job EXCEPT ![p].pc = "retrain", ![p].shadow = w, ![p].alert = TRUE]
      BY <1>4, <2>1 DEF Conclude
    <3> QED
      BY <1>1, <3>1 DEF JobRecord
  <2> QED
    BY <1>2, <2>1
<1>6. w = v /\ v # None /\ Reached(streak')
  <2>1. Decide(p, w, streak', FALSE)
    BY <1>4, <1>5 DEF Conclude
  <2>2. w # None /\ Reached(streak')
    <3>1. ASSUME ~(w # None /\ Reached(streak'))
          PROVE  job'[p] = IdleJob
      BY <1>1, <2>1, <3>1 DEF Decide
    <3>2. ASSUME job'[p] = IdleJob
          PROVE  FALSE
      BY <1>2, <3>2, IdleIsIdle
    <3> QED
      BY <3>1, <3>2
  <2>3. job'[p] = Promoting(p, w, FALSE)
    BY <1>1, <2>1, <2>2 DEF Decide
  <2>4. job'[p].shadow = w
    BY <1>1, <2>3 DEF Promoting, JobRecord
  <2> QED
    BY <1>2, <2>2, <2>4
<1>7. champion' = v
  BY <1>4, <1>6 DEF Conclude
<1>8. Threshold \in Nat /\ streak' \in Nat /\ streak' >= Threshold
  BY <1>6, QualityAssumption DEF Reached, TypeOK
<1>9. (IF streak' < Threshold THEN streak' ELSE Threshold) = Threshold
  BY <1>8
<1> QED
  BY <1>7, <1>9 DEF StreakIsEarned

\* Without an await between verdict and decision, a promotion is asked for only
\* after Threshold wins in a row of the version promoted.
THEOREM WinnersArePromoted == Spec => PromotesProvenWinner
<1>1. TypeOK /\ TypeOK' /\ StreakIsEarned' /\ [Next]_vars =>
        [\A p \in Check, v \in Version :
            (job[p].pc # "promote" /\ job'[p] = Promoting(p, v, FALSE)) =>
                WonInARow(v, Threshold)']_vars
  BY DecisionIsEarned
<1> QED
  BY <1>1, TypeCorrect, StreakEarned, PTL DEF Spec, PromotesProvenWinner
=============================================================================
