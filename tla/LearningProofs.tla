--------------------------- MODULE LearningProofs ---------------------------
(* What holds of the features, the split and the submissions of Learning, for *)
(* any table, template, window and horizon.                                  *)
EXTENDS Learning, StatusHistoryProofs

-----------------------------------------------------------------------------
(* The two kinds of file *)

\* Whatever the columns and templates, no file that the dataset upload takes
\* for history is answered with a submission, and a file that one of the two
\* uploads sends on to the other is one the other takes (_looks_like_team_track,
\* _looks_like_history_snapshot).
THEOREM FilesHaveOneFlow == Spec => []FlowsAreExclusive
<1>1. FlowsAreExclusive
  <2> SUFFICES ASSUME NEW columns \in SUBSET Column
               PROVE  /\ AsHistory(columns) = "taken" =>
                             \A template \in Template : Submission(history, columns, template) = Refused
                      /\ AsHistory(columns) = "wrong_flow" => AsTemplate(columns) = "taken"
                      /\ AsTemplate(columns) = "wrong_flow" => AsHistory(columns) = "taken"
    BY DEF FlowsAreExclusive
  <2>1. AsHistory(columns) = "taken" => AsTemplate(columns) # "taken"
    BY DEF AsHistory, AsTemplate, LooksLikeHistory
  <2>2. \A template : AsTemplate(columns) # "taken" => Submission(history, columns, template) = Refused
    BY DEF Submission
  <2>3. AsHistory(columns) = "wrong_flow" => AsTemplate(columns) = "taken"
    BY DEF AsHistory, AsTemplate, LooksLikeHistory, LooksLikeTemplate, HistoryColumns, Column, Observed
  <2>4. AsTemplate(columns) = "wrong_flow" => AsHistory(columns) = "taken"
    BY DEF AsHistory, AsTemplate, LooksLikeHistory, LooksLikeTemplate, HistoryColumns, Column, Observed
  <2> QED  BY <2>1, <2>2, <2>3, <2>4
<1> QED  BY <1>1, PTL

-----------------------------------------------------------------------------
(* Newest steps *)

\* Of two steps, the later one is among the newest if the earlier one is.
LEMMA NewestAreLast ==
    ASSUME NEW times \in SUBSET Time, NEW n \in Nat,
           NEW t \in NewestTimes(times, n), NEW u \in times \ NewestTimes(times, n)
    PROVE  u < t
<1> DEFINE After(x) == {y \in times : y > x}
<1>1. LastStep \in Nat /\ Time \subseteq Nat /\ t \in Time /\ u \in Time
  BY StatusHistoryAssumption DEF NewestTimes, Time
<1>2. IsFiniteSet(times)
  BY <1>1, FS_BoundedSetOfNaturals DEF Time
<1>3. IsFiniteSet(After(t)) /\ After(t) \in SUBSET times
  BY <1>2, FS_Subset
<1>4. Cardinality(After(t)) < n /\ ~(Cardinality(After(u)) < n)
  BY DEF NewestTimes
<1>5. ASSUME t <= u PROVE FALSE
  <2>1. After(u) \in SUBSET After(t)
    <3>1. \A y \in times : y > u => y > t
      BY <1>1, <1>5
    <3> QED  BY <3>1
  <2>2. IsFiniteSet(After(u)) /\ Cardinality(After(u)) <= Cardinality(After(t))
    BY <1>3, <2>1, FS_Subset
  <2>3. Cardinality(After(u)) \in Nat /\ Cardinality(After(t)) \in Nat
    BY <1>3, <2>2, FS_CardinalityType
  <2> QED  BY <1>4, <2>2, <2>3
<1> QED  BY <1>1, <1>5

\* The newest steps are some of those there are, and not all of more.
LEMMA NewestAreSome ==
    ASSUME NEW times \in SUBSET Time, NEW n \in Nat
    PROVE  /\ NewestTimes(times, n) \subseteq times
           /\ times # {} /\ n # 0 => NewestTimes(times, n) # {}
           /\ Cardinality(times) > n => times \ NewestTimes(times, n) # {}
<1> DEFINE After(x) == {y \in times : y > x}
<1>1. LastStep \in Nat /\ times \in SUBSET Nat /\ \A t \in times : t <= LastStep
  BY StatusHistoryAssumption DEF Time
<1>2. IsFiniteSet(times) /\ Cardinality(times) \in Nat
  BY <1>1, FS_BoundedSetOfNaturals, FS_CardinalityType
<1>3. ASSUME times # {}, n # 0 PROVE NewestTimes(times, n) # {}
  <2> DEFINE last == Max(times)
  <2>1. last \in times /\ \A t \in times : t <= last
    BY <1>1, <1>3, MaxIsGreatest
  <2> HIDE DEF last
  <2>2. After(last) = {}
    <3>1. \A t \in times : t \in Nat /\ last \in Nat /\ t <= last
      BY <1>1, <2>1
    <3> QED  BY <3>1
  <2>3. Cardinality(After(last)) = 0
    BY <2>2, FS_EmptySet
  <2> QED  BY <1>3, <2>1, <2>3 DEF NewestTimes
<1>4. ASSUME Cardinality(times) > n PROVE times \ NewestTimes(times, n) # {}
  <2>1. times # {}
    BY <1>4, FS_EmptySet
  <2>2. PICK first \in times : \A t \in times : first <= t
    BY <1>1, <2>1, LeastNatural
  <2>3. After(first) = times \ {first}
    <3>1. \A t \in times : t \in Nat /\ first \in Nat /\ first <= t
      BY <1>1, <2>2
    <3>2. \A t \in times : t > first <=> t # first
      BY <3>1
    <3> QED  BY <3>2
  <2>4. Cardinality(After(first)) = Cardinality(times) - 1
    BY <1>2, <2>3, FS_RemoveElement
  <2>5. ~(Cardinality(After(first)) < n)
    BY <1>2, <1>4, <2>4
  <2> QED  BY <2>2, <2>5 DEF NewestTimes
<1>5. NewestTimes(times, n) \subseteq times
  BY DEF NewestTimes
<1> QED  BY <1>3, <1>4, <1>5

-----------------------------------------------------------------------------
(* Training *)

\* In every reachable state, with any number of routes whose rows end at
\* different steps: what is validated on is not empty, is later than every row
\* the model or its baseline has learned from, and something is left to learn
\* from (train_model, "last OOT_STEPS time steps").
THEOREM HoldoutStaysLater == Spec => []HoldoutIsLater
<1>1. HoldoutIsLater
  <2>1. SUFFICES ASSUME Trainable
                 PROVE  /\ Trained # {} /\ HeldOut # {}
                        /\ \A k \in HeldOut : \A u \in Trained \cup BaselineOf(k) : u[2] < k[2]
    BY DEF HoldoutIsLater
  <2>2. Frame \subseteq Route \X Time /\ FrameSteps \in SUBSET Time /\ OotSteps \in Nat \ {0}
    BY LearningAssumption DEF Frame, FrameSteps, TrainingRows, RowsOf
  <2>3. Cardinality(FrameSteps) > OotSteps
    BY <2>1 DEF Trainable
  <2>4. FrameSteps # {}
    BY <2>2, <2>3, FS_EmptySet
  <2>5. Trained # {}
    <3>1. PICK t \in FrameSteps : t \notin NewestTimes(FrameSteps, OotSteps)
      BY <2>2, <2>3, NewestAreSome
    <3>2. PICK k \in Frame : k[2] = t
      BY <3>1 DEF FrameSteps
    <3> QED  BY <3>1, <3>2 DEF Trained, HeldOut
  <2>6. HeldOut # {}
    <3>1. PICK t \in FrameSteps : t \in NewestTimes(FrameSteps, OotSteps)
      BY <2>2, <2>4, NewestAreSome
    <3>2. PICK k \in Frame : k[2] = t
      BY <3>1 DEF FrameSteps
    <3> QED  BY <3>1, <3>2 DEF HeldOut
  <2>7. ASSUME NEW k \in HeldOut, NEW u \in Trained PROVE u[2] < k[2]
    <3>1. k[2] \in NewestTimes(FrameSteps, OotSteps)
      BY DEF HeldOut
    <3>2. u[2] \in FrameSteps \ NewestTimes(FrameSteps, OotSteps)
      BY DEF Trained, HeldOut, FrameSteps
    <3> QED  BY <2>2, <3>1, <3>2, NewestAreLast
  <2>8. \A k \in HeldOut : BaselineOf(k) \subseteq Trained
    BY DEF BaselineOf
  <2> QED  BY <2>5, <2>6, <2>7, <2>8
<1> QED  BY <1>1, PTL

-----------------------------------------------------------------------------
(* Frames *)

\* Of a frame: no two of its rows are of one timestamp.
OneEach(rows) == \A x, y \in rows : x.at = y.at => x = y

AtOf(rows) == [x \in rows |-> x.at]

\* A frame is finite, and its rows have ranks.
LEMMA FrameFinite ==
    ASSUME NEW rows \in SUBSET FrameRow, OneEach(rows)
    PROVE  /\ IsFiniteSet(rows) /\ Cardinality(rows) \in Nat
           /\ AtOf(rows) \in [rows -> Int]
           /\ \A x, y \in rows : AtOf(rows)[x] = AtOf(rows)[y] => x = y
<1> DEFINE at == AtOf(rows)
<1>1. LastStep \in Nat /\ Time \in SUBSET Nat /\ \A t \in Time : t <= LastStep
  BY StatusHistoryAssumption DEF Time
<1>2. IsFiniteSet(Time)
  BY <1>1, FS_BoundedSetOfNaturals
<1>3. at \in [rows -> Time] /\ \A x, y \in rows : at[x] = at[y] => x = y
  BY DEF OneEach, FrameRow, AtOf
<1> HIDE DEF at
<1>4. at \in Injection(rows, Time)
  BY <1>3 DEF Injection, IsInjective
<1>5. IsFiniteSet(rows) /\ Cardinality(rows) \in Nat
  BY <1>2, <1>4, FS_Injection, FS_CardinalityType
<1>6. at \in [rows -> Int]
  <2>1. \A t \in Time : t \in Int
    BY <1>1
  <2> QED  BY <1>3, <2>1
<1> QED  BY <1>3, <1>5, <1>6 DEF at

\* The chronological sequence of a frame has its rows, all of them, by time.
LEMMA ChronologicalSorts ==
    ASSUME NEW rows \in SUBSET FrameRow, OneEach(rows)
    PROVE  /\ Chronological(rows) \in [1..Cardinality(rows) -> rows]
           /\ Chronological(rows) \in Seq(FrameRow)
           /\ Len(Chronological(rows)) = Cardinality(rows)
           /\ \A i \in 1..Cardinality(rows) : Rank(rows, AtOf(rows), Chronological(rows)[i]) = i - 1
<1> DEFINE n == Cardinality(rows)
           c == Chronological(rows)
<1>1. n \in Nat
  BY FrameFinite
<1>2. ASSUME NEW x \in rows
      PROVE  Rank(rows, AtOf(rows), x) = Cardinality({y \in rows : y.at < x.at})
  <2>1. {y \in rows : AtOf(rows)[y] < AtOf(rows)[x]} = {y \in rows : y.at < x.at}
    BY DEF AtOf
  <2> QED  BY <2>1 DEF Rank
<1>3. ASSUME NEW i \in 1..n PROVE c[i] \in rows /\ Rank(rows, AtOf(rows), c[i]) = i - 1
  <2>1. \E x \in rows : Rank(rows, AtOf(rows), x) = i - 1
    BY FrameFinite, RankedOnce
  <2>2. \E x \in rows : Cardinality({y \in rows : y.at < x.at}) = i - 1
    BY <1>2, <2>1
  <2>3. c[i] \in rows /\ Cardinality({y \in rows : y.at < c[i].at}) = i - 1
    BY <2>2 DEF Chronological
  <2> QED  BY <1>2, <2>3
<1>4. c = [i \in 1..n |-> c[i]]
  <2> DEFINE e(i) == CHOOSE x \in rows : Cardinality({y \in rows : y.at < x.at}) = i - 1
  <2>1. c = [i \in 1..n |-> e(i)]
    BY DEF Chronological
  <2> HIDE DEF e, c
  <2> QED  BY <2>1
<1> HIDE DEF c
<1>5. c \in [1..n -> rows]
  BY <1>3, <1>4
<1>6. c \in [1..n -> FrameRow]
  BY <1>5
<1>7. c \in Seq(FrameRow) /\ Len(c) = n
  BY <1>1, <1>6
<1> QED  BY <1>3, <1>5, <1>7 DEF c

\* It is the only one by time.
LEMMA ChronologicalOnly ==
    ASSUME NEW rows \in SUBSET FrameRow, OneEach(rows),
           NEW s \in [1..Cardinality(rows) -> rows],
           \A i, j \in 1..Cardinality(rows) : i < j => s[i].at < s[j].at
    PROVE  Chronological(rows) = s
<1>1. \A i, j \in 1..Cardinality(rows) : i < j => AtOf(rows)[s[i]] < AtOf(rows)[s[j]]
  BY DEF AtOf
<1>2. \A i \in 1..Cardinality(rows) : Rank(rows, AtOf(rows), s[i]) = i - 1
  <2>1. IsFiniteSet(rows) /\ AtOf(rows) \in [rows -> Int]
    BY FrameFinite
  <2> QED  BY <1>1, <2>1, SortedRank
<1>3. ASSUME NEW i \in 1..Cardinality(rows) PROVE Chronological(rows)[i] = s[i]
  <2>1. Rank(rows, AtOf(rows), Chronological(rows)[i]) = Rank(rows, AtOf(rows), s[i])
    BY <1>2, ChronologicalSorts
  <2>2. Chronological(rows)[i] \in rows /\ s[i] \in rows
    BY ChronologicalSorts
  <2> QED  BY <2>1, <2>2, FrameFinite, RankedOnce
<1> QED  BY <1>3, ChronologicalSorts

-----------------------------------------------------------------------------
(* Types *)

\* What is read for a prediction is a frame, with one row of each step.
LEMMA RowsTyped ==
    ASSUME NEW h \in History, NEW r \in Route, NEW times \in SUBSET Stored(h, r)
    PROVE  FrameRows(h, r, times) \in SUBSET FrameRow /\ OneEach(FrameRows(h, r, times))
<1> DEFINE Row1(t) == [at |-> t, seen |-> {<<r, h[r][t].seen>>},
                       label |-> IF h[r][t].label = None THEN None ELSE {<<r, h[r][t].label>>}]
<1>1. FrameRows(h, r, times) = {Row1(t) : t \in times}
  BY DEF FrameRows
<1>2. ASSUME NEW t \in times PROVE Row1(t) \in FrameRow /\ Row1(t).at = t
  <2>1. t \in Time /\ h[r][t] \in Row
    BY DEF History, Stored
  <2>2. h[r][t].seen \in Time /\ h[r][t].label \in Time \cup {None}
    BY <2>1 DEF Row
  <2> QED  BY <2>1, <2>2 DEF FrameRow, Observation
<1> HIDE DEF Row1
<1> QED  BY <1>1, <1>2 DEF OneEach

LEMMA RouteRowsTyped ==
    ASSUME NEW h \in History, NEW r \in Route
    PROVE  RouteRows(h, r) \in SUBSET FrameRow /\ OneEach(RouteRows(h, r))
<1>1. NewestTimes(Stored(h, r), HistoryWindow) \in SUBSET Stored(h, r)
  BY DEF NewestTimes
<1> QED  BY <1>1, RowsTyped DEF RouteRows

LEMMA WarehouseRowsTyped ==
    ASSUME NEW h \in History, NEW w
    PROVE  WarehouseRows(h, w) \in SUBSET FrameRow /\ OneEach(WarehouseRows(h, w))
<1> DEFINE times == NewestTimes({u \in Time : Of(h, w, u) # {}}, HistoryWindow)
           Row1(t) == [at |-> t, seen |-> {<<r, h[r][t].seen>> : r \in Of(h, w, t)},
                       label |-> IF SlotLabels(h, w, t) = {} THEN None ELSE SlotLabels(h, w, t)]
<1>1. WarehouseRows(h, w) = {Row1(t) : t \in times}
  BY DEF WarehouseRows
<1>2. times \in SUBSET Time
  BY DEF NewestTimes
<1> HIDE DEF times
<1>3. ASSUME NEW t \in times PROVE Row1(t) \in FrameRow /\ Row1(t).at = t
  <2>1. \A r \in Of(h, w, t) : r \in Route /\ h[r][t].seen \in Time
    BY <1>2 DEF Of, History, Row
  <2>2. {<<r, h[r][t].seen>> : r \in Of(h, w, t)} \in Observation
    BY <2>1 DEF Observation
  <2>3. SlotLabels(h, w, t) \in Observation
    BY <1>2, SlotLabelsTyped DEF Observation
  <2> QED  BY <1>2, <2>2, <2>3 DEF FrameRow
<1> HIDE DEF Row1
<1> QED  BY <1>1, <1>3 DEF OneEach

LEMMA FramesTyped ==
    ASSUME NEW rows \in SUBSET FrameRow, OneEach(rows), NEW current \in FrameRow
    PROVE  Frames(rows, current) \subseteq Seq(FrameRow)
<1> DEFINE Older == {x \in rows : x.at < current.at}
           Same == {x \in rows : x.at = current.at}
           Newer == {x \in rows : x.at > current.at}
<1>1. /\ Older \in SUBSET FrameRow /\ OneEach(Older)
      /\ Same \in SUBSET FrameRow /\ OneEach(Same)
      /\ Newer \in SUBSET FrameRow /\ OneEach(Newer)
  BY DEF OneEach
<1> HIDE DEF Older, Same, Newer
<1>2. /\ Chronological(Older) \in Seq(FrameRow) /\ Chronological(Same) \in Seq(FrameRow)
      /\ Chronological(Newer) \in Seq(FrameRow) /\ <<current>> \in Seq(FrameRow)
  BY <1>1, ChronologicalSorts
<1>3. Frames(rows, current) =
          {Chronological(Older) \o Chronological(Same) \o <<current>> \o Chronological(Newer),
           Chronological(Older) \o <<current>> \o Chronological(Same) \o Chronological(Newer)}
  BY DEF Frames, Older, Same, Newer
<1> QED  BY <1>2, <1>3

\* The three ways of writing a row.
LEMMA Moves ==
    ASSUME TypeOK, [Next]_vars
    PROVE  \/ UNCHANGED <<history, served, made>> /\ now' \in Time
           \/ history' = BackfillLabels(history, now) /\ UNCHANGED <<now, served, made>>
           \/ \E r \in Route, anchor \in Time, seen \in Time : Predict(r, anchor, seen)
<1>1. ASSUME Tick PROVE UNCHANGED <<history, served, made>> /\ now' \in Time
  BY <1>1, StatusHistoryAssumption DEF Tick, TypeOK, Time
<1>2. ASSUME NEW r \in Route, NEW t \in Time, PredictCarried(r, t)
      PROVE  \E anchor \in Time, seen \in Time : Predict(r, anchor, seen)
  <2> DEFINE L == LatestStatuses(history, {r}, t)
  <2>1. r \in DOMAIN L /\ Predict(r, t, L[r])
    BY <1>2 DEF PredictCarried
  <2>2. L \in [DOMAIN L -> Time]
    <3>1. history \in History /\ {r} \in SUBSET Route
      BY DEF TypeOK
    <3> QED  BY <3>1, LatestStatusesPast
  <2> HIDE DEF L
  <2>3. L[r] \in Time
    BY <2>1, <2>2
  <2> QED  BY <2>1, <2>3
<1>3. ASSUME NEW r \in Route, PredictMeasured(r)
      PROVE  \E anchor \in Time, seen \in Time : Predict(r, anchor, seen)
  BY <1>3 DEF PredictMeasured, TypeOK
<1>4. CASE UNCHANGED vars
  BY <1>4 DEF vars, TypeOK
<1>5. CASE Backfill
  BY <1>5 DEF Backfill
<1> QED  BY <1>1, <1>2, <1>3, <1>4, <1>5 DEF Next

LEMMA PredictTyped ==
    ASSUME TypeOK, NEW r \in Route, NEW anchor \in Time, NEW seen \in Time,
           Predict(r, anchor, seen)
    PROVE  TypeOK'
<1> DEFINE rows == RouteRows(history, r)
           grown == Appended(history, r, anchor, seen)
           current == [at |-> anchor, seen |-> {<<r, seen>>}, label |-> Zero]
           used == IF Cardinality(rows) < ColdStart THEN WarehouseRows(grown, Home[r]) ELSE rows
<1>0. history \in History /\ served \in [Route -> [Time -> Answer \cup {None}]] /\ made \in [Route -> Nat]
  BY DEF TypeOK
<1>1. grown \in History
  BY <1>0, AppendedHistory
<1>2. current \in FrameRow
  BY DEF FrameRow, Observation
<1>3. used \in SUBSET FrameRow /\ OneEach(used)
  <2>1. rows \in SUBSET FrameRow /\ OneEach(rows)
    BY <1>0, RouteRowsTyped
  <2>2. WarehouseRows(grown, Home[r]) \in SUBSET FrameRow /\ OneEach(WarehouseRows(grown, Home[r]))
    BY <1>1, WarehouseRowsTyped
  <2> QED  BY <2>1, <2>2
<1>4. history' = grown /\ now' = now /\ made' = [made EXCEPT ![r] = @ + 1]
  BY DEF Predict
<1>5. PICK frame \in Frames(used, current) :
          served' = [served EXCEPT ![r][anchor] =
              [frame |-> frame, past |-> FrameRows(history, r, Stored(history, r)),
               regular |-> ~(Cardinality(rows) < ColdStart)
                           /\ \A t \in Stored(history, r) : t < anchor]]
  BY DEF Predict
<1>6. frame \in Seq(FrameRow)
  BY <1>2, <1>3, <1>5, FramesTyped
<1>7. FrameRows(history, r, Stored(history, r)) \in SUBSET FrameRow
  BY <1>0, RowsTyped
<1> DEFINE regular == ~(Cardinality(rows) < ColdStart) /\ \A t \in Stored(history, r) : t < anchor
           answer == [frame |-> frame, past |-> FrameRows(history, r, Stored(history, r)),
                      regular |-> regular]
<1>8. regular \in BOOLEAN
  OBVIOUS
<1>9. served' = [served EXCEPT ![r][anchor] = answer]
  BY <1>5
<1> HIDE DEF regular, grown, used
<1>10. answer \in Answer
  BY <1>6, <1>7, <1>8 DEF Answer
<1> HIDE DEF answer
<1>11. served' \in [Route -> [Time -> Answer \cup {None}]]
  BY <1>0, <1>9, <1>10
<1>12. made' \in [Route -> Nat]
  BY <1>0, <1>4
<1> QED  BY <1>1, <1>4, <1>11, <1>12 DEF TypeOK

\* Types are kept, whatever is predicted, replayed and labelled in whatever
\* order: a frame is a sequence of complete rows, in either of the orders in
\* which rows of one timestamp may come, and the table holds what fits it.
THEOREM TypeCorrect == Spec => []TypeOK
<1>1. Init => TypeOK
  BY LearningAssumption DEF Init, TypeOK
<1>2. TypeOK /\ [Next]_vars => TypeOK'
  <2> SUFFICES ASSUME TypeOK, [Next]_vars PROVE TypeOK'
    OBVIOUS
  <2>1. CASE UNCHANGED <<history, served, made>> /\ now' \in Time
    BY <2>1 DEF TypeOK
  <2>2. CASE history' = BackfillLabels(history, now) /\ UNCHANGED <<now, served, made>>
    BY <2>2, BackfilledHistory DEF TypeOK
  <2> QED  BY <2>1, <2>2, Moves, PredictTyped
<1> QED  BY <1>1, <1>2, PTL DEF Spec

-----------------------------------------------------------------------------
(* Submissions *)

\* What holds of every template that is uploaded.
LEMMA TemplateTyped ==
    ASSUME NEW template \in Template
    PROVE  /\ IsFiniteSet(template)
           /\ \A x \in template : x.id \in Int /\ x.route \in Route /\ x.at \in Nat
           /\ \A x, y \in template : x.id = y.id => x = y
           /\ \A x \in template : x = [id |-> x.id, route |-> x.route, at |-> x.at]
BY LearningAssumption

\* The anchor of a route with rows is one of its steps, and the last.
LEMMA AnchorIsLast ==
    ASSUME NEW h \in History, NEW r \in Route, Stored(h, r) # {}
    PROVE  Anchor(h, r) \in Stored(h, r) /\ \A t \in Stored(h, r) : t <= Anchor(h, r)
<1>1. LastStep \in Nat /\ Stored(h, r) \in SUBSET Nat /\ \A t \in Stored(h, r) : t <= LastStep
  BY StatusHistoryAssumption DEF Stored, Time
<1> QED  BY <1>1, MaxIsGreatest DEF Anchor

\* In a template that matches, the place of a row among those of its route is
\* its distance from the anchor.
LEMMA StepIsDistance ==
    ASSUME NEW h \in History, NEW template \in Template, Matches(h, template), NEW x \in template
    PROVE  /\ Anchor(h, x.route) \in Nat
           /\ StepOf(template, x) = x.at - Anchor(h, x.route)
<1> DEFINE A == Anchor(h, x.route)
           G == Group(template, x.route)
           Upto == {y \in G : y.at <= x.at}
           at == [y \in G |-> y.at]
           some == [y \in Upto |-> y.at]
<1>1. /\ Stored(h, x.route) # {} /\ Cardinality(G) = Horizon
      /\ {y.at : y \in G} = A + 1 .. A + Horizon
  BY DEF Matches
<1>2. A \in Nat
  <2>1. x.route \in Route
    BY TemplateTyped
  <2>2. A \in Stored(h, x.route)
    BY <1>1, <2>1, AnchorIsLast
  <2> QED  BY <2>2, StatusHistoryAssumption DEF Stored, Time
<1>3. IsFiniteSet(G) /\ x \in G /\ Horizon \in Nat /\ \A y \in G : y.at \in Nat
  <2>1. IsFiniteSet(template) /\ G \in SUBSET template
    BY TemplateTyped DEF Group
  <2> QED  BY <2>1, FS_Subset, TemplateTyped, LearningAssumption DEF Group
<1> HIDE DEF A, G
<1>4. Cardinality(A + 1 .. A + Horizon) = Horizon
  BY <1>2, <1>3, FS_Interval
<1>5. at \in Surjection(G, A + 1 .. A + Horizon)
  BY <1>1 DEF Surjection
<1>6. at \in Injection(G, A + 1 .. A + Horizon)
  <2> HIDE DEF at
  <2> QED  BY <1>1, <1>3, <1>4, <1>5, FS_SurjSameCardinalityImpliesInj
<1>7. \A y, z \in G : y.at = z.at => y = z
  BY <1>6 DEF Injection, IsInjective
<1>8. x.at \in A + 1 .. A + Horizon
  BY <1>1, <1>3
<1>9. some \in Surjection(Upto, A + 1 .. x.at)
  <2>1. some \in [Upto -> A + 1 .. x.at]
    <3> SUFFICES ASSUME NEW y \in Upto PROVE y.at \in A + 1 .. x.at
      OBVIOUS
    <3>1. y.at \in A + 1 .. A + Horizon /\ y.at <= x.at
      BY <1>1
    <3> QED  BY <1>2, <1>8, <3>1
  <2>2. ASSUME NEW t \in A + 1 .. x.at PROVE \E y \in Upto : some[y] = t
    <3>1. t \in A + 1 .. A + Horizon /\ t <= x.at
      BY <1>2, <1>3, <1>8
    <3>2. PICK y \in G : y.at = t
      BY <1>1, <3>1
    <3> QED  BY <3>1, <3>2
  <2> HIDE DEF some, Upto
  <2> QED  BY <2>1, <2>2 DEF Surjection
<1>10. some \in Injection(Upto, A + 1 .. x.at)
  <2>1. some \in [Upto -> A + 1 .. x.at]
    BY <1>9 DEF Surjection
  <2> QED  BY <1>7, <2>1 DEF Injection, IsInjective
<1>11. Cardinality(Upto) = Cardinality(A + 1 .. x.at)
  <2>1. IsFiniteSet(Upto)
    BY <1>3, FS_Subset
  <2> HIDE DEF some, Upto
  <2> QED  BY <1>9, <1>10, <2>1, FS_Surjection
<1>12. Cardinality(A + 1 .. x.at) = x.at - A
  <2>1. x.at \in Int /\ A + 1 \in Int /\ A + 1 <= x.at
    BY <1>2, <1>3, <1>8
  <2>2. Cardinality(A + 1 .. x.at) = IF A + 1 > x.at THEN 0 ELSE x.at - (A + 1) + 1
    BY <2>1, FS_Interval
  <2> QED  BY <1>2, <2>1, <2>2
<1>13. StepOf(template, x) = Cardinality(Upto)
  BY DEF StepOf, G
<1> QED  BY <1>2, <1>11, <1>12, <1>13 DEF A

\* The row of a template with so many smaller ids.
ById(template, i) ==
    CHOOSE x \in template : Cardinality({y \in template : y.id < x.id}) = i - 1

LEMMA TemplateById ==
    ASSUME NEW template \in Template
    PROVE  /\ \A i \in 1..Cardinality(template) : ById(template, i) \in template
           /\ \A i, j \in 1..Cardinality(template) :
                  i < j => ById(template, i).id < ById(template, j).id
           /\ \A x \in template : \E i \in 1..Cardinality(template) : ById(template, i) = x
<1> DEFINE n == Cardinality(template)
           key == [x \in template |-> x.id]
<1>1. IsFiniteSet(template) /\ key \in [template -> Int]
      /\ \A x, y \in template : key[x] = key[y] => x = y
  BY TemplateTyped
<1>2. ASSUME NEW x \in template
      PROVE  Rank(template, key, x) = Cardinality({y \in template : y.id < x.id})
  <2>1. {y \in template : key[y] < key[x]} = {y \in template : y.id < x.id}
    OBVIOUS
  <2> QED  BY <2>1 DEF Rank
<1>3. \A x \in template : key[x] = x.id
  OBVIOUS
<1> HIDE DEF key
<1>4. ASSUME NEW i \in 1..n
      PROVE  ById(template, i) \in template /\ Rank(template, key, ById(template, i)) = i - 1
  <2>1. \E x \in template : Rank(template, key, x) = i - 1
    BY <1>1, RankedOnce
  <2>2. \E x \in template : Cardinality({y \in template : y.id < x.id}) = i - 1
    BY <1>2, <2>1
  <2>3. /\ ById(template, i) \in template
        /\ Cardinality({y \in template : y.id < ById(template, i).id}) = i - 1
    BY <2>2 DEF ById
  <2> QED  BY <1>2, <2>3
<1> DEFINE place == [i \in 1..n |-> ById(template, i)]
<1>5. \A i \in 1..n : place[i] \in template /\ Rank(template, key, place[i]) = i - 1
  BY <1>4
<1>6. \A i \in 1..n : place[i] = ById(template, i)
  OBVIOUS
<1> HIDE DEF place
<1>7. /\ \A i, j \in 1..n : i < j => key[place[i]] < key[place[j]]
      /\ \A x \in template : \E i \in 1..n : place[i] = x
  BY <1>1, <1>5, PlacesInOrder
<1> QED  BY <1>3, <1>4, <1>6, <1>7

\* For every table and every template, of any number of routes, in whatever
\* order of its rows and ids: an accepted template is answered in the order of
\* its ids, and each id with the forecast of its own route for its own
\* timestamp (evaluate_team_track, the cumcount of a sorted group).
LEMMA PairsSteps ==
    ASSUME NEW h \in History, NEW columns, NEW template \in Template,
           Submission(h, columns, template) # Refused
    PROVE  LET rows == Submission(h, columns, template)
           IN  /\ \A i, j \in DOMAIN rows : i < j => rows[i].id < rows[j].id
               /\ {[id |-> rows[i].id, route |-> rows[i].route,
                    at |-> Anchor(h, rows[i].route) + rows[i].step] : i \in DOMAIN rows}
                      = template
<1> DEFINE n == Cardinality(template)
           rows == Submission(h, columns, template)
           Entry(i) == [id |-> rows[i].id, route |-> rows[i].route,
                        at |-> Anchor(h, rows[i].route) + rows[i].step]
<1>1. Matches(h, template) /\ rows = [i \in 1..n |-> Predicted(template, ById(template, i))]
  BY DEF Submission, ById
<1>2. ASSUME NEW i \in 1..n
      PROVE  /\ ById(template, i) \in template
             /\ rows[i].id = ById(template, i).id
             /\ Entry(i) = ById(template, i)
  <2> DEFINE x == ById(template, i)
  <2>1. x \in template
    BY TemplateById
  <2>2. rows[i] = [id |-> x.id, route |-> x.route, step |-> StepOf(template, x)]
    BY <1>1 DEF Predicted
  <2> HIDE DEF x, rows
  <2>3. /\ x.at \in Nat /\ Anchor(h, x.route) \in Nat
        /\ StepOf(template, x) = x.at - Anchor(h, x.route)
    BY <1>1, <2>1, StepIsDistance, TemplateTyped
  <2>4. Anchor(h, x.route) + StepOf(template, x) = x.at
    BY <2>3
  <2>5. Entry(i) = [id |-> x.id, route |-> x.route, at |-> x.at]
    BY <2>2, <2>4
  <2>6. Entry(i) = x
    BY <2>1, <2>5, TemplateTyped
  <2> HIDE DEF Entry
  <2> QED  BY <2>1, <2>2, <2>6 DEF x
<1>3. DOMAIN rows = 1..n
  BY <1>1
<1> HIDE DEF rows, Entry
<1>4. \A i, j \in DOMAIN rows : i < j => rows[i].id < rows[j].id
  BY <1>2, <1>3, TemplateById
<1>5. {Entry(i) : i \in DOMAIN rows} = template
  BY <1>2, <1>3, TemplateById
<1> QED  BY <1>4, <1>5 DEF rows, Entry

\* Whatever the table and the templates, of any size and in any order of rows and
\* ids: each id of an accepted template gets, in the order of the ids, the forecast
\* of its own route and timestamp (evaluate_team_track).
THEOREM SubmissionsPairSteps == Spec => []SubmissionPairsSteps
<1>1. TypeOK => SubmissionPairsSteps
  <2> SUFFICES ASSUME TypeOK, NEW template \in Template,
                      Submission(history, TemplateColumns, template) # Refused
               PROVE  LET rows == Submission(history, TemplateColumns, template)
                      IN  /\ \A i, j \in DOMAIN rows : i < j => rows[i].id < rows[j].id
                          /\ {[id |-> rows[i].id, route |-> rows[i].route,
                               at |-> Anchor(history, rows[i].route) + rows[i].step] :
                                  i \in DOMAIN rows} = template
    BY DEF SubmissionPairsSteps
  <2> QED  BY PairsSteps DEF TypeOK
<1> QED  BY <1>1, TypeCorrect, PTL

-----------------------------------------------------------------------------
(* Steps in their order *)

\* The first n values of s are by size.
Increasing(s, n) == \A i, j \in 1..n : i < j => s[i] < s[j]

\* They are the steps of a set, by size.
Sorts(s, n, times) ==
    n \in Nat /\ n = Cardinality(times) /\ s \in [1..n -> times] /\ Increasing(s, n)

LEMMA StepsFinite ==
    ASSUME NEW times \in SUBSET Time
    PROVE  /\ IsFiniteSet(times) /\ Cardinality(times) \in Nat
           /\ \A t \in times : t \in Nat
<1>1. LastStep \in Nat /\ times \in SUBSET Nat /\ \A t \in times : t <= LastStep
  BY StatusHistoryAssumption DEF Time
<1> QED  BY <1>1, FS_BoundedSetOfNaturals, FS_CardinalityType

\* Any steps can be sorted.
LEMMA StepsSorted ==
    ASSUME NEW times \in SUBSET Time
    PROVE  \E s : Sorts(s, Cardinality(times), times)
<1> DEFINE n == Cardinality(times)
           key == [t \in times |-> t]
           s == [i \in 1..n |-> CHOOSE t \in times : Rank(times, key, t) = i - 1]
<1>1. /\ IsFiniteSet(times) /\ key \in [times -> Int]
      /\ \A t, u \in times : key[t] = key[u] => t = u
  BY StepsFinite
<1>2. \A t \in times : key[t] = t
  OBVIOUS
<1> HIDE DEF key
<1>3. \A i \in 1..n : \E t \in times : Rank(times, key, t) = i - 1
  BY <1>1, RankedOnce
<1>4. \A i \in 1..n : s[i] \in times /\ Rank(times, key, s[i]) = i - 1
  BY <1>3
<1>5. s \in [1..n -> times]
  BY <1>4
<1> HIDE DEF s
<1>6. \A i, j \in 1..n : i < j => key[s[i]] < key[s[j]]
  BY <1>1, <1>4, PlacesInOrder
<1>7. Increasing(s, n)
  BY <1>2, <1>4, <1>6 DEF Increasing
<1>8. n \in Nat
  BY StepsFinite
<1> QED  BY <1>5, <1>7, <1>8 DEF Sorts

\* Sorted, all steps are there.
LEMMA SortedAll ==
    ASSUME NEW times \in SUBSET Time, NEW n, NEW s, Sorts(s, n, times)
    PROVE  \A t \in times : \E i \in 1..n : s[i] = t
<1> DEFINE key == [t \in times |-> t]
<1>1. /\ IsFiniteSet(times) /\ key \in [times -> Int]
      /\ n = Cardinality(times) /\ s \in [1..Cardinality(times) -> times]
  BY StepsFinite DEF Sorts
<1>2. \A i, j \in 1..Cardinality(times) : i < j => key[s[i]] < key[s[j]]
  BY <1>1 DEF Increasing, Sorts
<1> HIDE DEF key
<1>3. \A t \in times : \E i \in 1..Cardinality(times) : s[i] = t
  BY <1>1, <1>2, SortedRank
<1> QED  BY <1>1, <1>3

\* How many of them are shown to a model.
Shown(n, k) == IF n <= k THEN n ELSE k

\* Of n values of s the last m.
Last(s, n, m) == [i \in 1..m |-> s[n - m + i]]

\* The newest steps are the last of those sorted.
LEMMA NewestSorted ==
    ASSUME NEW times \in SUBSET Time, NEW n, NEW s, Sorts(s, n, times), NEW k \in Nat
    PROVE  Sorts(Last(s, n, Shown(n, k)), Shown(n, k), NewestTimes(times, k))
<1> DEFINE m == Shown(n, k)
           q == [i \in 1..m |-> s[n - m + i]]
           N == NewestTimes(times, k)
<1>0. /\ n = Cardinality(times) /\ n \in Nat
      /\ s \in [1..n -> times] /\ Increasing(s, n)
  BY DEF Sorts
<1>1. n \in Nat /\ m \in Nat /\ m <= n /\ m <= k /\ (m = n \/ m = k)
  BY <1>0 DEF Shown
<1>2. \A i \in 1..n : s[i] \in times /\ s[i] \in Nat
  BY <1>0, StepsFinite
<1>3. ASSUME NEW i \in 1..n PROVE Cardinality({u \in times : u > s[i]}) = n - i
  <2> DEFINE After == {u \in times : u > s[i]}
             f == [j \in i + 1..n |-> s[j]]
  <2>1. IsFiniteSet(i + 1..n) /\ Cardinality(i + 1..n) = n - i
    <3>1. i + 1 \in Int /\ n \in Int /\ i \in Int /\ i <= n
      BY <1>1
    <3>2. /\ IsFiniteSet(i + 1..n)
          /\ Cardinality(i + 1..n) = IF i + 1 > n THEN 0 ELSE n - (i + 1) + 1
      BY <3>1, FS_Interval
    <3> QED  BY <3>1, <3>2
  <2>2. ASSUME NEW j \in i + 1..n PROVE j \in 1..n /\ i < j /\ f[j] \in After
    <3>1. j \in 1..n /\ i < j
      BY <1>1
    <3>2. s[i] < s[j]
      BY <1>0, <3>1 DEF Increasing
    <3> QED  BY <1>2, <3>1, <3>2
  <2>3. ASSUME NEW u \in After PROVE \E j \in i + 1..n : f[j] = u
    <3>1. PICK j \in 1..n : s[j] = u
      BY SortedAll
    <3>2. s[j] > s[i] /\ s[j] \in Nat /\ s[i] \in Nat
      BY <1>2, <3>1
    <3>3. ~(j < i) /\ j # i
      BY <1>0, <3>2 DEF Increasing
    <3>4. j \in i + 1..n
      BY <1>1, <3>3
    <3> QED  BY <3>1, <3>4
  <2>4. ASSUME NEW j \in i + 1..n, NEW l \in i + 1..n, f[j] = f[l] PROVE j = l
    <3>1. j \in 1..n /\ l \in 1..n /\ s[j] = s[l]
      BY <2>2, <2>4
    <3>2. ~(j < l) /\ ~(l < j)
      BY <1>0, <1>2, <3>1 DEF Increasing
    <3> QED  BY <1>1, <3>1, <3>2
  <2>5. f = [j \in i + 1..n |-> f[j]]
    OBVIOUS
  <2> HIDE DEF f, After
  <2>6. f \in Surjection(i + 1..n, After) /\ f \in Injection(i + 1..n, After)
    BY <2>2, <2>3, <2>4, <2>5 DEF Surjection, Injection, IsInjective
  <2>7. Cardinality(After) = n - i
    BY <2>1, <2>6, FS_Surjection
  <2> QED  BY <2>7 DEF After
<1>4. \A i \in 1..n : s[i] \in N <=> n - i < k
  BY <1>2, <1>3 DEF NewestTimes
<1>5. ASSUME NEW i \in 1..m
      PROVE  n - m + i \in 1..n /\ q[i] = s[n - m + i] /\ q[i] \in N
  <2>1. n - m + i \in 1..n /\ n - (n - m + i) < k
    BY <1>1
  <2> QED  BY <1>4, <2>1
<1>6. q \in [1..m -> N]
  BY <1>5
<1>7. Increasing(q, m)
  <2> SUFFICES ASSUME NEW i \in 1..m, NEW j \in 1..m, i < j PROVE q[i] < q[j]
    BY DEF Increasing
  <2>1. n - m + i < n - m + j
    BY <1>1
  <2> QED  BY <1>0, <1>5, <2>1 DEF Increasing
<1>8. ASSUME NEW t \in N PROVE \E i \in 1..m : q[i] = t
  <2>1. t \in times
    BY DEF NewestTimes
  <2>2. PICK j \in 1..n : s[j] = t
    BY <2>1, SortedAll
  <2>3. n - j < k
    BY <1>4, <2>2
  <2> DEFINE i == j - (n - m)
  <2>4. i \in 1..m /\ n - m + i = j
    BY <1>1, <2>3
  <2> QED  BY <1>5, <2>2, <2>4
<1>9. ASSUME NEW i \in 1..m, NEW j \in 1..m, q[i] = q[j] PROVE i = j
  <2>1. q[i] \in Nat /\ q[j] \in Nat
    BY <1>2, <1>5
  <2>2. ~(i < j) /\ ~(j < i)
    BY <1>7, <1>9, <2>1 DEF Increasing
  <2> QED  BY <1>1, <2>2
<1>10. IsFiniteSet(1..m) /\ Cardinality(1..m) = m
  BY <1>1, FS_Interval
<1> HIDE DEF q, m, N
<1>11. q \in Surjection(1..m, N) /\ q \in Injection(1..m, N)
  BY <1>6, <1>8, <1>9 DEF Surjection, Injection, IsInjective
<1>12. Cardinality(N) = m
  BY <1>10, <1>11, FS_Surjection
<1> QED  BY <1>1, <1>6, <1>7, <1>12 DEF q, m, N, Last, Sorts

\* n values of s and then another.
Then(s, n, t) == [i \in 1..n + 1 |-> IF i <= n THEN s[i] ELSE t]

\* A step later than all others comes last.
LEMMA LaterLast ==
    ASSUME NEW times \in SUBSET Time, NEW t \in Time, NEW n, NEW s, Sorts(s, n, times),
           \A u \in times : u < t
    PROVE  Sorts(Then(s, n, t), n + 1, times \cup {t})
<1> DEFINE q == Then(s, n, t)
<1>0. /\ n \in Nat /\ n = Cardinality(times)
      /\ s \in [1..n -> times] /\ Increasing(s, n)
      /\ \A i \in 1..n : q[i] = s[i]
      /\ q[n + 1] = t
      /\ q = [i \in 1..n + 1 |-> q[i]]
  BY DEF Sorts, Then
<1> HIDE DEF q
<1>1. n \in Nat /\ IsFiniteSet(times) /\ t \in Nat /\ t \notin times
  <2>1. t \in Nat
    BY StatusHistoryAssumption DEF Time
  <2>2. t \notin times
    BY <2>1
  <2> QED  BY <1>0, <2>1, <2>2, StepsFinite
<1>2. Cardinality(times \cup {t}) = n + 1
  BY <1>0, <1>1, FS_AddElement
<1>3. \A i \in 1..n + 1 : i \in 1..n \/ i = n + 1
  BY <1>1
<1>4. \A i \in 1..n + 1 : q[i] \in times \cup {t}
  BY <1>0, <1>3
<1>5. ASSUME NEW i \in 1..n + 1, NEW j \in 1..n + 1, i < j PROVE q[i] < q[j]
  <2>1. i \in 1..n /\ q[i] = s[i] /\ s[i] \in times
    <3>1. i \in 1..n
      BY <1>1, <1>5
    <3> QED  BY <1>0, <3>1
  <2>2. CASE j \in 1..n
    BY <1>0, <1>5, <2>1, <2>2 DEF Increasing
  <2>3. CASE j = n + 1
    BY <1>0, <2>1, <2>3
  <2> QED  BY <1>3, <2>2, <2>3
<1>6. q \in [1..n + 1 -> times \cup {t}]
  BY <1>0, <1>4
<1> QED  BY <1>0, <1>2, <1>5, <1>6 DEF Increasing, Sorts, q

-----------------------------------------------------------------------------
(* What a prediction was made from *)

\* A row of the table as a frame has it.
RowOf(h, r, t) ==
    [at |-> t, seen |-> {<<r, h[r][t].seen>>},
     label |-> IF h[r][t].label = None THEN None ELSE {<<r, h[r][t].label>>}]

\* A frame of the rows of some steps has them in the order of the steps.
LEMMA RowsInOrder ==
    ASSUME NEW h \in History, NEW r \in Route, NEW times \in SUBSET Stored(h, r),
           NEW n, NEW s, Sorts(s, n, times)
    PROVE  /\ n \in Nat
           /\ Chronological(FrameRows(h, r, times)) \in Seq(FrameRow)
           /\ Len(Chronological(FrameRows(h, r, times))) = n
           /\ \A i \in 1..n : Chronological(FrameRows(h, r, times))[i] = RowOf(h, r, s[i])
<1> DEFINE rows == FrameRows(h, r, times)
           f == [t \in times |-> RowOf(h, r, t)]
           q == [i \in 1..n |-> RowOf(h, r, s[i])]
<1>0. /\ n \in Nat /\ n = Cardinality(times)
      /\ s \in [1..n -> times] /\ Increasing(s, n)
  BY DEF Sorts
<1>1. rows = {RowOf(h, r, t) : t \in times}
  BY DEF FrameRows, RowOf
<1>2. \A t : RowOf(h, r, t).at = t
  BY DEF RowOf
<1>3. rows \in SUBSET FrameRow /\ OneEach(rows)
  BY RowsTyped
<1> HIDE DEF rows
<1>4. Cardinality(rows) = n
  <2>1. times \in SUBSET Time
    BY DEF Stored
  <2>2. f \in Surjection(times, rows) /\ f \in Injection(times, rows)
    BY <1>1, <1>2 DEF Surjection, Injection, IsInjective
  <2>3. IsFiniteSet(times)
    BY <2>1, StepsFinite
  <2> HIDE DEF f
  <2> QED  BY <1>0, <2>2, <2>3, FS_Surjection
<1>5. q \in [1..n -> rows]
  BY <1>0, <1>1
<1>6. \A i, j \in 1..n : i < j => q[i].at < q[j].at
  BY <1>0, <1>2 DEF Increasing
<1>7. Chronological(rows) = q
  <2> HIDE DEF q
  <2> QED  BY <1>3, <1>4, <1>5, <1>6, ChronologicalOnly
<1>8. Len(Chronological(rows)) = n /\ Chronological(rows) \in Seq(FrameRow)
  BY <1>3, <1>4, ChronologicalSorts
<1> QED  BY <1>0, <1>7, <1>8 DEF rows

\* If the current observation is the latest there is but one frame, and it
\* comes last.
LEMMA CurrentLast ==
    ASSUME NEW rows \in SUBSET FrameRow, OneEach(rows), NEW current \in FrameRow,
           \A x \in rows : x.at < current.at,
           NEW frame \in Frames(rows, current)
    PROVE  frame = Chronological(rows) \o <<current>>
<1> DEFINE Nothing == Chronological({})
<1>1. \A x \in rows : x.at \in Nat /\ current.at \in Nat
  <2>1. Time \subseteq Nat
    BY StatusHistoryAssumption DEF Time
  <2> QED  BY <2>1 DEF FrameRow
<1>2. /\ {x \in rows : x.at < current.at} = rows
      /\ {x \in rows : x.at = current.at} = {}
      /\ {x \in rows : x.at > current.at} = {}
  <2>1. \A x \in rows : x.at # current.at /\ ~(x.at > current.at)
    BY <1>1
  <2> QED  BY <2>1
<1>3. Nothing = <<>>
  <2>1. {} \in SUBSET FrameRow /\ OneEach({}) /\ Cardinality({}) = 0
    BY FS_EmptySet DEF OneEach
  <2>2. Nothing \in Seq(FrameRow) /\ Len(Nothing) = 0
    BY <2>1, ChronologicalSorts
  <2> HIDE DEF Nothing
  <2> QED  BY <2>2
<1>4. Chronological(rows) \in Seq(FrameRow) /\ <<current>> \in Seq(FrameRow)
  BY ChronologicalSorts
<1>5. Frames(rows, current) = {Chronological(rows) \o Nothing \o <<current>> \o Nothing,
                               Chronological(rows) \o <<current>> \o Nothing \o Nothing}
  BY <1>2 DEF Frames
<1> HIDE DEF Nothing
<1>6. \/ frame = Chronological(rows) \o <<>> \o <<current>> \o <<>>
      \/ frame = Chronological(rows) \o <<current>> \o <<>> \o <<>>
  BY <1>3, <1>5
<1>7. \A q \in Seq(FrameRow) : q \o <<>> = q
  OBVIOUS
<1> QED  BY <1>4, <1>6, <1>7

\* The observation that was posted, with the target nobody knows yet.
Posted(r, t, seen) == [at |-> t, seen |-> {<<r, seen>>}, label |-> Zero]

\* An ordinary prediction had before it a table without later rows, and was
\* made from the newest of those and the observation.
AnswerSound(r, t) ==
    (served[r][t] # None /\ served[r][t].regular) =>
        \E h \in History, seen \in Time :
            /\ \A u \in Stored(h, r) : u < t
            /\ served[r][t].past = FrameRows(h, r, Stored(h, r))
            /\ served[r][t].frame = Chronological(RouteRows(h, r)) \o <<Posted(r, t, seen)>>

AnswersInv == \A r \in Route, t \in Time : AnswerSound(r, t)

LEMMA PredictSound ==
    ASSUME TypeOK, AnswersInv, NEW r \in Route, NEW anchor \in Time, NEW seen \in Time,
           Predict(r, anchor, seen)
    PROVE  AnswersInv'
<1> DEFINE rows == RouteRows(history, r)
           grown == Appended(history, r, anchor, seen)
           cold == Cardinality(rows) < ColdStart
           current == Posted(r, anchor, seen)
           used == IF cold THEN WarehouseRows(grown, Home[r]) ELSE rows
           regular == ~cold /\ \A t \in Stored(history, r) : t < anchor
           past == FrameRows(history, r, Stored(history, r))
<1>0. history \in History /\ served \in [Route -> [Time -> Answer \cup {None}]]
  BY DEF TypeOK
<1>1. PICK frame \in Frames(used, current) :
          served' = [served EXCEPT ![r][anchor] = [frame |-> frame, past |-> past, regular |-> regular]]
  BY DEF Predict, Posted
<1>2. ASSUME regular
      PROVE  frame = Chronological(rows) \o <<current>> /\ \A t \in Stored(history, r) : t < anchor
  <2>1. frame \in Frames(rows, current) /\ \A t \in Stored(history, r) : t < anchor
    BY <1>1, <1>2
  <2>2. rows \in SUBSET FrameRow /\ OneEach(rows)
    BY <1>0, RouteRowsTyped
  <2>3. current \in FrameRow /\ current.at = anchor
    BY DEF FrameRow, Observation, Posted
  <2>4. \A x \in rows : x.at \in Stored(history, r)
    <3> DEFINE newest == NewestTimes(Stored(history, r), HistoryWindow)
    <3>1. newest \subseteq Stored(history, r)
      BY DEF NewestTimes
    <3>2. rows = {RowOf(history, r, u) : u \in newest}
      BY DEF RouteRows, FrameRows, RowOf
    <3> HIDE DEF newest
    <3> QED  BY <3>1, <3>2 DEF RowOf
  <2> HIDE DEF rows, current
  <2> QED  BY <2>1, <2>2, <2>3, <2>4, CurrentLast
<1> SUFFICES ASSUME NEW q \in Route, NEW t \in Time PROVE AnswerSound(q, t)'
  BY DEF AnswersInv
<1>3. CASE q = r /\ t = anchor
  <2>1. served'[q][t] = [frame |-> frame, past |-> past, regular |-> regular]
    BY <1>0, <1>1, <1>3
  <2>2. served'[q][t].regular = regular /\ served'[q][t].past = past /\ served'[q][t].frame = frame
    BY <2>1
  <2> SUFFICES ASSUME regular
               PROVE  \E h \in History, x \in Time :
                          /\ \A u \in Stored(h, q) : u < t
                          /\ served'[q][t].past = FrameRows(h, q, Stored(h, q))
                          /\ served'[q][t].frame = Chronological(RouteRows(h, q)) \o <<Posted(q, t, x)>>
    BY <2>2 DEF AnswerSound
  <2> QED  BY <1>0, <1>2, <1>3, <2>2
<1>4. CASE ~(q = r /\ t = anchor)
  <2>1. served'[q][t] = served[q][t]
    BY <1>0, <1>1, <1>4
  <2> QED  BY <2>1 DEF AnswersInv, AnswerSound
<1> QED  BY <1>3, <1>4

LEMMA AnswersInductive == Spec => []AnswersInv
<1>1. Init => AnswersInv
  BY DEF Init, AnswersInv, AnswerSound
<1>2. TypeOK /\ AnswersInv /\ [Next]_vars => AnswersInv'
  <2> SUFFICES ASSUME TypeOK, AnswersInv, [Next]_vars PROVE AnswersInv'
    OBVIOUS
  <2>1. CASE UNCHANGED served
    BY <2>1 DEF AnswersInv, AnswerSound
  <2> QED  BY <2>1, Moves, PredictSound
<1> QED  BY <1>1, <1>2, TypeCorrect, PTL DEF Spec

\* What is compared: the table that an ordinary prediction found is, but for
\* labels, the one that now precedes its anchor, and the observation it was
\* posted is the row at its anchor.
LEMMA ComparedTable ==
    ASSUME TypeOK, AnswersInv, NEW r \in Route, NEW t \in Time, Comparable(r, t)
    PROVE  \E h \in History :
               /\ Stored(h, r) = Stored(history, r) \cap 0..t - 1
               /\ \A u \in Stored(h, r) : u < t /\ h[r][u].seen = history[r][u].seen
               /\ served[r][t].past = FrameRows(h, r, Stored(h, r))
               /\ served[r][t].frame =
                      Chronological(RouteRows(h, r)) \o <<Posted(r, t, history[r][t].seen)>>
<1>1. /\ served[r][t] # None /\ served[r][t].regular /\ SameRows(r, t) /\ Current(r, t)
      /\ history \in History
  BY DEF Comparable, TypeOK
<1>2. PICK h \in History, x \in Time :
          /\ \A u \in Stored(h, r) : u < t
          /\ served[r][t].past = FrameRows(h, r, Stored(h, r))
          /\ served[r][t].frame = Chronological(RouteRows(h, r)) \o <<Posted(r, t, x)>>
  BY <1>1 DEF AnswersInv, AnswerSound
<1> DEFINE past == Stored(h, r)
           now1 == Stored(history, r) \cap 0..t - 1
           Seen1(g, u) == [at |-> u, seen |-> {<<r, g[r][u].seen>>}]
<1>3. {Seen1(h, u) : u \in past} = {Seen1(history, u) : u \in now1}
  <2>1. served[r][t].past = {RowOf(h, r, u) : u \in past}
    BY <1>2 DEF FrameRows, RowOf
  <2>2. {[at |-> y.at, seen |-> y.seen] : y \in served[r][t].past} = {Seen1(h, u) : u \in past}
    <3>1. \A u : [at |-> RowOf(h, r, u).at, seen |-> RowOf(h, r, u).seen] = Seen1(h, u)
      BY DEF RowOf
    <3> HIDE DEF past, Seen1
    <3> QED  BY <2>1, <3>1
  <2> QED  BY <1>1, <2>2 DEF SameRows
<1>4. \A u, v : Seen1(h, u) = Seen1(history, v) => u = v /\ h[r][u].seen = history[r][u].seen
  <2> SUFFICES ASSUME NEW u, NEW v, Seen1(h, u) = Seen1(history, v)
               PROVE  u = v /\ h[r][u].seen = history[r][u].seen
    OBVIOUS
  <2>1. Seen1(h, u).at = Seen1(history, v).at /\ Seen1(h, u).seen = Seen1(history, v).seen
    OBVIOUS
  <2>2. u = v /\ {<<r, h[r][u].seen>>} = {<<r, history[r][v].seen>>}
    BY <2>1
  <2>3. <<r, h[r][u].seen>> = <<r, history[r][v].seen>>
    BY <2>2
  <2> QED  BY <2>2, <2>3
<1> HIDE DEF Seen1, past, now1
<1>5. past = now1 /\ \A u \in past : h[r][u].seen = history[r][u].seen
  <2>1. ASSUME NEW u \in past PROVE u \in now1 /\ h[r][u].seen = history[r][u].seen
    <3>1. PICK v \in now1 : Seen1(h, u) = Seen1(history, v)
      BY <1>3
    <3> QED  BY <1>4, <3>1
  <2>2. ASSUME NEW v \in now1 PROVE v \in past
    <3>1. PICK u \in past : Seen1(h, u) = Seen1(history, v)
      BY <1>3
    <3> QED  BY <1>4, <3>1
  <2> QED  BY <2>1, <2>2
<1>6. x = history[r][t].seen
  <2> DEFINE c == Chronological(RouteRows(h, r))
             y == Posted(r, t, x)
  <2>1. c \in Seq(FrameRow) /\ y \in FrameRow
    <3>1. c \in Seq(FrameRow)
      BY RouteRowsTyped, ChronologicalSorts
    <3>2. y \in FrameRow
      BY DEF Posted, FrameRow, Observation
    <3> QED  BY <3>1, <3>2
  <2> HIDE DEF c, y
  <2>2. (c \o <<y>>)[Len(c \o <<y>>)] = y
    BY <2>1
  <2>3. {<<r, history[r][t].seen>>} = served[r][t].frame[Len(served[r][t].frame)].seen
    BY <1>1 DEF Current
  <2>4. served[r][t].frame = c \o <<y>>
    BY <1>2 DEF c, y
  <2>5. {<<r, history[r][t].seen>>} = y.seen
    BY <2>2, <2>3, <2>4
  <2>6. {<<r, history[r][t].seen>>} = {<<r, x>>}
    BY <2>5 DEF y, Posted
  <2>7. <<r, history[r][t].seen>> = <<r, x>>
    BY <2>6
  <2> QED  BY <2>7
<1> QED  BY <1>2, <1>5, <1>6 DEF past, now1

\* Such a frame.
LiveFrame(h, r, t, x) == Chronological(RouteRows(h, r)) \o <<Posted(r, t, x)>>

\* Row by row.
LEMMA LiveRows ==
    ASSUME NEW h \in History, NEW r \in Route, NEW t \in Time, NEW x \in Time,
           NEW n, NEW s, Sorts(s, n, Stored(h, r)), NEW m, m = Shown(n, HistoryWindow), NEW frame,
           frame = LiveFrame(h, r, t, x)
    PROVE  /\ n \in Nat /\ m \in Nat /\ m <= n
           /\ frame \in Seq(FrameRow) /\ Len(frame) = m + 1
           /\ \A i \in 1..m : frame[i] = RowOf(h, r, s[n - m + i])
           /\ frame[m + 1] = Posted(r, t, x)
<1> DEFINE newest == NewestTimes(Stored(h, r), HistoryWindow)
           q == Last(s, n, m)
           c == Chronological(RouteRows(h, r))
           y == Posted(r, t, x)
<1>1. Stored(h, r) \in SUBSET Time /\ HistoryWindow \in Nat
  BY LearningAssumption DEF Stored
<1>2. Sorts(q, m, newest)
  BY <1>1, NewestSorted
<1>3. newest \in SUBSET Stored(h, r)
  BY DEF NewestTimes
<1>4. n \in Nat /\ m \in Nat /\ m <= n
  BY <1>1 DEF Sorts, Shown
<1> HIDE DEF q, newest
<1>5. Len(c) = m /\ \A i \in 1..m : c[i] = RowOf(h, r, q[i])
  <2>1. RouteRows(h, r) = FrameRows(h, r, newest)
    BY DEF RouteRows, newest
  <2>2. /\ Len(Chronological(FrameRows(h, r, newest))) = m
        /\ \A i \in 1..m : Chronological(FrameRows(h, r, newest))[i] = RowOf(h, r, q[i])
    BY <1>2, <1>3, RowsInOrder
  <2> QED  BY <2>1, <2>2
<1>6. c \in Seq(FrameRow) /\ y \in FrameRow
  <2>1. c \in Seq(FrameRow)
    BY RouteRowsTyped, ChronologicalSorts
  <2>2. y \in FrameRow
    BY DEF Posted, FrameRow, Observation
  <2> QED  BY <2>1, <2>2
<1> HIDE DEF c, y
<1>7. /\ c \o <<y>> \in Seq(FrameRow) /\ Len(c \o <<y>>) = m + 1
      /\ \A i \in 1..m : (c \o <<y>>)[i] = c[i]
      /\ (c \o <<y>>)[m + 1] = y
  BY <1>4, <1>5, <1>6
<1>8. \A i \in 1..m : q[i] = s[n - m + i]
  BY DEF q, Last
<1> QED  BY <1>4, <1>5, <1>7, <1>8 DEF c, y, LiveFrame

\* All of these steps are the one and those before it.
Extends(all, times, t) == all = times \cup {t} /\ \A u \in times : u < t

\* A frame of the table's rows up to a step.
LEMMA FrameUpTo ==
    ASSUME NEW h \in History, NEW r \in Route, NEW t \in Stored(h, r),
           NEW times \in SUBSET Stored(h, r), NEW n, NEW s, Sorts(s, n, times),
           NEW all, Extends(all, times, t)
    PROVE  /\ n \in Nat /\ Cardinality(all) = n + 1
           /\ Chronological(FrameRows(h, r, all)) \in Seq(FrameRow)
           /\ Len(Chronological(FrameRows(h, r, all))) = n + 1
           /\ \A i \in 1..n : Chronological(FrameRows(h, r, all))[i] = RowOf(h, r, s[i])
           /\ Chronological(FrameRows(h, r, all))[n + 1] = RowOf(h, r, t)
<1> DEFINE q == Then(s, n, t)
           k == n + 1
           frame == Chronological(FrameRows(h, r, all))
<1>0. all = times \cup {t} /\ \A u \in times : u < t
  BY DEF Extends
<1>1. times \in SUBSET Time /\ t \in Time /\ all \in SUBSET Stored(h, r)
  BY <1>0 DEF Stored
<1>2. Sorts(q, k, all)
  BY <1>0, <1>1, LaterLast
<1>3. /\ n \in Nat /\ (\A i \in 1..n : i \in 1..k /\ q[i] = s[i])
      /\ k \in 1..k /\ q[k] = t
  BY DEF Sorts, Then
<1>4. k = Cardinality(all)
  BY <1>2 DEF Sorts
<1> HIDE DEF q, k
<1>5. frame \in Seq(FrameRow) /\ Len(frame) = k /\ \A i \in 1..k : frame[i] = RowOf(h, r, q[i])
  <2>1. /\ h \in History /\ r \in Route /\ all \in SUBSET Stored(h, r) /\ Sorts(q, k, all)
    BY <1>1, <1>2
  <2> QED  BY ONLY <2>1, RowsInOrder
<1> QED  BY <1>3, <1>4, <1>5 DEF k

-----------------------------------------------------------------------------
(* Team Track *)

\* Of no more steps than there is room for, all are the newest.
LEMMA AllAreNewest ==
    ASSUME NEW times \in SUBSET Time, NEW k \in Nat, Cardinality(times) <= k
    PROVE  NewestTimes(times, k) = times
<1>1. PICK s : Sorts(s, Cardinality(times), times)
  BY StepsSorted
<1>2. Cardinality(NewestTimes(times, k)) = Shown(Cardinality(times), k)
  BY <1>1, NewestSorted DEF Sorts
<1>3. NewestTimes(times, k) \in SUBSET times /\ IsFiniteSet(times)
  BY StepsFinite DEF NewestTimes
<1> QED  BY <1>2, <1>3, FS_Subset DEF Shown

\* The frame that Team Track makes of the table is that of the prediction.
LEMMA SameFrame ==
    ASSUME TypeOK, AnswersInv, NEW r \in Route, NEW t \in Time,
           Comparable(r, t), t = Anchor(history, r),
           served[r][t].past = FrameRows(history, r, Stored(history, r) \ {t}),
           Cardinality(Stored(history, r)) <= HistoryWindow
    PROVE  TeamFrame(history, r) = served[r][t].frame
<1>0. history \in History /\ HistoryWindow \in Nat /\ t \in Stored(history, r)
      /\ Stored(history, r) \in SUBSET Time
  BY LearningAssumption DEF TypeOK, Comparable, Current, Stored
<1>1. PICK h \in History :
          /\ Stored(h, r) = Stored(history, r) \cap 0..t - 1
          /\ \A u \in Stored(h, r) : u < t /\ h[r][u].seen = history[r][u].seen
          /\ served[r][t].past = FrameRows(h, r, Stored(h, r))
          /\ served[r][t].frame =
                 Chronological(RouteRows(h, r)) \o <<Posted(r, t, history[r][t].seen)>>
  BY ComparedTable
<1> DEFINE B == Stored(h, r)
           n == Cardinality(B)
           c == Posted(r, t, history[r][t].seen)
           team == Chronological(RouteRows(history, r))
<1>2. B \in SUBSET Time /\ B \in SUBSET Stored(history, r) /\ Stored(history, r) = B \cup {t}
  <2>1. \A u \in Stored(history, r) : u <= t /\ u \in Nat
    <3>1. \A u \in Stored(history, r) : u <= t
      BY <1>0, AnchorIsLast
    <3> QED  BY <1>0, <3>1, StepsFinite
  <2>2. \A u \in Stored(history, r) : u \in 0..t - 1 \/ u = t
    BY <1>0, <2>1
  <2> QED  BY <1>0, <1>1, <2>2
<1>3. \A u \in B : u < t
  BY <1>1
<1> HIDE DEF B
<1>4. PICK s : Sorts(s, n, B)
  BY <1>2, StepsSorted
<1>5. /\ n \in Nat /\ Cardinality(Stored(history, r)) = n + 1
      /\ team \in Seq(FrameRow) /\ Len(team) = n + 1
      /\ \A i \in 1..n : team[i] = RowOf(history, r, s[i])
      /\ team[n + 1] = RowOf(history, r, t)
  <2> DEFINE all == Stored(history, r)
  <2>1. RouteRows(history, r) = FrameRows(history, r, all)
    BY <1>0, <1>2, AllAreNewest DEF RouteRows
  <2>2. all = B \cup {t} /\ B \in SUBSET all
    BY <1>2
  <2> HIDE DEF n, all
  <2>3. /\ n \in Nat /\ Cardinality(all) = n + 1
        /\ Chronological(FrameRows(history, r, all)) \in Seq(FrameRow)
        /\ Len(Chronological(FrameRows(history, r, all))) = n + 1
        /\ \A i \in 1..n : Chronological(FrameRows(history, r, all))[i] = RowOf(history, r, s[i])
        /\ Chronological(FrameRows(history, r, all))[n + 1] = RowOf(history, r, t)
    <3>1. /\ history \in History /\ r \in Route /\ t \in Stored(history, r)
          /\ B \in SUBSET Stored(history, r) /\ Sorts(s, n, B) /\ Extends(all, B, t)
      BY <1>0, <1>2, <1>3, <1>4, <2>2 DEF Extends
    <3> QED  BY ONLY <3>1, FrameUpTo
  <2> QED  BY <2>1, <2>3 DEF all
<1>6. n = Shown(n, HistoryWindow)
  BY <1>0, <1>5 DEF Shown
<1>7. /\ served[r][t].frame \in Seq(FrameRow) /\ Len(served[r][t].frame) = n + 1
      /\ \A i \in 1..n : served[r][t].frame[i] = RowOf(h, r, s[n - n + i])
      /\ served[r][t].frame[n + 1] = c
  <2>1. history[r][t].seen \in Time
    BY <1>0 DEF Stored, History, Row
  <2>2. Sorts(s, n, Stored(h, r))
    BY <1>4 DEF B
  <2> HIDE DEF n
  <2>3. served[r][t].frame = LiveFrame(h, r, t, history[r][t].seen)
    BY <1>1 DEF LiveFrame
  <2> QED  BY <1>6, <2>1, <2>2, <2>3, LiveRows
<1>8. ASSUME NEW u \in B PROVE RowOf(h, r, u) = RowOf(history, r, u)
  <2>1. {RowOf(h, r, v) : v \in B} = {RowOf(history, r, v) : v \in B}
    <3>1. Stored(history, r) \ {t} = B
      <4>1. t \notin B
        BY <1>0, <1>2, <1>3, StepsFinite
      <4> QED  BY <1>2, <4>1
    <3>2. FrameRows(h, r, B) = FrameRows(history, r, B)
      BY <1>1, <3>1 DEF B
    <3> QED  BY <3>2 DEF FrameRows, RowOf
  <2>2. PICK v \in B : RowOf(h, r, u) = RowOf(history, r, v)
    BY <2>1
  <2>3. u = v
    BY <2>2 DEF RowOf
  <2> QED  BY <2>2, <2>3
<1>9. TeamFrame(history, r) = [team EXCEPT ![n + 1].label = Zero]
  BY <1>5 DEF TeamFrame
<1>10. [RowOf(history, r, t) EXCEPT !.label = Zero] = c
  <2>1. \A a, b, l : [[at |-> a, seen |-> b, label |-> l] EXCEPT !.label = Zero]
                         = [at |-> a, seen |-> b, label |-> Zero]
    OBVIOUS
  <2> QED  BY <2>1 DEF RowOf, Posted
<1> DEFINE mine == [team EXCEPT ![n + 1].label = Zero]
           live == served[r][t].frame
<1> HIDE DEF team, n, c
<1>11. team \in [1..n + 1 -> FrameRow] /\ live \in [1..n + 1 -> FrameRow]
  BY <1>5, <1>7
<1>12. ASSUME NEW i \in 1..n + 1 PROVE mine[i] = live[i]
  <2>1. CASE i \in 1..n
    <3>1. i # n + 1 /\ n - n + i = i /\ s[i] \in B
      BY <1>4, <1>5, <2>1 DEF Sorts
    <3>2. mine[i] = team[i]
      BY <1>11, <3>1
    <3> QED  BY <1>5, <1>7, <1>8, <2>1, <3>1, <3>2
  <2>2. CASE i = n + 1
    <3>1. mine[n + 1] = [team[n + 1] EXCEPT !.label = Zero]
      BY <1>11, <2>2
    <3> QED  BY <1>5, <1>7, <1>10, <2>2, <3>1
  <2> QED  BY <1>5, <2>1, <2>2
<1>13. mine = [i \in 1..n + 1 |-> mine[i]] /\ live = [i \in 1..n + 1 |-> live[i]]
  BY <1>11
<1> HIDE DEF mine, live
<1>14. mine = live
  BY <1>12, <1>13
<1> QED  BY <1>9, <1>14 DEF mine, live

\* From the first row on, and for any lags, windows and horizon: as long as no
\* label has come since, Team Track's features of a route are those its last
\* live prediction was made from, if one frame holds all its rows (team_track.py,
\* "reproduce the current inference feature contract").
THEOREM TeamTrackAgrees == Spec => []TeamTrackSeesTheSame
<1>1. TypeOK /\ AnswersInv => TeamTrackSeesTheSame
  BY SameFrame DEF TeamTrackSeesTheSame, TeamRow
<1> QED  BY <1>1, TypeCorrect, AnswersInductive, PTL

-----------------------------------------------------------------------------
(* The columns of statuses *)

\* Those of a row beside another are those of the two.
LEMMA StatusBeside ==
    ASSUME NEW x, NEW y
    PROVE  StatusPart(x ++ y) = StatusPart(x) ++ StatusPart(y)
<1> DEFINE z == x ++ y
           a == StatusPart(x)
           b == StatusPart(y)
           c == StatusPart(z)
           d == a ++ b
           S(n) == n[1] \in {"status", "statuses"}
<1>1. /\ DOMAIN z = DOMAIN x \cup DOMAIN y
      /\ \A n \in DOMAIN x : z[n] = x[n]
      /\ \A n \in DOMAIN y : n \notin DOMAIN x => z[n] = y[n]
  BY DEF ++
<1>2. /\ DOMAIN a = {n \in DOMAIN x : S(n)} /\ \A n \in DOMAIN x : S(n) => a[n] = x[n]
  BY DEF StatusPart
<1>3. /\ DOMAIN b = {n \in DOMAIN y : S(n)} /\ \A n \in DOMAIN y : S(n) => b[n] = y[n]
  BY DEF StatusPart
<1>4. /\ DOMAIN c = {n \in DOMAIN z : S(n)} /\ \A n \in DOMAIN z : S(n) => c[n] = z[n]
      /\ c = [n \in DOMAIN c |-> c[n]]
  BY DEF StatusPart
<1>5. /\ DOMAIN d = DOMAIN a \cup DOMAIN b
      /\ \A n \in DOMAIN a : d[n] = a[n]
      /\ \A n \in DOMAIN b : n \notin DOMAIN a => d[n] = b[n]
      /\ d = [n \in DOMAIN d |-> d[n]]
  BY DEF ++
<1> HIDE DEF z, a, b, c, d, S
<1>6. DOMAIN c = DOMAIN d
  BY <1>1, <1>2, <1>3, <1>4, <1>5
<1>7. \A n \in DOMAIN c : c[n] = d[n]
  BY <1>1, <1>2, <1>3, <1>4, <1>5
<1>8. c = d
  BY <1>4, <1>5, <1>6, <1>7
<1> QED  BY <1>8 DEF z, a, b, c, d

\* The statuses of a row of features, as it is filled in.
LEMMA StatusFilled ==
    ASSUME NEW x
    PROVE  StatusPart(FillNa(x)) = FillNa(StatusPart(x))
<1> DEFINE z == FillNa(x)
           a == StatusPart(x)
           c == StatusPart(z)
           d == FillNa(a)
           S(n) == n[1] \in {"status", "statuses"}
<1>1. DOMAIN z = DOMAIN x /\ \A n \in DOMAIN x : z[n] = IF x[n] = None THEN Filled ELSE x[n]
  BY DEF FillNa
<1>2. /\ DOMAIN a = {n \in DOMAIN x : S(n)} /\ \A n \in DOMAIN x : S(n) => a[n] = x[n]
  BY DEF StatusPart
<1>3. /\ DOMAIN c = {n \in DOMAIN z : S(n)} /\ \A n \in DOMAIN z : S(n) => c[n] = z[n]
      /\ c = [n \in DOMAIN c |-> c[n]]
  BY DEF StatusPart
<1>4. /\ DOMAIN d = DOMAIN a /\ \A n \in DOMAIN a : d[n] = IF a[n] = None THEN Filled ELSE a[n]
      /\ d = [n \in DOMAIN d |-> d[n]]
  BY DEF FillNa
<1> HIDE DEF z, a, c, d, S
<1>5. DOMAIN c = DOMAIN d
  BY <1>1, <1>2, <1>3, <1>4
<1>6. \A n \in DOMAIN c : c[n] = d[n]
  BY <1>1, <1>2, <1>3, <1>4
<1>7. c = d
  BY <1>3, <1>4, <1>5, <1>6
<1> QED  BY <1>7 DEF z, a, c, d

\* Aligned to columns that have its statuses, a row keeps them.
LEMMA StatusAligned ==
    ASSUME NEW x, NEW names,
           DOMAIN StatusPart(x) = {n \in names : n[1] \in {"status", "statuses"}}
    PROVE  StatusPart(Aligned(x, names)) = StatusPart(x)
<1> DEFINE z == Aligned(x, names)
           a == StatusPart(x)
           c == StatusPart(z)
           S(n) == n[1] \in {"status", "statuses"}
<1>1. DOMAIN z = names /\ \A n \in names : z[n] = IF n \in DOMAIN x THEN x[n] ELSE None
  BY DEF Aligned
<1>2. /\ DOMAIN a = {n \in DOMAIN x : S(n)} /\ \A n \in DOMAIN x : S(n) => a[n] = x[n]
      /\ a = [n \in DOMAIN a |-> a[n]]
  BY DEF StatusPart
<1>3. /\ DOMAIN c = {n \in DOMAIN z : S(n)} /\ \A n \in DOMAIN z : S(n) => c[n] = z[n]
      /\ c = [n \in DOMAIN c |-> c[n]]
  BY DEF StatusPart
<1>4. DOMAIN a = {n \in names : S(n)}
  OBVIOUS
<1> HIDE DEF z, a, c, S
<1>5. DOMAIN c = DOMAIN a
  BY <1>1, <1>3, <1>4
<1>6. \A n \in DOMAIN c : c[n] = a[n]
  BY <1>1, <1>2, <1>3, <1>4
<1>7. c = a
  BY <1>2, <1>3, <1>5, <1>6
<1> QED  BY <1>7 DEF z, a, c

\* The row of no columns.
NoColumns == [n \in {} |-> None]

\* Rows without columns of statuses.
Elsewhere(x) == StatusPart(x) = NoColumns

\* A column of another name is not one of them.
LEMMA SingleElsewhere ==
    ASSUME NEW name, name # "status", name # "statuses", NEW value
    PROVE  Elsewhere(Single(name, value))
<1> DEFINE z == Single(name, value)
           c == StatusPart(z)
<1>1. DOMAIN z = {<<name>>} /\ \A n \in DOMAIN z : n[1] = name
  BY DEF Single
<1>2. /\ DOMAIN c = {n \in DOMAIN z : n[1] \in {"status", "statuses"}}
      /\ c = [n \in DOMAIN c |-> c[n]]
  BY DEF StatusPart
<1> HIDE DEF z, c
<1>3. DOMAIN c = {}
  BY <1>1, <1>2
<1>4. c = NoColumns
  BY <1>2, <1>3 DEF NoColumns
<1> QED  BY <1>4 DEF c, z, Elsewhere

\* Nor are the features of another series.
LEMMA SeriesElsewhere ==
    ASSUME NEW name, name # "status", name # "statuses", NEW s, NEW side
    PROVE  Elsewhere(SeriesFeatures(name, s, side))
<1> DEFINE z == SeriesFeatures(name, s, side)
           c == StatusPart(z)
<1>1. DOMAIN z = SeriesNames(name)
  BY DEF SeriesFeatures
<1>2. \A n \in SeriesNames(name) : n[1] = name
  BY DEF SeriesNames
<1>3. /\ DOMAIN c = {n \in DOMAIN z : n[1] \in {"status", "statuses"}}
      /\ c = [n \in DOMAIN c |-> c[n]]
  BY DEF StatusPart
<1> HIDE DEF z, c
<1>4. DOMAIN c = {}
  BY <1>1, <1>2, <1>3
<1>5. c = NoColumns
  BY <1>3, <1>4 DEF NoColumns
<1> QED  BY <1>5 DEF c, z, Elsewhere

\* Beside no columns a row is what it was.
LEMMA NothingBeside ==
    ASSUME NEW x, x = [n \in DOMAIN x |-> x[n]]
    PROVE  NoColumns ++ x = x /\ x ++ NoColumns = x
<1> DEFINE a == NoColumns ++ x
           b == x ++ NoColumns
<1>1. DOMAIN NoColumns = {}
  BY DEF NoColumns
<1>2. /\ DOMAIN a = DOMAIN x /\ \A n \in DOMAIN x : a[n] = x[n]
      /\ a = [n \in DOMAIN a |-> a[n]]
  BY <1>1 DEF ++
<1>3. /\ DOMAIN b = DOMAIN x /\ \A n \in DOMAIN x : b[n] = x[n]
      /\ b = [n \in DOMAIN b |-> b[n]]
  BY <1>1 DEF ++
<1> HIDE DEF a, b
<1>4. a = x /\ b = x
  BY <1>2, <1>3
<1> QED  BY <1>4 DEF a, b
-----------------------------------------------------------------------------
(* Features of a series *)

\* The last values of a series.
LEMMA NewestOf ==
    ASSUME NEW V, NEW s \in Seq(V), NEW n \in Nat, Len(s) = n,
           NEW k \in Nat, NEW m \in Nat, m = Shown(n, k)
    PROVE  /\ Newest(s, k) \in Seq(V) /\ Len(Newest(s, k)) = m
           /\ \A i \in 1..m : Newest(s, k)[i] = s[n - m + i]
<1> DEFINE f == IF n > k THEN n - k + 1 ELSE 1
<1>1. n \in Nat
  OBVIOUS
<1>2. m \in Nat /\ m <= n
  BY <1>1 DEF Shown
<1>3. f \in Nat /\ f >= 1 /\ f = n - m + 1
  <2>1. CASE n <= k
    <3>1. m = n /\ f = 1
      BY <1>1, <2>1 DEF Shown
    <3> QED  BY <1>1, <3>1
  <2>2. CASE ~(n <= k)
    <3>1. m = k /\ f = n - k + 1
      BY <1>1, <2>2 DEF Shown
    <3> QED  BY <1>1, <2>2, <3>1
  <2> QED  BY <2>1, <2>2
<1>4. Newest(s, k) = SubSeq(s, f, n)
  BY DEF Newest
<1> HIDE DEF f
<1>5. \A i \in f..n : i \in 1..n /\ s[i] \in V
  BY <1>1, <1>3
<1>6. SubSeq(s, f, n) \in Seq(V)
  BY <1>1, <1>3, <1>5
<1>7. Len(SubSeq(s, f, n)) = m
  BY <1>1, <1>2, <1>3
<1>8. \A i \in 1..m : SubSeq(s, f, n)[i] = s[f + i - 1] /\ f + i - 1 = n - m + i
  BY <1>1, <1>2, <1>3
<1> QED  BY <1>4, <1>6, <1>7, <1>8

\* All of a series but its last value.
LEMMA BeforeOf ==
    ASSUME NEW V, NEW s \in Seq(V), NEW n \in Nat, Len(s) = n + 1
    PROVE  /\ Before(s) \in Seq(V) /\ Len(Before(s)) = n
           /\ \A i \in 1..n : Before(s)[i] = s[i]
  BY DEF Before

\* A window without NaN is all valid.
LEMMA ValidAll ==
    ASSUME NEW V, NEW w \in Seq(V), None \notin V
    PROVE  Valid(w) = w /\ ~Holds(w, None)
<1>1. w = [i \in DOMAIN w |-> w[i]] /\ \A i \in DOMAIN w : w[i] # None
  OBVIOUS
<1> QED  BY <1>1 DEF Valid, Holds

\* Of a window that knows all its values the engine makes what the trainer does.
LEMMA StatsAgree ==
    ASSUME NEW V, NEW a \in Seq(V), NEW b \in Seq(V), None \notin V,
           NEW kind, NEW k \in Nat, NEW w \in Seq(V),
           Newest(Before(a), k) = w, Newest(Before(b), k) = w
    PROVE  ServingStat(kind, a, k) = TrainingStat(kind, b, k)
<1>1. Valid(w) = w /\ ~Holds(w, None)
  BY ValidAll
<1>2. DOMAIN w = 1..Len(w) /\ Len(w) \in Nat
  OBVIOUS
<1>3. Cardinality(DOMAIN w) = Len(w)
  <2> DEFINE l == Len(w)
  <2>1. l \in Int /\ 1 \in Int
    BY <1>2
  <2> HIDE DEF l
  <2>2. Cardinality(1..l) = IF 1 > l THEN 0 ELSE l - 1 + 1
    BY ONLY <2>1, FS_Interval
  <2>3. l \in Nat /\ DOMAIN w = 1..l
    BY <1>2 DEF l
  <2>4. (IF 1 > l THEN 0 ELSE l - 1 + 1) = l
    BY <2>3
  <2>5. Cardinality(DOMAIN w) = l
    BY <2>2, <2>3, <2>4
  <2> QED  BY <2>5 DEF l
<1>4. w = <<>> <=> DOMAIN w = {}
  <2>1. Len(w) = 0 => w = <<>>
    OBVIOUS
  <2>2. Len(w) # 0 => 1 \in DOMAIN w
    BY <1>2
  <2>3. w = <<>> => DOMAIN w = {}
    OBVIOUS
  <2> QED  BY <2>1, <2>2, <2>3
<1> QED  BY <1>1, <1>3, <1>4 DEF ServingStat, TrainingStat

\* Where the end of a long series is the whole of a short one, and that is long
\* enough for every lag, period and window, their features are the same.
LEMMA SeriesAgree ==
    ASSUME NEW V, None \notin V, NEW a \in Seq(V), NEW b \in Seq(V),
           NEW n \in Nat, NEW m \in Nat, m = Shown(n, HistoryWindow),
           Len(a) = m + 1, Len(b) = n + 1, \A i \in 1..m + 1 : a[i] = b[n - m + i]
    PROVE  SeriesFeatures("status", a, "serving") = SeriesFeatures("status", b, "training")
<1>1. /\ Lags \cup Periods \cup Windows \subseteq Nat \ {0} /\ HistoryWindow \in Nat
      /\ \A k \in Lags \cup Periods \cup Windows : k <= HistoryWindow
  BY LearningAssumption
<1>2. m \in Nat /\ m <= n /\ (m = n \/ m = HistoryWindow)
  BY <1>1 DEF Shown
<1>3. ASSUME NEW k \in Nat \ {0}, k <= HistoryWindow
      PROVE  /\ k < Len(a) <=> k < Len(b)
             /\ k < Len(a) => a[Len(a) - k] = b[Len(b) - k] /\ a[Len(a) - k] \in V
  <2> DEFINE i == m + 1 - k
  <2>0. k \in Nat /\ k >= 1
    OBVIOUS
  <2>1. k < m + 1 <=> k < n + 1
    BY <1>1, <1>2, <1>3, <2>0
  <2>2. ASSUME k < m + 1 PROVE i \in 1..m + 1 /\ n - m + i = n + 1 - k
    <3>1. k <= m /\ m \in Nat /\ n \in Nat
      BY <1>2, <2>0, <2>2
    <3> QED  BY <2>0, <3>1
  <2> HIDE DEF i
  <2>3. ASSUME k < m + 1 PROVE a[i] = b[n + 1 - k] /\ a[i] \in V
    <3>1. a[i] = b[n - m + i] /\ a[i] \in V
      BY <2>2, <2>3
    <3> QED  BY <2>2, <2>3, <3>1
  <2>4. (k < m + 1 <=> k < n + 1) /\ (k < m + 1 => a[m + 1 - k] = b[n + 1 - k] /\ a[m + 1 - k] \in V)
    BY <2>1, <2>3 DEF i
  <2>5. /\ (k < Len(a) <=> k < m + 1) /\ (k < Len(b) <=> k < n + 1)
        /\ Len(a) - k = m + 1 - k /\ Len(b) - k = n + 1 - k
    BY <1>2, <2>0
  <2> QED  BY <2>4, <2>5
<1>4. a[Len(a)] = b[Len(b)] /\ a[Len(a)] \in V
  <2>1. m + 1 \in 1..m + 1 /\ n - m + (m + 1) = n + 1
    BY <1>2
  <2> QED  BY <2>1
<1>5. \A k \in Lags : LagOf(a, k) = LagOf(b, k)
  BY <1>1, <1>3 DEF LagOf
<1>6. \A k \in Periods : DiffOf(a, k) = DiffOf(b, k)
  BY <1>1, <1>3, <1>4 DEF DiffOf
<1>7. ASSUME NEW k \in Windows, NEW kind PROVE ServingStat(kind, a, k) = TrainingStat(kind, b, k)
  <2> DEFINE p == Before(a)
             q == Before(b)
             x == Shown(m, k)
             v == Newest(p, k)
             w == Newest(q, k)
  <2>1. k \in Nat /\ k <= HistoryWindow
    BY <1>1
  <2>2. /\ p \in Seq(V) /\ Len(p) = m /\ \A i \in 1..m : p[i] = a[i]
        /\ q \in Seq(V) /\ Len(q) = n /\ \A i \in 1..n : q[i] = b[i]
    BY <1>2, BeforeOf
  <2>3. x = Shown(n, k) /\ x \in Nat /\ x <= m
    BY <1>1, <1>2, <2>1 DEF Shown
  <2> HIDE DEF p, q, x
  <2>4. v \in Seq(V) /\ Len(v) = x /\ \A i \in 1..x : v[i] = p[m - x + i]
    <3>1. p \in Seq(V) /\ m \in Nat /\ Len(p) = m /\ k \in Nat /\ x \in Nat /\ x = Shown(m, k)
      BY <1>2, <2>1, <2>2, <2>3 DEF x
    <3> QED  BY ONLY <3>1, NewestOf
  <2>5. w \in Seq(V) /\ Len(w) = x /\ \A i \in 1..x : w[i] = q[n - x + i]
    <3>1. q \in Seq(V) /\ n \in Nat /\ Len(q) = n /\ k \in Nat /\ x \in Nat /\ x = Shown(n, k)
      BY <2>1, <2>2, <2>3
    <3> QED  BY ONLY <3>1, NewestOf
  <2> HIDE DEF v, w
  <2>6. ASSUME NEW i \in 1..x PROVE v[i] = w[i]
    <3>1. /\ m - x + i \in 1..m /\ m - x + i \in 1..m + 1 /\ n - x + i \in 1..n
          /\ n - m + (m - x + i) = n - x + i
      BY <1>2, <2>3
    <3>2. p[m - x + i] = a[m - x + i] /\ a[m - x + i] = b[n - m + (m - x + i)]
      BY <2>2, <3>1
    <3> QED  BY <2>2, <2>4, <2>5, <3>1, <3>2
  <2>7. v = w
    <3>1. v \in [1..x -> V] /\ w \in [1..x -> V]
      BY <2>3, <2>4, <2>5
    <3>2. v = [i \in 1..x |-> v[i]] /\ w = [i \in 1..x |-> w[i]]
      BY ONLY <3>1
    <3> QED  BY ONLY <2>6, <3>2
  <2> QED  BY <2>1, <2>4, <2>7, StatsAgree DEF p, q, v, w
<1>8. ASSUME NEW z \in SeriesNames("status")
      PROVE  SeriesFeatures("status", a, "serving")[z] = SeriesFeatures("status", b, "training")[z]
  <2>1. \/ z[2] = "lag" /\ z[3] \in Lags
        \/ z[2] = "diff" /\ z[3] \in Periods
        \/ z[2] \in {"mean", "std"} /\ z[3] \in Windows
    BY DEF SeriesNames
  <2> QED  BY <1>5, <1>6, <1>7, <2>1 DEF SeriesFeatures
<1> QED  BY <1>8 DEF SeriesFeatures

\* What has no statuses adds none.
LEMMA Besides ==
    ASSUME NEW x, NEW y
    PROVE  /\ Elsewhere(x) => StatusPart(x ++ y) = StatusPart(y)
           /\ Elsewhere(y) => StatusPart(x ++ y) = StatusPart(x)
<1> DEFINE a == StatusPart(x)
           b == StatusPart(y)
<1>1. StatusPart(x ++ y) = a ++ b
  BY StatusBeside
<1>2. a = [n \in DOMAIN a |-> a[n]] /\ b = [n \in DOMAIN b |-> b[n]]
  BY DEF StatusPart
<1> HIDE DEF a, b
<1>3. NoColumns ++ b = b
  BY <1>2, NothingBeside
<1>4. a ++ NoColumns = a
  BY <1>2, NothingBeside
<1> QED  BY <1>1, <1>3, <1>4 DEF a, b, Elsewhere

\* The calendar has none.
LEMMA CalendarElsewhere ==
    ASSUME NEW t
    PROVE  Elsewhere(Calendar(t))
<1> DEFINE a == Single("dow", (t \div DaySteps) % 7)
           b == Single("pod", ((t % DaySteps) * 4) \div DaySteps)
           c == Single("slot", t % DaySteps)
           d == Single("holiday", (t \div DaySteps) \in Holidays)
<1>1. Elsewhere(a) /\ Elsewhere(b) /\ Elsewhere(c) /\ Elsewhere(d)
  <2>1. \A value : /\ Elsewhere(Single("dow", value)) /\ Elsewhere(Single("pod", value))
                   /\ Elsewhere(Single("slot", value)) /\ Elsewhere(Single("holiday", value))
    BY SingleElsewhere
  <2> QED  BY <2>1
<1>2. Calendar(t) = a ++ b ++ c ++ d
  BY DEF Calendar
<1> HIDE DEF a, b, c, d
<1>3. Elsewhere(a ++ b)
  BY <1>1, Besides DEF Elsewhere
<1>4. Elsewhere(a ++ b ++ c)
  BY <1>1, <1>3, Besides DEF Elsewhere
<1> QED  BY <1>1, <1>2, <1>4, Besides DEF Elsewhere

\* Nor have the static aggregates, whose columns are named after themselves.
LEMMA AggregatesElsewhere ==
    ASSUME NEW key
    PROVE  Elsewhere(MergedAggs(key))
<1> DEFINE z == MergedAggs(key)
           c == StatusPart(z)
<1>1. DOMAIN z = {<<"aggregate", "status">>, <<"aggregate", "total">>}
  BY DEF MergedAggs
<1>2. \A n \in DOMAIN z : n[1] = "aggregate"
  BY <1>1
<1>3. /\ DOMAIN c = {n \in DOMAIN z : n[1] \in {"status", "statuses"}}
      /\ c = [n \in DOMAIN c |-> c[n]]
  BY DEF StatusPart
<1> HIDE DEF z, c
<1>4. DOMAIN c = {}
  BY <1>2, <1>3
<1>5. c = NoColumns
  BY <1>3, <1>4 DEF NoColumns
<1> QED  BY <1>5 DEF c, z, Elsewhere

-----------------------------------------------------------------------------
(* The trainer and the engine *)

\* What a row has of the statuses: those of the last row, and the series.
StatusColumns(seen, features) == StatusPart(Single("statuses", seen) ++ features)

\* What the engine makes of a frame.
LEMMA ServingStatuses ==
    ASSUME NEW frame, NEW h, NEW route, NEW office
    PROVE  StatusPart(ServingRow(frame, h, route, office)) =
               FillNa(StatusColumns(frame[Len(frame)].seen,
                                    SeriesFeatures("status", Statuses(frame), "serving")))
<1> DEFINE cal == Calendar(frame[Len(frame)].at + h)
           a == Single("horizon_step", h)
           b == Single("statuses", frame[Len(frame)].seen)
           c == SeriesFeatures("status", Statuses(frame), "serving")
           d == SeriesFeatures("target", Targets(frame), "serving")
           e == Single("target_hist", TargetHistory(Targets(frame)))
           f == MergedAggs(GroupKey(route, office, cal))
           row == cal ++ a ++ b ++ c ++ d ++ e ++ f
<1>1. ServingRow(frame, h, route, office) = FillNa(row)
  BY DEF ServingRow
<1>2. Elsewhere(cal) /\ Elsewhere(a) /\ Elsewhere(d) /\ Elsewhere(e) /\ Elsewhere(f)
  <2>1. Elsewhere(cal) /\ Elsewhere(f)
    BY CalendarElsewhere, AggregatesElsewhere
  <2>2. Elsewhere(a)
    BY SingleElsewhere
  <2>3. Elsewhere(d)
    BY SeriesElsewhere
  <2>4. Elsewhere(e)
    BY SingleElsewhere
  <2> QED  BY <2>1, <2>2, <2>3, <2>4
<1>3. StatusColumns(frame[Len(frame)].seen, c) = StatusPart(b ++ c)
  BY DEF StatusColumns
<1> HIDE DEF cal, a, b, c, d, e, f
<1>4. StatusPart(row) = StatusPart(cal ++ a ++ b ++ c)
  BY <1>2, Besides
<1>5. Elsewhere(cal ++ a)
  BY <1>2, Besides DEF Elsewhere
<1>6. StatusPart(cal ++ a ++ b) = StatusPart(b)
  BY <1>5, Besides
<1>7. StatusPart(cal ++ a ++ b ++ c) = StatusPart(b ++ c)
  BY <1>6, StatusBeside
<1>8. StatusPart(FillNa(row)) = FillNa(StatusPart(b ++ c))
  BY <1>4, <1>7, StatusFilled
<1> QED  BY <1>1, <1>3, <1>8 DEF c

\* What the trainer makes of one.
LEMMA TrainingStatuses ==
    ASSUME NEW frame
    PROVE  StatusPart(TrainingRow(frame)) =
               StatusColumns(frame[Len(frame)].seen,
                             SeriesFeatures("status", Statuses(frame), "training"))
<1> DEFINE cal == Calendar(frame[Len(frame)].at)
           a == Single("horizon_step", 1)
           b == Single("statuses", frame[Len(frame)].seen)
           c == SeriesFeatures("status", Statuses(frame), "training")
           d == SeriesFeatures("target", Targets(frame), "training")
           row == cal ++ a ++ b ++ c ++ d
<1>1. TrainingRow(frame) = row
  BY DEF TrainingRow
<1>2. Elsewhere(cal) /\ Elsewhere(a) /\ Elsewhere(d)
  <2>1. Elsewhere(cal)
    BY CalendarElsewhere
  <2>2. Elsewhere(a)
    BY SingleElsewhere
  <2>3. Elsewhere(d)
    BY SeriesElsewhere
  <2> QED  BY <2>1, <2>2, <2>3
<1>3. StatusColumns(frame[Len(frame)].seen, c) = StatusPart(b ++ c)
  BY DEF StatusColumns
<1> HIDE DEF cal, a, b, c, d
<1>4. StatusPart(row) = StatusPart(cal ++ a ++ b ++ c)
  BY <1>2, Besides
<1>5. Elsewhere(cal ++ a)
  BY <1>2, Besides DEF Elsewhere
<1>6. StatusPart(cal ++ a ++ b) = StatusPart(b)
  BY <1>5, Besides
<1>7. StatusPart(cal ++ a ++ b ++ c) = StatusPart(b ++ c)
  BY <1>6, StatusBeside
<1> QED  BY <1>1, <1>3, <1>4, <1>7 DEF c

\* What is trained on to a row that has been compared is what was stored to it.
LEMMA TrainingFrameOf ==
    ASSUME NEW r \in Route, NEW t \in Time, AllTrainedOn(r, t)
    PROVE  TrainingFrame(history, r, t) =
               Chronological(FrameRows(history, r, Stored(history, r) \cap 0..t))
<1> DEFINE trained == {u \in Time : /\ <<r, u>> \in TrainingRows(history, TrainingWindow, now)
                                   /\ u <= t}
<1>1. Time \subseteq Nat
  BY StatusHistoryAssumption DEF Time
<1>2. \A u \in Time : <<r, u>> \in Frame => u \in Stored(history, r)
  BY DEF Frame, TrainingRows, RowsOf, Stored
<1>3. trained = Stored(history, r) \cap 0..t
  <2>1. ASSUME NEW u \in trained PROVE u \in Stored(history, r) \cap 0..t
    BY <1>1, <1>2, <2>1 DEF Frame
  <2>2. ASSUME NEW u \in Stored(history, r) \cap 0..t PROVE u \in trained
    BY <1>1, <2>2 DEF AllTrainedOn, Frame, Stored
  <2> QED  BY <2>1, <2>2
<1> QED  BY <1>3 DEF TrainingFrame

\* What the trainer leaves out of a series of complete values is what looks
\* back past its first one.
LEMMA SeriesGaps ==
    ASSUME NEW V, None \notin V, None \notin Seq(V), NEW b \in Seq(V),
           Lags \cup Periods \cup Windows \subseteq Nat \ {0},
           NEW n \in Nat, Len(b) = n + 1, NEW z \in SeriesNames("status")
    PROVE  SeriesFeatures("status", b, "training")[z] = None <=> LooksBeyond(z, n + 1)
<1> DEFINE k == z[3]
           value == SeriesFeatures("status", b, "training")[z]
<1>1. /\ z[1] = "status" /\ k \in Nat /\ k >= 1
      /\ \/ z[2] = "lag"
         \/ z[2] = "diff"
         \/ z[2] \in {"mean", "std"}
  <2>1. z[1] = "status" /\ k \in Lags \cup Periods \cup Windows
        /\ (z[2] = "lag" \/ z[2] = "diff" \/ z[2] \in {"mean", "std"})
    BY DEF SeriesNames
  <2> QED  BY <2>1
<1>2. \A i \in 1..n + 1 : b[i] \in V
  OBVIOUS
<1>3. CASE z[2] = "lag"
  <2>1. value = LagOf(b, k)
    BY <1>3 DEF SeriesFeatures
  <2>2. k < Len(b) => Len(b) - k \in 1..n + 1
    BY <1>1
  <2>3. k < Len(b) => b[Len(b) - k] # None
    BY <1>2, <2>2
  <2>4. ~(k < Len(b)) <=> k >= n + 1
    BY <1>1
  <2> HIDE DEF k
  <2>5. value = None <=> k >= n + 1
    BY <2>1, <2>3, <2>4 DEF LagOf
  <2> QED  BY <1>1, <1>3, <2>5 DEF LooksBeyond, k
<1>4. CASE z[2] = "diff"
  <2>1. value = DiffOf(b, k)
    BY <1>4 DEF SeriesFeatures
  <2>2. k < Len(b) => Len(b) - k \in 1..n + 1 /\ Len(b) \in 1..n + 1
    BY <1>1
  <2> DEFINE x == b[Len(b)]
             y == b[Len(b) - k]
  <2>3. ASSUME k < Len(b) PROVE <<x, y>> # None /\ None \notin {x, y}
    <3>1. x \in V /\ y \in V
      BY <1>2, <2>2, <2>3
    <3>2. <<x, y>> \in Seq(V)
      BY <3>1
    <3> QED  BY <3>1, <3>2
  <2>4. ~(k < Len(b)) <=> k >= n + 1
    BY <1>1
  <2> HIDE DEF k
  <2>5. DiffOf(b, k) = None <=> ~(k < Len(b))
    BY <2>3 DEF DiffOf
  <2> QED  BY <1>1, <1>4, <2>1, <2>4, <2>5 DEF LooksBeyond, k
<1>5. CASE z[2] \in {"mean", "std"}
  <2> DEFINE w == Newest(Before(b), k)
             m == Shown(n, k)
  <2>1. value = TrainingStat(z[2], b, k)
    BY <1>5 DEF SeriesFeatures
  <2>2. m \in Nat /\ (m = 0 <=> n = 0)
    BY <1>1 DEF Shown
  <2> HIDE DEF m
  <2>3. w \in Seq(V) /\ Len(w) = m
    <3>1. Before(b) \in Seq(V) /\ Len(Before(b)) = n
      BY BeforeOf
    <3>2. k \in Nat /\ m \in Nat /\ m = Shown(n, k)
      BY <1>1, <2>2 DEF m
    <3> HIDE DEF k
    <3> QED  BY <3>1, <3>2, NewestOf
  <2> HIDE DEF w
  <2>4. Valid(w) = w
    BY <2>3, ValidAll
  <2>5. DOMAIN w = {} <=> n = 0
    <3>1. DOMAIN w = 1..m
      BY <2>3
    <3> QED  BY <2>2, <3>1
  <2>6. w # None /\ <<>> # None
    <3>1. <<>> \in Seq(V)
      OBVIOUS
    <3> QED  BY <2>3, <3>1
  <2>7. CASE z[2] = "mean"
    <3>1. TrainingStat("mean", b, k) = None <=> n = 0
      BY <2>4, <2>5, <2>6 DEF TrainingStat, w
    <3> QED  BY <1>1, <2>1, <2>7, <3>1 DEF LooksBeyond
  <2>8. CASE z[2] = "std"
    <3>1. DOMAIN w = {} => Cardinality(DOMAIN w) = 0
      BY FS_EmptySet
    <3>2. TrainingStat("std", b, k) # None
      BY <2>4, <2>6, <3>1 DEF TrainingStat, w
    <3> QED  BY <1>1, <2>1, <2>8, <3>2 DEF LooksBeyond
  <2> QED  BY <1>5, <2>7, <2>8
<1> QED  BY <1>1, <1>3, <1>4, <1>5

\* And of the columns of statuses likewise.
LEMMA ColumnGaps ==
    ASSUME NEW V, None \notin V, None \notin Seq(V), NEW b \in Seq(V), NEW seen \in V,
           Lags \cup Periods \cup Windows \subseteq Nat \ {0},
           NEW n \in Nat, Len(b) = n + 1, NEW rows, rows = n + 1
    PROVE  LET columns == StatusColumns(seen, SeriesFeatures("status", b, "training"))
           IN  \A z \in DOMAIN columns : columns[z] = None <=> LooksBeyond(z, rows)
<1> DEFINE a == Single("statuses", seen)
           f == SeriesFeatures("status", b, "training")
           columns == StatusColumns(seen, f)
<1>1. DOMAIN a = {<<"statuses">>} /\ a[<<"statuses">>] = seen
  BY DEF Single
<1>2. DOMAIN f = SeriesNames("status")
  BY DEF SeriesFeatures
<1>3. \A z \in SeriesNames("status") : z[1] = "status" /\ z # <<"statuses">>
  <2>1. \A z \in SeriesNames("status") : z[1] = "status"
    BY DEF SeriesNames
  <2>2. <<"statuses">>[1] = "statuses" /\ "statuses" # "status"
    OBVIOUS
  <2> QED  BY <2>1, <2>2
<1>4. \A z \in SeriesNames("status") : f[z] = None <=> LooksBeyond(z, rows)
  BY SeriesGaps
<1>5. columns = StatusPart(a ++ f)
  BY DEF StatusColumns
<1> HIDE DEF a, f, columns
<1>6. /\ DOMAIN columns \subseteq {<<"statuses">>} \cup SeriesNames("status")
      /\ \A z \in DOMAIN columns : columns[z] = IF z \in DOMAIN a THEN a[z] ELSE f[z]
  <2>1. DOMAIN (a ++ f) = {<<"statuses">>} \cup SeriesNames("status")
    BY <1>1, <1>2 DEF ++
  <2>2. \A z \in DOMAIN (a ++ f) : (a ++ f)[z] = IF z \in DOMAIN a THEN a[z] ELSE f[z]
    BY DEF ++
  <2>3. /\ DOMAIN StatusPart(a ++ f) \subseteq DOMAIN (a ++ f)
        /\ \A z \in DOMAIN StatusPart(a ++ f) : StatusPart(a ++ f)[z] = (a ++ f)[z]
    BY DEF StatusPart
  <2> QED  BY <1>5, <2>1, <2>2, <2>3
<1>7. ~LooksBeyond(<<"statuses">>, rows)
  BY DEF LooksBeyond
<1>8. ASSUME NEW z \in DOMAIN columns PROVE columns[z] = None <=> LooksBeyond(z, rows)
  <2>1. CASE z = <<"statuses">>
    <3>1. columns[z] = seen
      BY <1>1, <1>6, <2>1
    <3> QED  BY <1>7, <2>1, <3>1
  <2>2. CASE z # <<"statuses">>
    <3>1. z \in SeriesNames("status") /\ columns[z] = f[z]
      BY <1>1, <1>6, <2>2
    <3> QED  BY <1>4, <3>1
  <2> QED  BY <2>1, <2>2
<1> QED  BY <1>8 DEF columns, f

\* The statuses of a frame are averages of a single row.
SeenAt(r, u) == {<<r, history[r][u].seen>>}

\* The frame of a prediction ends as the frame it is trained on later does, and
\* what the engine fills in is what that one does not reach.
LEMMA SameStatuses ==
    ASSUME TypeOK, AnswersInv, NEW r \in Route, NEW t \in Time,
           Comparable(r, t), AllTrainedOn(r, t)
    PROVE  /\ StatusPart(ServingRow(served[r][t].frame, 1, r, Home[r])) = FillNa(Learned(r, t))
           /\ \A z \in DOMAIN Learned(r, t) :
                  Learned(r, t)[z] = None
                      <=> LooksBeyond(z, Len(TrainingFrame(history, r, t)))
<1>0. history \in History /\ t \in Stored(history, r) /\ HistoryWindow \in Nat
      /\ Stored(history, r) \in SUBSET Time
  BY LearningAssumption DEF TypeOK, Comparable, Current, Stored
<1>1. PICK h \in History :
          /\ Stored(h, r) = Stored(history, r) \cap 0..t - 1
          /\ \A u \in Stored(h, r) : u < t /\ h[r][u].seen = history[r][u].seen
          /\ served[r][t].past = FrameRows(h, r, Stored(h, r))
          /\ served[r][t].frame =
                 Chronological(RouteRows(h, r)) \o <<Posted(r, t, history[r][t].seen)>>
  BY ComparedTable
<1> DEFINE B == Stored(h, r)
           n == Cardinality(B)
           m == Shown(n, HistoryWindow)
           all == Stored(history, r) \cap 0..t
           live == served[r][t].frame
           past == Chronological(FrameRows(history, r, all))
<1>2. /\ B \in SUBSET Time /\ B \in SUBSET Stored(history, r) /\ t \in Nat
      /\ Extends(all, B, t)
  <2>1. t \in Nat /\ \A u \in Stored(history, r) : u \in Nat
    BY <1>0, StepsFinite
  <2>2. \A u \in Nat : u \in 0..t <=> u \in 0..t - 1 \/ u = t
    BY <2>1
  <2>3. all = B \cup {t}
    BY <1>0, <1>1, <2>1, <2>2
  <2> QED  BY <1>0, <1>1, <2>1, <2>3 DEF Extends
<1>3. live = LiveFrame(h, r, t, history[r][t].seen)
  BY <1>1 DEF LiveFrame
<1>4. \A u \in Stored(history, r) : history[r][u].seen \in Time /\ SeenAt(r, u) \in Observation
  BY <1>0 DEF Stored, History, Row, Observation, SeenAt
<1>5. \A u \in B : RowOf(h, r, u).seen = SeenAt(r, u)
  BY <1>1 DEF RowOf, SeenAt
<1>6. \A u : RowOf(history, r, u).seen = SeenAt(r, u)
  BY DEF RowOf, SeenAt
<1>7. Posted(r, t, history[r][t].seen).seen = SeenAt(r, t)
  BY DEF Posted, SeenAt
<1>8. PICK s : Sorts(s, n, B)
  BY <1>2, StepsSorted
<1> HIDE DEF all, B, n, m, live, past
<1>9. /\ n \in Nat /\ past \in Seq(FrameRow) /\ Len(past) = n + 1
      /\ \A i \in 1..n : past[i] = RowOf(history, r, s[i])
      /\ past[n + 1] = RowOf(history, r, t)
  BY <1>0, <1>2, <1>8, FrameUpTo DEF past
<1>10. /\ m \in Nat /\ m <= n
       /\ live \in Seq(FrameRow) /\ Len(live) = m + 1
       /\ \A i \in 1..m : live[i] = RowOf(h, r, s[n - m + i])
       /\ live[m + 1] = Posted(r, t, history[r][t].seen)
  <2>1. history[r][t].seen \in Time /\ Sorts(s, n, Stored(h, r)) /\ m = Shown(n, HistoryWindow)
    BY <1>0, <1>4, <1>8 DEF B, m
  <2> QED  BY <1>3, <2>1, LiveRows
<1>11. s \in [1..n -> B]
  BY <1>8 DEF Sorts
<1> DEFINE a == Statuses(live)
           b == Statuses(past)
<1>12. /\ DOMAIN live = 1..m + 1 /\ DOMAIN past = 1..n + 1
       /\ \A i \in 1..m : live[i].seen = SeenAt(r, s[n - m + i])
       /\ \A i \in 1..n : past[i].seen = SeenAt(r, s[i])
       /\ live[m + 1].seen = SeenAt(r, t) /\ past[n + 1].seen = SeenAt(r, t)
  <2>1. ASSUME NEW i \in 1..m PROVE live[i].seen = SeenAt(r, s[n - m + i])
    <3>1. n - m + i \in 1..n
      BY <1>9, <1>10
    <3> QED  BY <1>5, <1>10, <1>11, <3>1
  <2> QED  BY <1>6, <1>7, <1>9, <1>10, <2>1
<1>13. \A i \in 1..n : SeenAt(r, s[i]) \in Observation
  BY <1>2, <1>4, <1>11
<1>14. a \in Seq(Observation) /\ b \in Seq(Observation) /\ Len(a) = m + 1 /\ Len(b) = n + 1
       /\ a = [i \in 1..m + 1 |-> live[i].seen] /\ b = [i \in 1..n + 1 |-> past[i].seen]
  <2>1. \A i \in 1..m + 1 : live[i].seen \in Observation
    <3>1. \A i \in 1..m + 1 : i \in 1..m \/ i = m + 1
      BY <1>10
    <3>2. \A i \in 1..m : n - m + i \in 1..n
      BY <1>9, <1>10
    <3> QED  BY <1>0, <1>4, <1>12, <1>13, <3>1, <3>2
  <2>2. \A i \in 1..n + 1 : past[i].seen \in Observation
    <3>1. \A i \in 1..n + 1 : i \in 1..n \/ i = n + 1
      BY <1>9
    <3> QED  BY <1>0, <1>4, <1>12, <1>13, <3>1
  <2>3. a = [i \in 1..m + 1 |-> live[i].seen] /\ b = [i \in 1..n + 1 |-> past[i].seen]
    BY <1>12 DEF Statuses
  <2> HIDE DEF a, b
  <2> QED  BY <1>9, <1>10, <2>1, <2>2, <2>3
<1> HIDE DEF a, b
<1>15. \A i \in 1..m + 1 : a[i] = b[n - m + i]
  <2> SUFFICES ASSUME NEW i \in 1..m + 1 PROVE a[i] = b[n - m + i]
    OBVIOUS
  <2>1. CASE i \in 1..m
    <3>1. n - m + i \in 1..n /\ n - m + i \in 1..n + 1
      BY <1>9, <1>10, <2>1
    <3> QED  BY <1>12, <1>14, <2>1, <3>1
  <2>2. CASE i = m + 1
    <3>1. n - m + i = n + 1 /\ n + 1 \in 1..n + 1
      BY <1>9, <1>10, <2>2
    <3> QED  BY <1>12, <1>14, <2>2, <3>1
  <2> QED  BY <1>10, <2>1, <2>2
<1>16. SeriesFeatures("status", a, "serving") = SeriesFeatures("status", b, "training")
  <2>1. None \notin Observation /\ m = Shown(n, HistoryWindow)
    BY LearningAssumption DEF m
  <2>2. /\ a \in Seq(Observation) /\ b \in Seq(Observation) /\ n \in Nat /\ m \in Nat
        /\ Len(a) = m + 1 /\ Len(b) = n + 1
    BY <1>9, <1>10, <1>14
  <2> QED  BY ONLY <1>15, <2>1, <2>2, SeriesAgree
<1>17. live[Len(live)].seen = past[Len(past)].seen
  BY <1>9, <1>10, <1>12
<1>18. TrainingFrame(history, r, t) = past
  BY TrainingFrameOf DEF past, all
<1> DEFINE f == SeriesFeatures("status", b, "training")
           last == past[Len(past)].seen
<1>19. Learned(r, t) = StatusColumns(last, f)
  BY <1>18, TrainingStatuses DEF Learned, b
<1>20. StatusPart(ServingRow(live, 1, r, Home[r])) = FillNa(StatusColumns(last, f))
  BY <1>16, <1>17, ServingStatuses DEF a
<1>21. \A z \in DOMAIN StatusColumns(last, f) :
           StatusColumns(last, f)[z] = None <=> LooksBeyond(z, Len(past))
  <2>1. /\ None \notin Observation /\ None \notin Seq(Observation)
        /\ Lags \cup Periods \cup Windows \subseteq Nat \ {0}
    BY LearningAssumption
  <2>2. last \in Observation /\ b \in Seq(Observation) /\ n \in Nat /\ Len(b) = n + 1
    BY <1>0, <1>4, <1>9, <1>12, <1>14
  <2>3. Len(past) = n + 1
    BY <1>9
  <2> HIDE DEF last
  <2> QED  BY ONLY <2>1, <2>2, <2>3, ColumnGaps
<1> HIDE DEF f, last
<1> QED  BY <1>18, <1>19, <1>20, <1>21 DEF live

\* For any lags, periods and windows no longer than the history a prediction
\* reads, and from the first row of a route on: once a row is labelled the
\* trainer gives it the very inventory features that the prediction at its
\* anchor was made from, but for those that look back past the first row of the
\* route, each of which the trainer leaves NaN and the engine fills in
\* (build_features, _fill_na).
THEOREM InventoryAgrees == Spec => []InventoryFeaturesAgree
<1>1. TypeOK /\ AnswersInv => InventoryFeaturesAgree
  <2> SUFFICES ASSUME TypeOK, AnswersInv, NEW r \in Route, NEW t \in Time,
                      Comparable(r, t), AllTrainedOn(r, t), NEW z \in DOMAIN Learned(r, t)
               PROVE  IF LooksBeyond(z, Len(TrainingFrame(history, r, t)))
                      THEN Learned(r, t)[z] = None /\ Asked(r, t)[z] = Filled
                      ELSE Learned(r, t)[z] # None /\ Asked(r, t)[z] = Learned(r, t)[z]
    BY DEF InventoryFeaturesAgree
  <2> DEFINE learned == Learned(r, t)
             row == ServingRow(served[r][t].frame, 1, r, Home[r])
             names == DOMAIN TrainingRow(TrainingFrame(history, r, t))
  <2>1. /\ StatusPart(row) = FillNa(learned)
        /\ learned[z] = None <=> LooksBeyond(z, Len(TrainingFrame(history, r, t)))
    BY SameStatuses
  <2>2. DOMAIN learned = {n \in names : n[1] \in {"status", "statuses"}}
    BY DEF Learned, StatusPart
  <2>3. Asked(r, t) = StatusPart(Aligned(row, names))
    BY DEF Asked
  <2> HIDE DEF learned, row, names
  <2>4. DOMAIN FillNa(learned) = DOMAIN learned
        /\ FillNa(learned)[z] = IF learned[z] = None THEN Filled ELSE learned[z]
    BY DEF FillNa, learned
  <2>5. Asked(r, t) = FillNa(learned)
    BY <2>1, <2>2, <2>3, <2>4, StatusAligned
  <2> QED  BY <2>1, <2>4, <2>5 DEF learned
<1> QED  BY <1>1, TypeCorrect, AnswersInductive, PTL

=============================================================================
