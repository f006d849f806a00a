------------------------- MODULE StatusHistoryProofs -------------------------
(* What the statements on route_status_history do to it: the types that the  *)
(* proofs about the modules which share the table start from.                *)
EXTENDS StatusHistory, FiniteFacts

-----------------------------------------------------------------------------
\* Each status that is carried forward is one of the past.
LEMMA LatestStatusesPast ==
    ASSUME NEW h \in History, NEW rs \in SUBSET Route, NEW asOf \in Time
    PROVE  /\ DOMAIN LatestStatuses(h, rs, asOf) \in SUBSET rs
           /\ LatestStatuses(h, rs, asOf) \in [DOMAIN LatestStatuses(h, rs, asOf) -> Time]
           /\ \A r \in DOMAIN LatestStatuses(h, rs, asOf) :
                 \E t \in Stored(h, r) : /\ t <= asOf
                                         /\ LatestStatuses(h, rs, asOf)[r] = h[r][t].seen
<1> DEFINE Until(r) == {t \in Stored(h, r) : t <= asOf}
           D == {r \in rs : \E t \in Stored(h, r) : t <= asOf}
           L == [r \in D |-> h[r][Max(Until(r))].seen]
<1>1. LatestStatuses(h, rs, asOf) = L
  BY DEF LatestStatuses
<1>2. ASSUME NEW r \in D PROVE Max(Until(r)) \in Until(r)
  <2>1. Until(r) \in SUBSET Nat /\ Until(r) # {} /\ \A n \in Until(r) : n <= asOf
    BY StatusHistoryAssumption DEF Stored, Time
  <2>2. asOf \in Nat
    BY StatusHistoryAssumption DEF Time
  <2> HIDE DEF Until
  <2> QED  BY <2>1, <2>2, MaxIsGreatest
<1>3. ASSUME NEW r \in D
      PROVE  /\ L[r] \in Time
             /\ \E t \in Stored(h, r) : t <= asOf /\ L[r] = h[r][t].seen
  <2> DEFINE m == Max(Until(r))
  <2>1. m \in Stored(h, r) /\ m <= asOf /\ L[r] = h[r][m].seen
    BY <1>2
  <2> HIDE DEF m, L
  <2>2. h[r][m] \in Row
    BY <2>1 DEF History, Stored
  <2> QED  BY <2>1, <2>2 DEF Row
<1> HIDE DEF Until
<1>4. DOMAIN L = D /\ D \in SUBSET rs /\ L \in [D -> Time]
  BY <1>3
<1> HIDE DEF L, D
<1> QED  BY <1>1, <1>3, <1>4

LEMMA AppendedHistory ==
    ASSUME NEW h \in History, NEW r \in Route, NEW t \in Time, NEW seen \in Time
    PROVE  Appended(h, r, t, seen) \in History
BY DEF Appended, History, Row

LEMMA BackfilledHistory ==
    ASSUME NEW h \in History, NEW t \in Time
    PROVE  BackfillLabels(h, t) \in History
<1> SUFFICES ASSUME NEW r \in Route, NEW u \in Time
             PROVE  BackfillLabels(h, t)[r][u] \in Row \cup {None}
  BY DEF BackfillLabels, History
<1>1. h[r][u] \in Row \cup {None}
  BY DEF History
<1>2. CASE Labelled(h, r, u, t)
  <2>1. u + Lag \in Time /\ h[r][u + Lag] \in Row /\ h[r][u] \in Row
    BY <1>1, <1>2 DEF Labelled, History
  <2> QED  BY <1>2, <2>1 DEF BackfillLabels, Row
<1> QED  BY <1>1, <1>2 DEF BackfillLabels

LEMMA SlotLabelsTyped ==
    ASSUME NEW h \in History, NEW w, NEW s \in Time
    PROVE  SlotLabels(h, w, s) \in SUBSET (Route \X Time)
BY DEF SlotLabels, History, Row
=============================================================================
