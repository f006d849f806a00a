--------------------------- MODULE DispatchingProofs ---------------------------
(* What is proved of Dispatching for every value of its constants.           *)
EXTENDS Dispatching, FiniteFacts, TLAPS

-----------------------------------------------------------------------------
(* Sizing an order *)

\* Rounding up division: CeilDiv(a, b) is the least q with b * q >= a.
LEMMA CeilDivIsLeast ==
    ASSUME NEW a \in Nat, NEW b \in Nat \ {0}
    PROVE  /\ CeilDiv(a, b) \in Nat
           /\ b * CeilDiv(a, b) >= a
           /\ b * CeilDiv(a, b) < a + b
<1> DEFINE n == a + b - 1
           q == n \div b
           r == n % b
<1>1. n \in Nat
  OBVIOUS
<1>2. q \in Nat /\ r \in 0..(b - 1)
  BY <1>1, Z3
<1>3. n = b * q + r
  BY <1>1, Z3
<1> HIDE DEF q, r
<1>4. b * q \in Nat
  BY <1>2, Z3
<1>5. b * q >= a /\ b * q < a + b
  BY <1>2, <1>3, <1>4
<1> QED
  BY <1>2, <1>5 DEF CeilDiv, q

LEMMA ProductGrows ==
    ASSUME NEW a \in Nat, NEW b \in Nat, NEW c \in Nat, b <= c
    PROVE  a * b <= a * c
<1> DEFINE k == c - b
<1>1. k \in Nat /\ c = b + k
  OBVIOUS
<1>2. a * (b + k) = a * b + a * k /\ a * b \in Nat /\ a * k \in Nat
  BY <1>1, Z3
<1> QED
  BY <1>1, <1>2

LEMMA ProductOrders ==
    ASSUME NEW k \in Nat, NEW x \in Nat, NEW y \in Nat, k * x < k * y
    PROVE  x < y
<1>1. k * x \in Nat /\ k * y \in Nat
  BY Z3
<1> SUFFICES ASSUME y <= x PROVE FALSE
  OBVIOUS
<1>2. k * y <= k * x
  BY ProductGrows
<1> QED  BY <1>1, <1>2

\* What divides without a rest is not rounded.
LEMMA ExactCeilDiv ==
    ASSUME NEW a \in Nat, NEW b \in Nat \ {0}, a % b = 0
    PROVE  b * CeilDiv(a, b) = a
<1> DEFINE q == a \div b
           c == CeilDiv(a, b)
<1>1. q \in Nat /\ a = b * q
  BY Z3
<1> HIDE DEF q, c
<1>2. c \in Nat /\ b * c >= a /\ b * c < a + b
  BY CeilDivIsLeast DEF c
<1>3. b * c \in Nat /\ b * q \in Nat /\ b * (q + 1) = b * q + b
  BY <1>1, <1>2, Z3
<1>4. c < q + 1
  BY <1>1, <1>2, <1>3, ProductOrders
<1>5. q <= c
  <2> SUFFICES ASSUME c < q PROVE FALSE
    BY <1>1, <1>2
  <2>1. c + 1 <= q /\ c + 1 \in Nat
    BY <1>1, <1>2
  <2>2. b * (c + 1) <= b * q
    BY <1>1, <2>1, ProductGrows
  <2>3. b * (c + 1) = b * c + b
    BY <1>2, Z3
  <2> QED  BY <1>1, <1>2, <1>3, <2>2, <2>3
<1>6. c = q
  BY <1>1, <1>2, <1>4, <1>5
<1> QED  BY <1>1, <1>6 DEF c

\* The margin is a natural number whether the buffer is fixed or adaptive, so
\* an order never carries less than the forecast itself.
LEMMA BufferedCoversTotal ==
    ASSUME NEW total \in Nat
    PROVE  Buffered(total) \in Nat /\ Buffered(total) >= 1000 * total
<1>1. Buffer(total) \in Nat
  BY DispatchAssumption DEF Buffer, AdaptiveBuffer
<1> DEFINE b == Buffer(total)
<1>2. total * b \in Nat
  BY <1>1, Z3
<1>3. total * (1000 + b) = 1000 * total + total * b
  BY <1>1, Z3
<1> QED
  BY <1>2, <1>3 DEF Buffered

LEMMA ExcessIsABit == \A total : Excess(total) \in {0, 1}
BY DEF Excess

\* calculate_trucks: the trucks ordered carry the forecast with its margin,
\* whichever way the floats fall.
THEOREM TrucksCarryTheLoad ==
    ASSUME NEW total \in Nat
    PROVE  /\ CalculateTrucks(total) \in Nat
           /\ 1000 * Capacity * CalculateTrucks(total) >= Buffered(total)
<1> DEFINE cap == 1000 * Capacity
           c == CeilDiv(Buffered(total), cap)
           n == CalculateTrucks(total)
<1>1. cap \in Nat \ {0} /\ MinTrucks \in Nat
  BY DispatchAssumption
<1>2. Buffered(total) \in Nat
  BY BufferedCoversTotal
<1>3. c \in Nat /\ cap * c >= Buffered(total)
  <2> HIDE DEF cap
  <2> QED
    BY <1>1, <1>2, CeilDivIsLeast
<1>4. Trucks(total) \in Nat /\ c <= Trucks(total)
  <2>1. Trucks(total) = c + Excess(total) /\ Excess(total) \in {0, 1}
    BY ExcessIsABit DEF Trucks
  <2> HIDE DEF c
  <2> QED  BY <1>3, <2>1
<1> HIDE DEF cap, c
<1>5. CASE total = 0
  <2>1. n = 0
    BY <1>5 DEF CalculateTrucks
  <2>2. Buffered(total) = 0
    BY <1>5, DispatchAssumption DEF Buffered, Buffer, AdaptiveBuffer
  <2> HIDE DEF n
  <2>3. cap * n = 0
    BY <1>1, <2>1
  <2> QED
    BY <2>1, <2>2, <2>3 DEF cap, n
<1>6. CASE total # 0
  <2>1. n \in Nat /\ c <= n
    BY <1>1, <1>3, <1>4, <1>6 DEF CalculateTrucks
  <2> HIDE DEF n
  <2>2. cap * c <= cap * n
    BY <1>1, <1>3, <2>1, ProductGrows
  <2>3. cap * c \in Nat /\ cap * n \in Nat
    BY <1>1, <1>3, <2>1, Z3
  <2>4. cap * n >= Buffered(total)
    BY <1>2, <1>3, <2>2, <2>3
  <2> QED
    BY <2>1, <2>4 DEF cap, n
<1> QED
  BY <1>5, <1>6

-----------------------------------------------------------------------------
(* Type correctness *)

Orders == [containers: Nat, trucks: Nat]

\* TypeOK alone is not inductive.  What a slot adds up to is a number only if
\* finitely many rows are stored, and the filter forgets what was to be saved
\* before it, so nothing may be locked by then.
TypeInv ==
    /\ TypeOK
    /\ IsFiniteSet(DOMAIN forecasts)
    /\ \A d \in Dispatcher : job[d].pc # "write" => job[d].save = {}

LEMMA SlotType == Slot \subseteq Nat
BY DispatchAssumption DEF Slot

LEMMA IdleJobType == IdleJob \in Job /\ IdleJob.locked \subseteq IdleJob.save
BY DEF IdleJob, Job

LEMMA OrderType ==
    ASSUME NEW total \in Nat
    PROVE  Order(total) \in Orders
BY TrucksCarryTheLoad DEF Order, Orders

\* What a dispatch counts for a slot is a number of containers.
LEMMA TotalType ==
    ASSUME TypeInv, NEW rows \in SUBSET BagToSet(forecasts), NEW s \in Slot
    PROVE  Total(rows, s) \in Nat
<1> DEFINE counted == {f \in rows : Covers(f, s)}
<1>1. counted \subseteq BagToSet(forecasts) /\ BagToSet(forecasts) = DOMAIN forecasts
  BY DEF BagToSet
<1>2. IsFiniteSet(counted)
  BY <1>1, FS_Subset DEF TypeInv
<1>3. \A f \in counted : Containers[f] \in Nat
  <2> SUFFICES ASSUME NEW f \in counted PROVE Containers[f] \in Nat
    OBVIOUS
  <2>1. f \in Forecast /\ f \in DOMAIN forecasts
    BY <1>1 DEF TypeInv, TypeOK
  <2>2. f.value \in Nat /\ forecasts[f] \in Nat
    BY <2>1, DispatchAssumption DEF TypeInv, TypeOK, IsABag, Forecast
  <2>3. f.value * forecasts[f] \in Nat
    BY <2>2, Z3
  <2> QED  BY <1>1, <2>3 DEF Containers
<1> HIDE DEF counted
<1>4. SumFunctionOnSet(Containers, counted) \in Nat
  BY <1>2, <1>3, SumIsNatural
<1> QED  BY <1>4 DEF Total, counted

LEMMA WantedType ==
    ASSUME TypeInv, NEW start
    PROVE  Wanted(start) \in [Slot -> Nat \cup {None}]
<1>1. Fetched(start) \in SUBSET BagToSet(forecasts)
  BY DEF Fetched
<1> QED  BY <1>1, TotalType DEF Wanted

LEMMA TypeInit == Init => TypeInv
<1> SUFFICES ASSUME Init PROVE TypeInv
  OBVIOUS
<1>1. DOMAIN forecasts = {} /\ IsABag(forecasts)
  BY DEF Init, EmptyBag, SetToBag, IsABag
<1>2. IsFiniteSet(DOMAIN forecasts) /\ BagToSet(forecasts) = {}
  BY <1>1, FS_EmptySet DEF BagToSet
<1> QED
  BY <1>1, <1>2, IdleJobType, DispatchAssumption DEF Init, TypeInv, TypeOK, IdleJob

\* A stored prediction is one more row of the table.
LEMMA TypeSave ==
    ASSUME TypeInv, NEW f \in Forecast, SaveForecasts(f)
    PROVE  TypeInv'
<1> USE DEF TypeInv, TypeOK
<1>1. forecasts' = forecasts (+) SetToBag({f})
  BY DEF SaveForecasts
<1>2. DOMAIN forecasts' = DOMAIN forecasts \cup {f}
  BY <1>1 DEF \oplus, SetToBag
<1>3. IsFiniteSet(DOMAIN forecasts')
  BY <1>2, FS_AddElement
<1>4. IsABag(forecasts')
  BY <1>1 DEF \oplus, SetToBag, IsABag
<1>5. BagToSet(forecasts') \subseteq Forecast
  BY <1>2 DEF BagToSet
<1> QED
  BY <1>3, <1>4, <1>5 DEF SaveForecasts, Requested

\* A request keeps the types from its reading to its commit.
LEMMA TypeDispatch ==
    ASSUME TypeInv, NEW d \in Dispatcher,
           \/ \E start \in 0..now : CreateDispatch(d, start)
           \/ \E s \in Slot, total \in Volume : CreateExplicit(d, s, total)
           \/ Advance(d) \/ Rollback(d)
    PROVE  TypeInv'
<1> USE DEF TypeInv, TypeOK
<1> DEFINE JobOK(e) == /\ job[e].locked \subseteq job[e].save
                       /\ job[e].save \subseteq Requested(e)
                       /\ job[e].pc # "write" => job[e].save = {}
<1>a. plan \in [Slot -> Orders \cup {None}] /\ asked \in [Slot -> Nat \cup {None}]
  BY DEF Orders
<1>b. job[d] \in Job /\ JobOK(d)
  OBVIOUS
<1>1. ASSUME job' \in [Dispatcher -> Job],
             \A e \in Dispatcher : JobOK(e)',
             now' = now, forecasts' = forecasts,
             plan' \in [Slot -> Orders \cup {None}], asked' \in [Slot -> Nat \cup {None}]
      PROVE  TypeInv'
  BY <1>1 DEF Orders
<1>2. ASSUME NEW new \in Job, job' = [job EXCEPT ![d] = new],
             new.locked \subseteq new.save,
             new.save \subseteq {s \in Slot : new.want[s] # None},
             new.pc # "write" => new.save = {}
      PROVE  /\ job' \in [Dispatcher -> Job]
             /\ \A e \in Dispatcher : JobOK(e)'
  BY <1>2 DEF Requested
<1>3. ASSUME NEW start \in 0..now, CreateDispatch(d, start) PROVE TypeInv'
  <2> DEFINE new == [IdleJob EXCEPT !.pc = "begin", !.want = Wanted(start)]
  <2>1. new \in Job /\ new.save = {} /\ new.locked = {}
    BY WantedType DEF IdleJob, Job
  <2>2. job' = [job EXCEPT ![d] = new]
    BY <1>3 DEF CreateDispatch
  <2> HIDE DEF new
  <2> QED  BY <1>a, <1>1, <1>2, <1>3, <2>1, <2>2 DEF CreateDispatch
<1>4. ASSUME NEW s \in Slot, NEW total \in Volume, CreateExplicit(d, s, total) PROVE TypeInv'
  <2> DEFINE new == [IdleJob EXCEPT !.pc = "begin", !.explicit = TRUE, !.want[s] = total]
  <2>1. new \in Job /\ new.save = {} /\ new.locked = {}
    BY DispatchAssumption DEF IdleJob, Job
  <2>2. job' = [job EXCEPT ![d] = new]
    BY <1>4 DEF CreateExplicit
  <2> HIDE DEF new
  <2> QED  BY <1>a, <1>1, <1>2, <1>4, <2>1, <2>2 DEF CreateExplicit
<1>5. CASE FetchExisting(d)
  <2> DEFINE save == {s \in Requested(d) : ~Unchanged(plan[s], Order(job[d].want[s]))}
             new == [job[d] EXCEPT !.pc = "write", !.save = save]
  <2>1. save \subseteq Slot /\ save \subseteq {s \in Slot : job[d].want[s] # None}
    BY DEF Requested
  <2>2. job[d].locked = {}
    BY <1>b, <1>5 DEF FetchExisting
  <2>3. job' = [job EXCEPT ![d] = new]
    BY <1>5 DEF FetchExisting
  <2> HIDE DEF save
  <2>4. new \in Job /\ new.want = job[d].want /\ new.save = save /\ new.locked = {}
    BY <1>b, <2>1, <2>2 DEF Job
  <2>5. new.pc = "write"
    BY <1>b DEF Job
  <2> HIDE DEF new
  <2>6. new.locked \subseteq new.save /\ new.save \subseteq {s \in Slot : new.want[s] # None}
    BY <2>1, <2>4
  <2>7. job' \in [Dispatcher -> Job] /\ \A e \in Dispatcher : JobOK(e)'
    BY <1>2, <2>3, <2>4, <2>5, <2>6
  <2> QED  BY <1>a, <1>1, <1>5, <2>7 DEF FetchExisting
<1>6. CASE Upsert(d)
  <2>1. PICK s \in NextSlots(d) : job' = [job EXCEPT ![d].locked = @ \cup {s}]
    BY <1>6 DEF Upsert
  <2> DEFINE new == [job[d] EXCEPT !.locked = @ \cup {s}]
  <2>2. s \in job[d].save
    BY DEF NextSlots
  <2>3. job' = [job EXCEPT ![d] = new]
    BY <2>1
  <2>4. /\ new \in Job /\ new.want = job[d].want /\ new.save = job[d].save
        /\ new.locked = job[d].locked \cup {s} /\ new.pc = job[d].pc
    BY <1>b, <2>2 DEF Job
  <2> HIDE DEF new
  <2>5. new.locked \subseteq new.save /\ new.save \subseteq {x \in Slot : new.want[x] # None}
    BY <1>b, <2>2, <2>4 DEF Requested
  <2> QED  BY <1>a, <1>b, <1>1, <1>2, <1>6, <2>3, <2>4, <2>5 DEF Upsert
<1>7. CASE Commit(d)
  <2>1. job' = [job EXCEPT ![d] = IdleJob]
    BY <1>7 DEF Commit
  <2>2. \A s \in Requested(d) : job[d].want[s] \in Nat
    BY <1>b DEF Requested, Job
  <2>3. asked' \in [Slot -> Nat \cup {None}]
    BY <1>7, <1>a, <2>2 DEF Commit
  <2>4. plan' \in [Slot -> Orders \cup {None}]
    BY <1>7, <1>a, <1>b, <2>2, OrderType DEF Commit
  <2> QED  BY <1>1, <1>2, <1>7, <2>1, <2>3, <2>4, IdleJobType DEF Commit, IdleJob
<1>8. CASE Rollback(d)
  <2>1. job' = [job EXCEPT ![d] = IdleJob]
    BY <1>8 DEF Rollback
  <2> QED  BY <1>a, <1>1, <1>2, <1>8, <2>1, IdleJobType DEF Rollback, IdleJob
<1> HIDE DEF TypeInv
<1> QED  BY <1>3, <1>4, <1>5, <1>6, <1>7, <1>8 DEF Advance

LEMMA TypeInductive == Spec => []TypeInv
<1>1. TypeInv /\ Tick => TypeInv'
  BY DispatchAssumption DEF Tick, TypeInv, TypeOK, Requested
<1>2. TypeInv /\ UNCHANGED vars => TypeInv'
  BY DEF vars, TypeInv, TypeOK, Requested
<1>3. TypeInv /\ [Next]_vars => TypeInv'
  BY <1>1, <1>2, TypeSave, TypeDispatch DEF Next
<1> QED  BY TypeInit, <1>3, PTL DEF Spec

\* TypeOK holds in every reachable state: what is stored and what is asked for
\* are numbers of containers and trucks however many rows are added up, and a
\* transaction only ever locks what the filter let through.
THEOREM TypeCorrect == Spec => []TypeOK
BY TypeInductive, PTL DEF TypeInv

-----------------------------------------------------------------------------
(* Reading forecasts *)

RowsTyped == BagToSet(forecasts) \subseteq Forecast

LEMMA RowsTypedInvariant == Spec => []RowsTyped
<1>1. Init => RowsTyped
  BY DEF Init, RowsTyped, BagToSet, EmptyBag, SetToBag
<1>2. RowsTyped /\ [Next]_vars => RowsTyped'
  <2> SUFFICES ASSUME RowsTyped, [Next]_vars
               PROVE  RowsTyped'
    OBVIOUS
  <2>1. ASSUME NEW f \in Forecast, SaveForecasts(f)
        PROVE  RowsTyped'
    <3>1. forecasts' = forecasts (+) SetToBag({f})
      BY <2>1 DEF SaveForecasts
    <3>2. DOMAIN forecasts' = DOMAIN forecasts \cup {f}
      BY <3>1 DEF \oplus, SetToBag
    <3> QED
      BY <3>2 DEF RowsTyped, BagToSet
  <2>2. CASE UNCHANGED forecasts
    BY <2>2 DEF RowsTyped
  <2> QED
    BY <2>1, <2>2 DEF Next, Advance, Tick, CreateDispatch, CreateExplicit,
       FetchExisting, Upsert, Commit, Rollback, vars
<1> QED
  BY <1>1, <1>2, PTL DEF Spec

\* Whatever the horizon and the range, the lookback query of
\* get_recent_forecasts reads every forecast with a step in the range.
THEOREM WindowIsComplete == Spec => []NoStepLost
<1>1. RowsTyped => NoStepLost
  <2> SUFFICES ASSUME RowsTyped,
                      NEW start \in 0..(LastAnchor + Horizon),
                      NEW f \in BagToSet(forecasts),
                      NEW s \in Slot, InRange(s, start), Covers(f, s)
               PROVE  f \in Fetched(start)
    BY DEF NoStepLost
  <2>1. f.anchor \in Int
    BY DispatchAssumption DEF RowsTyped, Forecast
  <2>2. s \in Int /\ start \in Int
    BY DispatchAssumption DEF Slot
  <2>3. f.anchor >= s - Horizon /\ f.anchor < s
    BY <2>1, <2>2, DispatchAssumption DEF Covers
  <2>4. f.anchor >= start - Lookback /\ f.anchor < start + Window
    BY <2>1, <2>2, <2>3, DispatchAssumption DEF InRange
  <2> QED
    BY <2>4 DEF Fetched
<1> QED
  BY <1>1, RowsTypedInvariant, PTL

-----------------------------------------------------------------------------
(* Antiflapping *)

\* The fields of a request; what a sum of forecasts is stays open, since the
\* decision only has to be the same one from the filter to the commit.
JobFields ==
    /\ DOMAIN job = Dispatcher
    /\ \A d \in Dispatcher : DOMAIN job[d] = {"pc", "explicit", "want", "save", "locked"}

\* What a request alone in the dispatcher relies on: between reading the stored
\* orders and committing, nobody changes them.
DecisionFresh ==
    \A d \in Dispatcher : \A s \in job[d].save : ~Unchanged(plan[s], Order(job[d].want[s]))

FlapInv == JobFields /\ DecisionFresh

LEMMA FlapInvInit == Init => FlapInv
BY DEF Init, FlapInv, JobFields, DecisionFresh, IdleJob

LEMMA JobFieldsStep == JobFields /\ [Next]_vars => JobFields'
<1> SUFFICES ASSUME JobFields, [Next]_vars
             PROVE  JobFields'
  OBVIOUS
<1> USE DEF JobFields
<1>1. ASSUME NEW d \in Dispatcher, NEW start \in 0..now, CreateDispatch(d, start)
      PROVE  JobFields'
  BY <1>1 DEF CreateDispatch, IdleJob
<1>2. ASSUME NEW d \in Dispatcher, NEW s \in Slot, NEW total \in Volume,
             CreateExplicit(d, s, total)
      PROVE  JobFields'
  BY <1>2 DEF CreateExplicit, IdleJob
<1>3. ASSUME NEW d \in Dispatcher, FetchExisting(d)
      PROVE  JobFields'
  BY <1>3 DEF FetchExisting
<1>4. ASSUME NEW d \in Dispatcher, Upsert(d)
      PROVE  JobFields'
  BY <1>4 DEF Upsert
<1>5. ASSUME NEW d \in Dispatcher, Commit(d) \/ Rollback(d)
      PROVE  JobFields'
  BY <1>5 DEF Commit, Rollback, IdleJob
<1>6. CASE UNCHANGED job
  BY <1>6
<1> QED
  BY <1>1, <1>2, <1>3, <1>4, <1>5, <1>6 DEF Next, Advance, Tick, SaveForecasts, vars

LEMMA DecisionFreshStep ==
    ASSUME NEW only, Dispatcher = {only}, FlapInv, [Next]_vars
    PROVE  DecisionFresh'
<1> USE DEF FlapInv, JobFields
<1>1. ASSUME NEW d \in Dispatcher, NEW start \in 0..now, CreateDispatch(d, start)
      PROVE  DecisionFresh'
  <2>1. job'[d].save = {}
    BY <1>1 DEF CreateDispatch, IdleJob
  <2> QED
    BY <2>1 DEF DecisionFresh
<1>2. ASSUME NEW d \in Dispatcher, NEW s \in Slot, NEW total \in Volume,
             CreateExplicit(d, s, total)
      PROVE  DecisionFresh'
  <2>1. job'[d].save = {}
    BY <1>2 DEF CreateExplicit, IdleJob
  <2> QED
    BY <2>1 DEF DecisionFresh
<1>3. ASSUME NEW d \in Dispatcher, FetchExisting(d)
      PROVE  DecisionFresh'
  <2>1. /\ job'[d].save = {s \in Requested(d) : ~Unchanged(plan[s], Order(job[d].want[s]))}
        /\ job'[d].want = job[d].want
        /\ plan' = plan
    BY <1>3 DEF FetchExisting
  <2>2. \A s \in job'[d].save : ~Unchanged(plan'[s], Order(job'[d].want[s]))
    BY <2>1
  <2> QED
    BY <2>2 DEF DecisionFresh, Order, Unchanged
<1>4. ASSUME NEW d \in Dispatcher, Upsert(d)
      PROVE  DecisionFresh'
  <2>1. job'[d].save = job[d].save /\ job'[d].want = job[d].want /\ plan' = plan
    BY <1>4 DEF Upsert
  <2> QED
    BY <2>1 DEF DecisionFresh
<1>5. ASSUME NEW d \in Dispatcher, Commit(d) \/ Rollback(d)
      PROVE  DecisionFresh'
  <2>1. job'[d].save = {}
    BY <1>5 DEF Commit, Rollback, IdleJob
  <2> QED
    BY <2>1 DEF DecisionFresh
<1>6. CASE UNCHANGED <<job, plan>>
  BY <1>6 DEF DecisionFresh
<1> QED
  BY <1>1, <1>2, <1>3, <1>4, <1>5, <1>6 DEF Next, Advance, Tick, SaveForecasts, vars

LEMMA OrdersKept ==
    ASSUME FlapInv, [Next]_vars,
           NEW s \in Slot, plan[s] # None, plan'[s] # plan[s]
    PROVE  ~(Distance(plan[s].trucks, plan'[s].trucks) <= Threshold)
<1>1. PICK d \in Dispatcher : Commit(d)
  BY DEF Next, Advance, Tick, SaveForecasts, CreateDispatch, CreateExplicit,
     FetchExisting, Upsert, Rollback, vars
<1>2. s \in job[d].save /\ plan'[s] = Order(job[d].want[s])
  BY <1>1 DEF Commit
<1>3. ~Unchanged(plan[s], Order(job[d].want[s]))
  BY <1>2 DEF FlapInv, DecisionFresh
<1> QED
  BY <1>2, <1>3 DEF Unchanged

\* save_transport_requests keeps its word when no two requests overlap: a
\* stored order only changes by more than the threshold.
THEOREM AloneNoChurn ==
    ASSUME NEW CONSTANT only, Dispatcher = {only}
    PROVE  Spec => NoChurn
<1>1. FlapInv /\ [Next]_vars => FlapInv'
  BY JobFieldsStep, DecisionFreshStep DEF FlapInv
<1>2. FlapInv /\ [Next]_vars =>
        [\A s \in Slot : (plan[s] # None /\ plan'[s] # plan[s]) =>
            ~(Distance(plan[s].trucks, plan'[s].trucks) <= Threshold)]_vars
  BY OrdersKept
<1> QED
  BY FlapInvInit, <1>1, <1>2, PTL DEF Spec, NoChurn

-----------------------------------------------------------------------------
(* Skipped decisions do not add up *)

\* The stored order of a slot is within the threshold of what was last counted
\* for it.
Close(s) == plan[s] # None =>
                /\ asked[s] \in Nat
                /\ Distance(plan[s].trucks, CalculateTrucks(asked[s])) <= Threshold

\* What a request has decided not to write is still close enough when it
\* commits, if nobody has stored another order meanwhile.
SkippedAreClose ==
    \A d \in Dispatcher :
        job[d].pc = "write" =>
            \A s \in Requested(d) \ job[d].save : Unchanged(plan[s], Order(job[d].want[s]))

CloseInv == SkippedAreClose /\ \A s \in Slot : Close(s)

LEMMA CloseInit == Init => CloseInv
BY DEF Init, CloseInv, Close, SkippedAreClose, IdleJob

\* Requests that have not been filtered have skipped nothing.
LEMMA CloseBeforeWriting ==
    ASSUME NEW only, Dispatcher = {only}, TypeInv, CloseInv, NEW d \in Dispatcher,
           job'[d].pc # "write", plan' = plan, asked' = asked
    PROVE  CloseInv'
BY DEF CloseInv, SkippedAreClose, Close

LEMMA CloseCommit ==
    ASSUME NEW only, Dispatcher = {only}, TypeInv, CloseInv, NEW d \in Dispatcher, Commit(d)
    PROVE  CloseInv'
<1>1. job'[d].pc = "idle"
  BY DEF Commit, TypeInv, TypeOK, IdleJob
<1>2. ASSUME NEW s \in Slot PROVE Close(s)'
  <2>1. CASE s \in Requested(d) /\ s \in job[d].save
    <3>1. plan'[s] = Order(job[d].want[s]) /\ asked'[s] = job[d].want[s]
      BY <2>1 DEF Commit
    <3>2. job[d].want[s] \in Nat
      BY <2>1 DEF Requested, TypeInv, TypeOK, Job
    <3>3. CalculateTrucks(job[d].want[s]) \in Nat
      BY <3>2, TrucksCarryTheLoad
    <3> QED  BY <3>1, <3>2, <3>3 DEF Close, Order, Distance, Threshold
  <2>2. CASE s \in Requested(d) /\ s \notin job[d].save
    <3>1. plan'[s] = plan[s] /\ asked'[s] = job[d].want[s]
      BY <2>2 DEF Commit
    <3>2. job[d].want[s] \in Nat
      BY <2>2 DEF Requested, TypeInv, TypeOK, Job
    <3>3. Unchanged(plan[s], Order(job[d].want[s]))
      BY <2>2 DEF CloseInv, SkippedAreClose, Commit
    <3> QED  BY <3>1, <3>2, <3>3 DEF Close, Unchanged, Order
  <2>3. CASE s \notin Requested(d)
    <3>1. s \notin job[d].save
      BY <2>3 DEF TypeInv, TypeOK
    <3>2. plan'[s] = plan[s] /\ asked'[s] = asked[s]
      BY <2>3, <3>1 DEF Commit
    <3> QED  BY <3>2 DEF Close, CloseInv
  <2> QED  BY <2>1, <2>2, <2>3
<1>3. SkippedAreClose'
  BY <1>1 DEF SkippedAreClose
<1> QED  BY <1>2, <1>3 DEF CloseInv

LEMMA CloseStep ==
    ASSUME NEW only, Dispatcher = {only}, TypeInv, CloseInv, [Next]_vars
    PROVE  CloseInv'
<1>1. ASSUME NEW d \in Dispatcher, NEW start, CreateDispatch(d, start) PROVE CloseInv'
  <2>1. job'[d].pc = "begin" /\ plan' = plan /\ asked' = asked
    BY <1>1 DEF CreateDispatch, TypeInv, TypeOK, IdleJob
  <2> QED  BY <2>1, CloseBeforeWriting
<1>2. ASSUME NEW d \in Dispatcher, NEW s, NEW total, CreateExplicit(d, s, total)
      PROVE  CloseInv'
  <2>1. job'[d].pc = "begin" /\ plan' = plan /\ asked' = asked
    BY <1>2 DEF CreateExplicit, TypeInv, TypeOK, IdleJob
  <2> QED  BY <2>1, CloseBeforeWriting
<1>3. ASSUME NEW d \in Dispatcher, FetchExisting(d) PROVE CloseInv'
  <2>1. /\ job'[d].save = {s \in Requested(d) : ~Unchanged(plan[s], Order(job[d].want[s]))}
        /\ job'[d].want = job[d].want
        /\ plan' = plan /\ asked' = asked
    BY <1>3 DEF FetchExisting, TypeInv, TypeOK, Job
  <2>2. \A s \in Requested(d)' \ job'[d].save : Unchanged(plan'[s], Order(job'[d].want[s]))
    BY <2>1 DEF Requested
  <2> QED  BY <2>1, <2>2 DEF CloseInv, SkippedAreClose, Close, Order, Unchanged
<1>4. ASSUME NEW d \in Dispatcher, Upsert(d) PROVE CloseInv'
  <2>1. /\ job'[d].save = job[d].save /\ job'[d].want = job[d].want /\ job'[d].pc = job[d].pc
        /\ plan' = plan /\ asked' = asked
    BY <1>4 DEF Upsert, TypeInv, TypeOK, Job
  <2> QED  BY <2>1 DEF CloseInv, SkippedAreClose, Close, Requested
<1>5. ASSUME NEW d \in Dispatcher, Rollback(d) PROVE CloseInv'
  <2>1. job'[d].pc = "idle" /\ plan' = plan /\ asked' = asked
    BY <1>5 DEF Rollback, TypeInv, TypeOK, IdleJob
  <2> QED  BY <2>1, CloseBeforeWriting
<1>6. CASE UNCHANGED <<plan, job, asked>>
  BY <1>6 DEF CloseInv, SkippedAreClose, Close, Requested
<1> QED
  BY <1>1, <1>2, <1>3, <1>4, <1>5, <1>6, CloseCommit
  DEF Next, Advance, Tick, SaveForecasts, vars

LEMMA AloneClose ==
    ASSUME NEW CONSTANT only, Dispatcher = {only}
    PROVE  Spec => [](TypeInv /\ CloseInv)
<1>1. TypeInv /\ CloseInv /\ [Next]_vars => CloseInv'
  BY CloseStep
<1> QED  BY CloseInit, TypeInductive, <1>1, PTL DEF Spec

\* However many decisions in a row were skipped as jitter, the stored order is
\* within one truck of what the last of them called for, as long as requests
\* do not overlap: each is compared with what is stored, not with the last.
THEOREM AloneStaysClose ==
    ASSUME NEW CONSTANT only, Dispatcher = {only}
    PROVE  Spec => []StaysClose
<1>1. CloseInv => StaysClose
  BY DEF CloseInv, Close, StaysClose
<1> QED  BY AloneClose, <1>1, PTL

-----------------------------------------------------------------------------
(* What an order is worth afterwards *)

\* One truck more than is ordered carries what was counted last, margin and
\* all, whatever the capacity, the buffer and the minimum are.
THEOREM AloneShortByAtMostOne ==
    ASSUME NEW CONSTANT only, Dispatcher = {only}
    PROVE  Spec => []ShortByAtMostOne
<1>1. TypeInv /\ CloseInv => ShortByAtMostOne
  <2> SUFFICES ASSUME TypeInv, CloseInv, NEW s \in Slot, plan[s] # None
               PROVE  1000 * Capacity * (plan[s].trucks + Threshold) >= Buffered(asked[s])
    BY DEF ShortByAtMostOne
  <2> DEFINE cap == 1000 * Capacity
             c == CalculateTrucks(asked[s])
             t == plan[s].trucks + Threshold
  <2>1. asked[s] \in Nat /\ Distance(plan[s].trucks, c) <= Threshold
    BY DEF CloseInv, Close
  <2>2. plan[s].trucks \in Nat
    BY DEF TypeInv, TypeOK
  <2>3. c \in Nat /\ cap * c >= Buffered(asked[s])
    BY <2>1, TrucksCarryTheLoad
  <2>4. cap \in Nat /\ Buffered(asked[s]) \in Nat
    BY <2>1, BufferedCoversTotal, DispatchAssumption
  <2>5. t \in Nat /\ c <= t
    <3> HIDE DEF c
    <3> QED  BY <2>1, <2>2, <2>3 DEF Distance, Threshold
  <2> HIDE DEF cap, c, t
  <2>6. cap * c <= cap * t
    BY <2>3, <2>4, <2>5, ProductGrows
  <2>7. cap * c \in Nat /\ cap * t \in Nat
    BY <2>3, <2>4, <2>5, Z3
  <2>8. cap * t >= Buffered(asked[s])
    BY <2>3, <2>4, <2>6, <2>7
  <2> QED  BY <2>8 DEF cap, t
<1> QED  BY AloneClose, <1>1, PTL

\* A margin of less than a truckful costs at most one truck: where the floats
\* add one, the load fills the trucks exactly and the margin has cost none.
LEMMA MarginCostsAtMostOne ==
    ASSUME NEW a \in Nat, MinTrucks <= 1, a * Buffer(a) < 1000 * Capacity
    PROVE  /\ ActualVehicles(a) \in Nat
           /\ CalculateTrucks(a) \in {ActualVehicles(a), ActualVehicles(a) + 1}
<1> DEFINE cap == 1000 * Capacity
           v == CeilDiv(a, Capacity)
           c == CeilDiv(Buffered(a), cap)
           t == Trucks(a)
           margin == a * Buffer(a)
<1>1. Capacity \in Nat \ {0} /\ cap \in Nat \ {0} /\ MinTrucks \in Nat
  BY DispatchAssumption
<1>2. v \in Nat /\ Capacity * v >= a /\ Capacity * v < a + Capacity
  BY ONLY a \in Nat, <1>1, CeilDivIsLeast
<1>3. Buffered(a) \in Nat /\ Buffered(a) = 1000 * a + margin /\ margin \in Nat
  <2>1. Buffer(a) \in Nat
    BY DispatchAssumption DEF Buffer, AdaptiveBuffer
  <2> DEFINE b == Buffer(a)
  <2>2. a * b \in Nat /\ a * (1000 + b) = 1000 * a + a * b
    BY <2>1, Z3
  <2> QED  BY <2>2 DEF Buffered
<1>4. c \in Nat /\ cap * c >= Buffered(a) /\ cap * c < Buffered(a) + cap
  <2> HIDE DEF cap
  <2> QED  BY ONLY <1>1, <1>3, CeilDivIsLeast
<1>5. ActualVehicles(a) = v
  BY DEF ActualVehicles
<1>6. Capacity * v \in Nat /\ cap * v = 1000 * (Capacity * v)
  <2> HIDE DEF v
  <2> QED  BY <1>1, <1>2, Z3
<1>7. margin < cap
  OBVIOUS
<1>8. CalculateTrucks(a) = IF a = 0 THEN 0 ELSE IF t < MinTrucks THEN MinTrucks ELSE t
  BY DEF CalculateTrucks
<1>t. t = c \/ (t = c + 1 /\ cap * c = Buffered(a))
  <2>1. t = c + Excess(a)
    BY DEF Trucks
  <2>2. CASE Excess(a) = 0
    <3> HIDE DEF c, t
    <3> QED  BY <1>4, <2>1, <2>2
  <2>3. CASE Excess(a) # 0
    <3>1. Buffered(a) % cap = 0 /\ t = c + 1
      BY <2>1, <2>3 DEF Excess
    <3>2. cap * c = Buffered(a)
      <4> HIDE DEF cap
      <4> QED  BY ONLY <1>1, <1>3, <3>1, ExactCeilDiv
    <3> QED  BY <3>1, <3>2
  <2> QED  BY <2>2, <2>3
<1> HIDE DEF cap, v, c, t, margin
<1>9. cap * v >= 1000 * a /\ cap * v < 1000 * a + cap /\ cap * v \in Nat
  BY <1>1, <1>2, <1>6 DEF cap
<1>10. cap * c \in Nat
  BY <1>1, <1>4, Z3
<1>11. t \in Nat /\ c <= t /\ t < v + 2
  <2>1. cap * (v + 2) = cap * v + 2 * cap /\ cap * (v + 1) = cap * v + cap
    BY <1>1, <1>2, Z3
  <2>2. CASE t = c
    <3>1. cap * c < cap * (v + 2)
      BY <1>1, <1>3, <1>4, <1>7, <1>9, <1>10, <2>1
    <3> QED  BY <1>1, <1>2, <1>4, <2>2, <3>1, ProductOrders
  <2>3. CASE t = c + 1 /\ cap * c = Buffered(a)
    <3>1. cap * c < cap * (v + 1)
      BY <1>1, <1>3, <1>7, <1>9, <1>10, <2>1, <2>3
    <3>2. c < v + 1
      BY <1>1, <1>2, <1>4, <3>1, ProductOrders
    <3> QED  BY <1>2, <1>4, <2>3, <3>2
  <2> QED  BY <1>t, <2>2, <2>3
<1>12. v < c + 1
  <2>1. cap * (c + 1) = cap * c + cap
    BY <1>1, <1>4, Z3
  <2>2. cap * v < cap * (c + 1)
    BY <1>1, <1>3, <1>4, <1>9, <1>10, <2>1
  <2> QED  BY <1>1, <1>2, <1>4, <2>2, ProductOrders
<1>13. CASE a = 0
  <2>1. cap * v < cap * 1
    BY <1>1, <1>9, <1>13
  <2>2. v < 1
    BY <1>1, <1>2, <2>1, ProductOrders
  <2> QED  BY <1>2, <1>5, <1>8, <1>13, <2>2
<1>14. CASE a # 0
  <2>1. cap * 0 < cap * v
    BY <1>1, <1>9, <1>14
  <2>2. 0 < v
    BY <1>1, <1>2, <2>1, ProductOrders
  <2> QED  BY <1>1, <1>2, <1>4, <1>5, <1>8, <1>11, <1>12, <1>14, <2>2
<1> QED  BY <1>13, <1>14

\* If what was counted last arrives exactly, the order counts as accurate, for
\* every capacity, every volume with a margin of less than a truckful and
\* whatever the floats round up: the margin, the roundings and antiflapping
\* together stay within the tolerance of the business metrics.
THEOREM AloneRightIsAccurate ==
    ASSUME NEW CONSTANT only, Dispatcher = {only}
    PROVE  Spec => []RightForecastIsAccurate
<1>1. TypeInv /\ CloseInv => RightForecastIsAccurate
  <2> SUFFICES ASSUME TypeInv, CloseInv, NEW s \in Slot, plan[s] # None, MinTrucks <= 1,
                      asked[s] * Buffer(asked[s]) < 1000 * Capacity
               PROVE  Accurate(plan[s], asked[s])
    BY DEF RightForecastIsAccurate
  <2>1. asked[s] \in Nat /\ Distance(plan[s].trucks, CalculateTrucks(asked[s])) <= Threshold
    BY DEF CloseInv, Close
  <2>2. plan[s].trucks \in Nat
    BY DEF TypeInv, TypeOK
  <2>3. /\ ActualVehicles(asked[s]) \in Nat
        /\ CalculateTrucks(asked[s]) \in {ActualVehicles(asked[s]), ActualVehicles(asked[s]) + 1}
    BY <2>1, MarginCostsAtMostOne
  <2> QED  BY <2>1, <2>2, <2>3 DEF Accurate, Distance, Threshold
<1> QED  BY AloneClose, <1>1, PTL
=============================================================================
