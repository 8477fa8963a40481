-------------------------- MODULE WorkerPoolProofs --------------------------
(***************************************************************************)
(* Theorems about WorkerPool for every number of workers, strategies and   *)
(* channel slots, and every limit.                                         *)
(***************************************************************************)
EXTENDS WorkerPool, FiniteSetTheorems, FunctionTheorems, TLAPS

-----------------------------------------------------------------------------
(***************************************************************************)
(* Sorting the results: each keeps a place of its own, so it loses none.   *)
(***************************************************************************)

Before(s, i) == {j \in DOMAIN s : s[j].task < s[i].task \/ (s[j].task = s[i].task /\ j <= i)}

LEMMA PlacesDiffer ==
  ASSUME NEW s \in Seq(Results)
  PROVE  [i \in 1..Len(s) |-> Place(s, i)] \in Injection(1..Len(s), 1..Len(s))
  <1>1. DOMAIN s = 1..Len(s) /\ Len(s) \in Nat /\ \A i \in 1..Len(s) : s[i].task \in Int
    <2>1. \A i \in 1..Len(s) : s[i] \in Results
      OBVIOUS
    <2> QED
      BY <2>1, PoolAssumption DEF Results, Tasks
  <1>2. IsFiniteSet(1..Len(s)) /\ Cardinality(1..Len(s)) = Len(s)
    BY <1>1, FS_Interval
  <1>3. ASSUME NEW i \in 1..Len(s)
        PROVE  /\ Place(s, i) = Cardinality(Before(s, i)) /\ IsFiniteSet(Before(s, i))
               /\ Place(s, i) \in 1..Len(s)
    <2>1. Before(s, i) \in SUBSET (1..Len(s)) /\ i \in Before(s, i)
      BY <1>1 DEF Before
    <2>2. IsFiniteSet(Before(s, i)) /\ Cardinality(Before(s, i)) <= Len(s)
      BY <1>2, <2>1, FS_Subset
    <2>3. Cardinality(Before(s, i)) \in Nat /\ Cardinality(Before(s, i)) # 0
      BY <2>1, <2>2, FS_CardinalityType, FS_EmptySet
    <2> QED
      BY <1>1, <2>2, <2>3 DEF Place, Before
  <1>4. ASSUME NEW i \in 1..Len(s), NEW k \in 1..Len(s), i # k, Place(s, i) = Place(s, k),
               s[i].task < s[k].task \/ (s[i].task = s[k].task /\ i < k)
        PROVE  FALSE
    <2>1. Before(s, i) \in SUBSET Before(s, k)
      BY <1>1, <1>4 DEF Before
    <2>2. k \in Before(s, k) /\ k \notin Before(s, i)
      BY <1>1, <1>4 DEF Before
    <2>3. Before(s, k) = Before(s, i)
      BY <1>3, <1>4, <2>1, FS_Subset
    <2> QED
      BY <2>2, <2>3
  <1>5. ASSUME NEW i \in 1..Len(s), NEW k \in 1..Len(s), Place(s, i) = Place(s, k)
        PROVE  i = k
    <2>1. \/ s[i].task < s[k].task \/ (s[i].task = s[k].task /\ i < k)
          \/ s[k].task < s[i].task \/ (s[k].task = s[i].task /\ k < i)
          \/ i = k
      BY <1>1
    <2> QED
      BY <1>4, <1>5, <2>1
  <1> DEFINE f == [i \in 1..Len(s) |-> Place(s, i)]
  <1>6. f \in [1..Len(s) -> 1..Len(s)] /\ \A a, b \in 1..Len(s) : f[a] = f[b] => a = b
    BY <1>3, <1>5
  <1> HIDE DEF f
  <1>7. f \in Injection(1..Len(s), 1..Len(s))
    BY <1>6, Fun_IsInj
  <1> QED
    BY <1>7 DEF f

LEMMA SortKeeps ==
  ASSUME NEW s \in Seq(Results)
  PROVE  /\ InStrategyOrder(s) \in Seq(Results)
         /\ Len(InStrategyOrder(s)) = Len(s)
         /\ {InStrategyOrder(s)[k] : k \in DOMAIN InStrategyOrder(s)} = {s[i] : i \in DOMAIN s}
         /\ {InStrategyOrder(s)[k].task : k \in DOMAIN InStrategyOrder(s)}
              = {s[i].task : i \in DOMAIN s}
  <1> DEFINE n == Len(s)
             f == [i \in 1..n |-> Place(s, i)]
             from(k) == CHOOSE i \in 1..n : Place(s, i) = k
  <1>1. n \in Nat /\ DOMAIN s = 1..n
    OBVIOUS
  <1>2. IsFiniteSet(1..n) /\ f \in Injection(1..n, 1..n)
    BY <1>1, PlacesDiffer, FS_Interval
  <1>3. f \in Surjection(1..n, 1..n)
    BY <1>2, FS_Injection
  <1>4. /\ \A i \in 1..n : f[i] \in 1..n
        /\ \A k \in 1..n : \E i \in 1..n : f[i] = k
        /\ \A i, j \in 1..n : f[i] = f[j] => i = j
    <2> HIDE DEF f, n
    <2>1. f \in [1..n -> 1..n] /\ \A k \in 1..n : \E i \in 1..n : f[i] = k
      BY <1>3, Fun_SurjectionProperties
    <2>2. \A i, j \in 1..n : f[i] = f[j] => i = j
      BY <1>2, Fun_InjectionProperties
    <2> QED
      BY <2>1, <2>2
  <1>5. /\ \A i \in 1..n : Place(s, i) \in 1..n
        /\ \A k \in 1..n : \E i \in 1..n : Place(s, i) = k
        /\ \A i, j \in 1..n : Place(s, i) = Place(s, j) => i = j
    BY <1>4
  <1>6. \A k \in 1..n : from(k) \in 1..n /\ Place(s, from(k)) = k
    BY <1>5
  <1>7. \A i \in 1..n : from(Place(s, i)) = i
    BY <1>5, <1>6
  <1>8. InStrategyOrder(s) = [k \in 1..n |-> s[from(k)]]
    BY <1>1 DEF InStrategyOrder
  <1> HIDE DEF from, f, n
  <1>9. \A k \in 1..n : s[from(k)] \in Results
    BY <1>1, <1>6
  <1>10. InStrategyOrder(s) \in Seq(Results) /\ Len(InStrategyOrder(s)) = n
    BY <1>1, <1>8, <1>9
  <1>11. /\ {InStrategyOrder(s)[k] : k \in 1..n} = {s[i] : i \in 1..n}
         /\ {InStrategyOrder(s)[k].task : k \in 1..n} = {s[i].task : i \in 1..n}
    <2> DEFINE sorted == InStrategyOrder(s)
    <2>1. \A k \in 1..n : sorted[k] = s[from(k)] /\ from(k) \in 1..n
      BY <1>6, <1>8
    <2>2. \A i \in 1..n : Place(s, i) \in 1..n /\ sorted[Place(s, i)] = s[i]
      BY <1>5, <1>7, <2>1
    <2> HIDE DEF sorted
    <2>3. \A k \in 1..n : sorted[k] \in {s[i] : i \in 1..n}
                          /\ sorted[k].task \in {s[i].task : i \in 1..n}
      BY <2>1
    <2>4. \A i \in 1..n : s[i] \in {sorted[k] : k \in 1..n}
                          /\ s[i].task \in {sorted[k].task : k \in 1..n}
      BY <2>2
    <2>5. /\ {sorted[k] : k \in 1..n} = {s[i] : i \in 1..n}
          /\ {sorted[k].task : k \in 1..n} = {s[i].task : i \in 1..n}
      BY <2>3, <2>4
    <2> QED
      BY <2>5 DEF sorted
  <1> QED
    BY <1>1, <1>8, <1>10, <1>11 DEF n

-----------------------------------------------------------------------------
(***************************************************************************)
(* Type correctness.                                                       *)
(***************************************************************************)

LEMMA TypeInit == Init => TypeOK
  <1> SUFFICES ASSUME Init PROVE TypeOK
    OBVIOUS
  <1>1. /\ taskQ \in Seq(Tasks)
        /\ resultQ \in Seq(Results) /\ Len(resultQ) <= ResultCap
        /\ collected \in Seq(Results)
    BY PoolAssumption DEF Init
  <1>2. /\ hand \in [Workers -> Tasks \cup {0}]
        /\ handOk \in [Workers -> BOOLEAN]
        /\ worker \in [Workers -> WorkerPc]
        /\ runs \in [Tasks -> Nat]
    BY DEF Init, WorkerPc
  <1>3. nextTask \in 1..(NumTasks + 1)
    BY PoolAssumption DEF Init
  <1> QED
    BY <1>1, <1>2, <1>3 DEF Init, TypeOK, ProducerPc, CollectorPc

LEMMA TypeProducer == TypeOK /\ Producer => TypeOK'
  <1> SUFFICES ASSUME TypeOK, Producer PROVE TypeOK'
    OBVIOUS
  <1> USE DEF ProducerStep, stopVars, workerVars, history, ProducerPc
  <1>1. CASE OfferNext
    BY <1>1 DEF OfferNext, TypeOK
  <1>2. CASE ProducerEnds
    BY <1>2 DEF ProducerEnds, TypeOK
  <1>3. CASE LoadStopFlag
    BY <1>3 DEF LoadStopFlag, TypeOK
  <1>4. CASE RegisterNotified
    BY <1>4 DEF RegisterNotified, TypeOK
  <1>5. CASE SendTask
    <2>1. nextTask \in Tasks /\ nextTask + 1 \in 1..(NumTasks + 1)
      BY <1>5, PoolAssumption DEF SendTask, TypeOK, Tasks
    <2>2. Append(taskQ, nextTask) \in Seq(Tasks)
      BY <2>1 DEF TypeOK
    <2> QED
      BY <1>5, <2>1, <2>2 DEF SendTask, TypeOK
  <1>6. CASE Park
    BY <1>6 DEF Park, TypeOK
  <1>7. CASE WakeToStop
    BY <1>7 DEF WakeToStop, TypeOK
  <1>8. CASE WakeToSend
    BY <1>8 DEF WakeToSend, TypeOK
  <1> QED
    BY <1>1, <1>2, <1>3, <1>4, <1>5, <1>6, <1>7, <1>8 DEF Producer

LEMMA TypeWorker == \A w \in Workers : TypeOK /\ Worker(w) => TypeOK'
  <1> SUFFICES ASSUME NEW w \in Workers, TypeOK, Worker(w) PROVE TypeOK'
    OBVIOUS
  <1> USE DEF WorkerStep, stopVars, prodVars, history, WorkerPc
  <1>1. CASE CheckStop(w)
    BY <1>1 DEF CheckStop, TypeOK
  <1>2. CASE TakeTask(w)
    <2>1. Head(taskQ) \in Tasks /\ Tail(taskQ) \in Seq(Tasks)
      BY <1>2 DEF TakeTask, TypeOK
    <2>2. Head(taskQ) # 0
      BY <2>1, PoolAssumption DEF Tasks
    <2> QED
      BY <1>2, <2>1, <2>2 DEF TakeTask, TypeOK
  <1>3. CASE FindEmpty(w)
    BY <1>3 DEF FindEmpty, TypeOK
  <1>4. CASE FindClosed(w)
    BY <1>4 DEF FindClosed, TypeOK
  <1>5. CASE DropTask(w)
    BY <1>5 DEF DropTask, Release, TypeOK
  <1>6. CASE StartStrategy(w)
    BY <1>6 DEF StartStrategy, TypeOK
  <1>7. CASE FinishStrategy(w)
    BY <1>7 DEF FinishStrategy, TypeOK
  <1>8. CASE SendResult(w)
    <2> DEFINE r == [task |-> hand[w], ok |-> handOk[w]]
    <2>1. hand[w] \in Tasks /\ handOk[w] \in BOOLEAN
      BY <1>8 DEF SendResult, TypeOK
    <2>2. r \in Results
      BY <2>1 DEF Results
    <2> HIDE DEF r
    <2>3. Append(resultQ, r) \in Seq(Results) /\ Len(Append(resultQ, r)) = Len(resultQ) + 1
      BY <2>2 DEF TypeOK
    <2>4. resultQ' = Append(resultQ, r)
      BY <1>8 DEF SendResult, r
    <2>5. resultQ' \in Seq(Results) /\ Len(resultQ') <= ResultCap
      BY <1>8, <2>3, <2>4, PoolAssumption DEF SendResult, TypeOK
    <2> QED
      BY <1>8, <2>5 DEF SendResult, Release, TypeOK
  <1>9. CASE SendFails(w)
    BY <1>9 DEF SendFails, Release, TypeOK
  <1> QED
    BY <1>1, <1>2, <1>3, <1>4, <1>5, <1>6, <1>7, <1>8, <1>9 DEF Worker

LEMMA TypeCollector == TypeOK /\ Collector => TypeOK'
  <1> SUFFICES ASSUME TypeOK, Collector PROVE TypeOK'
    OBVIOUS
  <1> USE DEF CollectorStep, stopVars, prodVars, workerVars, history, CollectorPc
  <1>1. CASE CollectResult
    <2>1. /\ Head(resultQ) \in Results
          /\ Tail(resultQ) \in Seq(Results)
          /\ Len(Tail(resultQ)) = Len(resultQ) - 1
      BY <1>1 DEF CollectResult, TypeOK
    <2>2. Append(collected, Head(resultQ)) \in Seq(Results)
      BY <1>1, <2>1 DEF CollectResult, TypeOK
    <2>3. /\ resultQ' \in Seq(Results)
          /\ Len(resultQ') <= ResultCap
          /\ collected' \in Seq(Results)
      BY <1>1, <2>1, <2>2, PoolAssumption DEF CollectResult, TypeOK
    <2>4. successCount' \in Nat
      BY <1>1 DEF CollectResult, RecordSuccess, TypeOK
    <2>5. stopFlag' \in BOOLEAN /\ notified' \in BOOLEAN
      BY <1>1, Zenon DEF CollectResult, RecordSuccess, TypeOK
    <2> QED
      BY <1>1, <2>3, <2>4, <2>5 DEF CollectResult, TypeOK
  <1>2. CASE EndCollect
    BY <1>2 DEF EndCollect, TypeOK
  <1>3. CASE JoinProducer
    BY <1>3 DEF JoinProducer, TypeOK
  <1>4. CASE EndDrain
    BY <1>4 DEF EndDrain, TypeOK
  <1>5. CASE Return
    <2>1. \A i \in DOMAIN resultQ : resultQ[i].task \in Tasks
      <3>1. ASSUME NEW i \in DOMAIN resultQ PROVE resultQ[i] \in Results
        BY DEF TypeOK
      <3> QED
        BY <3>1 DEF Results
    <2>2. lost' \subseteq Tasks
      BY <1>5, <2>1 DEF Return, TypeOK
    <2>3. resultQ' \in Seq(Results) /\ Len(resultQ') <= ResultCap
      BY <1>5, PoolAssumption DEF Return
    <2>4. collected' \in Seq(Results)
      BY <1>5, SortKeeps DEF Return, TypeOK
    <2> QED
      BY <1>5, <2>2, <2>3, <2>4 DEF Return, TypeOK
  <1> QED
    BY <1>1, <1>2, <1>3, <1>4, <1>5 DEF Collector

LEMMA TypeStep == TypeOK /\ [Next]_vars => TypeOK'
  <1> SUFFICES ASSUME TypeOK, [Next]_vars PROVE TypeOK'
    OBVIOUS
  <1>1. CASE Cancel
    BY <1>1 DEF Cancel, prodVars, workerVars, history, TypeOK
  <1>2. CASE UNCHANGED vars
    BY <1>2 DEF vars, stopVars, prodVars, workerVars, history, TypeOK
  <1> QED
    BY <1>1, <1>2, TypeProducer, TypeWorker, TypeCollector DEF Next, Finished

\* Every variable keeps its type: the channels hold at most ResultCap results,
\* and a worker holds a task exactly between receiving it and handing it on.
THEOREM PoolTypeCorrect == Spec => []TypeOK
  BY TypeInit, TypeStep, PTL DEF Spec

-----------------------------------------------------------------------------
(***************************************************************************)
(* The overshoot of the successful-strategy limit.                         *)
(***************************************************************************)

LEMMA BusyFinite ==
  /\ IsFiniteSet(Busy) /\ Cardinality(Busy) \in Nat
  /\ Cardinality(Workers) \in Nat
  /\ Cardinality(Busy) <= Cardinality(Workers)
  <1>1. Busy \subseteq Workers
    BY DEF Busy
  <1> QED
    BY <1>1, PoolAssumption, FS_Subset, FS_CardinalityType

\* A worker step adds nothing to what is on its way once the flag is up.
LEMMA WorkerKeepsOvershoot ==
  \A w \in Workers :
    TypeOK /\ OvershootInductive /\ Worker(w) => OvershootInductive'
  <1> SUFFICES ASSUME NEW w \in Workers, TypeOK, OvershootInductive, Worker(w),
                      Limit > 0
               PROVE  OvershootInductive'
    BY DEF OvershootInductive
  <1>1. UNCHANGED <<stopFlag, successCount>>
    BY DEF Worker, CheckStop, TakeTask, FindEmpty, FindClosed, DropTask,
           StartStrategy, FinishStrategy, SendResult, SendFails, WorkerStep, stopVars
  <1>2. CASE ~stopFlag
    BY <1>1, <1>2 DEF OvershootInductive
  <1>3. CASE stopFlag
    <2> SUFFICES OnTheirWay' <= OnTheirWay /\ OnTheirWay \in Int /\ OnTheirWay' \in Int
      BY <1>1, <1>3, BusyFinite, PoolAssumption DEF OvershootInductive
    <2>1. OnTheirWay \in Int
      BY BusyFinite DEF OnTheirWay, TypeOK
    <2>2. CASE SendResult(w)
      <3>1. w \in Busy /\ Busy' = Busy \ {w}
        BY <2>2 DEF SendResult, WorkerStep, Busy, TypeOK
      <3>2. Cardinality(Busy') = Cardinality(Busy) - 1
        BY <3>1, BusyFinite, FS_RemoveElement
      <3>3. Len(resultQ') = Len(resultQ) + 1
        <4>1. [task |-> hand[w], ok |-> handOk[w]] \in Results
          BY <2>2 DEF SendResult, WorkerStep, TypeOK, Results
        <4> QED
          BY <2>2, <4>1 DEF SendResult, TypeOK
      <3> QED
        BY <1>1, <2>1, <3>2, <3>3, BusyFinite DEF OnTheirWay, TypeOK
    <2>3. CASE ~SendResult(w)
      <3>1. resultQ' = resultQ
        BY <2>3 DEF Worker, CheckStop, TakeTask, FindEmpty, FindClosed, DropTask,
                    StartStrategy, FinishStrategy, SendFails, history
      <3>2. Busy' \subseteq Busy
        BY <1>3, <2>3 DEF Worker, CheckStop, TakeTask, FindEmpty, FindClosed, DropTask,
               StartStrategy, FinishStrategy, SendFails, WorkerStep, Busy, TypeOK
      <3>3. Cardinality(Busy') <= Cardinality(Busy) /\ Cardinality(Busy') \in Nat
        BY <3>2, BusyFinite, FS_Subset, FS_CardinalityType
      <3> QED
        BY <1>1, <2>1, <3>1, <3>3, BusyFinite DEF OnTheirWay, TypeOK
    <2> QED
      BY <2>2, <2>3
  <1> QED
    BY <1>2, <1>3

\* Counting a success takes the result it counts out of the channel.
LEMMA CollectorKeepsOvershoot ==
  TypeOK /\ OvershootInductive /\ Collector => OvershootInductive'
  <1> SUFFICES ASSUME TypeOK, OvershootInductive, Collector, Limit > 0
               PROVE  OvershootInductive'
    BY DEF OvershootInductive
  <1>1. Busy' = Busy
    BY DEF Collector, CollectResult, EndCollect, JoinProducer, EndDrain, Return,
           CollectorStep, workerVars, Busy
  <1>2. CASE CollectResult
    <2>1. Len(resultQ') = Len(resultQ) - 1 /\ Len(resultQ) \in Nat
      BY <1>2 DEF CollectResult, TypeOK
    <2>2. CASE UNCHANGED <<stopFlag, successCount>>
      BY <1>1, <2>1, <2>2, BusyFinite, PoolAssumption DEF OvershootInductive, OnTheirWay, TypeOK
    <2>3. CASE RecordSuccess
      <3>1. /\ successCount' = successCount + 1
            /\ stopFlag' <=> stopFlag \/ successCount + 1 >= Limit
        <4>1. Limit # 0
          BY PoolAssumption
        <4> QED
          BY <2>3, <4>1, Zenon DEF RecordSuccess
      <3> QED
        BY <1>1, <2>1, <3>1, BusyFinite, PoolAssumption
           DEF OvershootInductive, OnTheirWay, TypeOK
    <2> QED
      BY <1>2, <2>2, <2>3 DEF CollectResult
  <1>3. CASE ~CollectResult
    <2>1. UNCHANGED <<stopFlag, successCount>>
      BY <1>3 DEF Collector, EndCollect, JoinProducer, EndDrain, Return,
                  CollectorStep, stopVars
    <2>2. Len(resultQ') <= Len(resultQ) /\ Len(resultQ) \in Nat /\ Len(resultQ') \in Nat
      BY <1>3 DEF Collector, EndCollect, JoinProducer, EndDrain, Return, TypeOK
    <2> QED
      BY <1>1, <2>1, <2>2, BusyFinite, PoolAssumption
         DEF OvershootInductive, OnTheirWay, TypeOK
  <1> QED
    BY <1>2, <1>3

LEMMA OvershootStep ==
  TypeOK /\ OvershootInductive /\ [Next]_vars => OvershootInductive'
  <1> SUFFICES ASSUME TypeOK, OvershootInductive, [Next]_vars
               PROVE  OvershootInductive'
    OBVIOUS
  <1>1. CASE Cancel \/ Producer \/ UNCHANGED vars
    <2>1. UNCHANGED <<stopFlag, successCount, resultQ, worker>>
      BY <1>1 DEF Cancel, Producer, OfferNext, ProducerEnds, LoadStopFlag,
                  RegisterNotified, SendTask, Park, WakeToStop, WakeToSend,
                  ProducerStep, vars, stopVars, workerVars
    <2> QED
      BY <2>1 DEF OvershootInductive, OnTheirWay, Busy
  <1> QED
    BY <1>1, WorkerKeepsOvershoot, CollectorKeepsOvershoot DEF Next, Finished

\* However many strategies, workers and channel slots there are, the successes
\* counted exceed the limit by no more than the results that fit the channel and
\* one task per worker.
THEOREM PoolOvershootBounded == Spec => []OvershootBounded
  <1>1. Init => OvershootInductive
    BY DEF Init, OvershootInductive
  <1>2. TypeOK /\ OvershootInductive => OvershootBounded
    BY BusyFinite, PoolAssumption
       DEF OvershootInductive, OnTheirWay, OvershootBounded, TypeOK
  <1> QED
    BY <1>1, <1>2, OvershootStep, PoolTypeCorrect, PTL DEF Spec

-----------------------------------------------------------------------------
(***************************************************************************)
(* Where the tasks are.  The counts of EachTaskInOnePlace only add up if   *)
(* no place holds a task twice and no two places share one.                *)
(***************************************************************************)

Apart ==
  /\ Queued \cap (Held \cup InChannel \cup Reported \cup lost) = {}
  /\ Held \cap (InChannel \cup Reported \cup lost) = {}
  /\ InChannel \cap (Reported \cup lost) = {}
  /\ Reported \cap lost = {}

OnceEach ==
  /\ \A i, j \in 1..Len(taskQ) : taskQ[i] = taskQ[j] => i = j
  /\ \A v, w \in Workers : hand[v] # 0 /\ hand[v] = hand[w] => v = w
  /\ \A i, j \in 1..Len(resultQ) : resultQ[i].task = resultQ[j].task => i = j

PlaceInv == TypeOK /\ EachTaskInOnePlace /\ Apart /\ OnceEach

\* the channels as sequences
LEMMA Channels ==
  ASSUME TypeOK
  PROVE  /\ DOMAIN taskQ = 1..Len(taskQ) /\ Len(taskQ) \in Nat
         /\ DOMAIN resultQ = 1..Len(resultQ) /\ Len(resultQ) \in Nat
         /\ DOMAIN collected = 1..Len(collected) /\ Len(collected) \in Nat
         /\ \A i \in 1..Len(taskQ) : taskQ[i] \in Tasks
         /\ \A i \in 1..Len(resultQ) : resultQ[i] \in Results /\ resultQ[i].task \in Tasks
         /\ \A i \in 1..Len(collected) : collected[i] \in Results /\ collected[i].task \in Tasks
  <1>1. taskQ \in Seq(Tasks) /\ resultQ \in Seq(Results) /\ collected \in Seq(Results)
    BY DEF TypeOK
  <1>2. \A r \in Results : r.task \in Tasks
    BY DEF Results
  <1> QED
    BY <1>1, <1>2

LEMMA PlacesFinite ==
  ASSUME TypeOK
  PROVE  /\ IsFiniteSet(InHand) /\ Cardinality(InHand) \in Nat
         /\ IsFiniteSet(lost) /\ Cardinality(lost) \in Nat
         /\ InHand \subseteq Workers
  <1>1. InHand \in SUBSET Workers
    BY DEF InHand
  <1>2. lost \in SUBSET (1..NumTasks) /\ IsFiniteSet(1..NumTasks)
    BY PoolAssumption, FS_Interval DEF TypeOK, Tasks
  <1> QED
    BY <1>1, <1>2, PoolAssumption, FS_Subset, FS_CardinalityType

\* what the first message of a channel leaves behind
LEMMA TakeHead ==
  ASSUME NEW S, NEW s \in Seq(S), s # <<>>
  PROVE  /\ Len(Tail(s)) = Len(s) - 1 /\ Len(s) \in Nat \ {0}
         /\ \A i \in 1..(Len(s) - 1) : Tail(s)[i] = s[i + 1]
         /\ Head(s) = s[1] /\ Tail(s) \in Seq(S)
  OBVIOUS

\* a worker hands its task on
LEMMA HandedOn ==
  ASSUME PlaceInv, NEW w \in Workers, hand[w] # 0, hand' = [hand EXCEPT ![w] = 0]
  PROVE  /\ InHand' = InHand \ {w} /\ w \in InHand
         /\ Held' = Held \ {hand[w]} /\ hand[w] \in Held
         /\ Cardinality(InHand') = Cardinality(InHand) - 1
         /\ \A u, v \in Workers : hand'[v] # 0 /\ hand'[v] = hand'[u] => v = u
  <1>1. InHand' = InHand \ {w} /\ w \in InHand
    BY DEF InHand, PlaceInv, TypeOK
  <1>2. Cardinality(InHand') = Cardinality(InHand) - 1
    BY <1>1, PlacesFinite, FS_RemoveElement DEF PlaceInv
  <1>3. \A v \in InHand' : hand'[v] = hand[v] /\ v # w
    BY <1>1 DEF InHand, PlaceInv, TypeOK
  <1>4. Held' = {hand[v] : v \in InHand \ {w}}
    BY <1>1, <1>3 DEF Held
  <1>5. Held' = Held \ {hand[w]} /\ hand[w] \in Held
    BY <1>1, <1>4 DEF Held, InHand, PlaceInv, OnceEach
  <1>6. \A u, v \in Workers : hand'[v] # 0 /\ hand'[v] = hand'[u] => v = u
    BY DEF PlaceInv, TypeOK, OnceEach
  <1> QED
    BY <1>1, <1>2, <1>5, <1>6

LEMMA PlaceInit == Init => PlaceInv
  <1> SUFFICES ASSUME Init PROVE PlaceInv
    OBVIOUS
  <1>1. TypeOK
    BY TypeInit
  <1>2. /\ Queued = {} /\ InHand = {} /\ Held = {} /\ InChannel = {} /\ Reported = {} /\ lost = {}
    BY DEF Init, Queued, InHand, Held, InChannel, Reported
  <1>3. EachTaskInOnePlace
    BY <1>2, FS_EmptySet DEF EachTaskInOnePlace, Init
  <1> QED
    BY <1>1, <1>2, <1>3 DEF PlaceInv, Apart, OnceEach, Init

\* the producer sends a task no place has seen
LEMMA PlaceSend ==
  ASSUME PlaceInv, SendTask
  PROVE  EachTaskInOnePlace' /\ Apart' /\ OnceEach'
  <1> USE DEF ProducerStep, stopVars, workerVars, history
  <1>1. nextTask \in 1..NumTasks /\ taskQ \in Seq(Tasks) /\ nextTask \in Tasks
    BY PoolAssumption DEF SendTask, PlaceInv, TypeOK, Tasks
  <1>2. /\ Len(taskQ') = Len(taskQ) + 1 /\ DOMAIN taskQ' = 1..(Len(taskQ) + 1)
        /\ \A i \in 1..Len(taskQ) : taskQ'[i] = taskQ[i]
        /\ taskQ'[Len(taskQ) + 1] = nextTask
    BY <1>1 DEF SendTask
  <1>3. Queued' = Queued \cup {nextTask}
    BY <1>2, Channels DEF Queued, PlaceInv
  <1>4. UNCHANGED <<InHand, Held, InChannel, Reported, lost, hand, resultQ, collected>>
    BY DEF SendTask, InHand, Held, InChannel, Reported
  <1>5. nextTask \notin Queued \cup Held \cup InChannel \cup Reported \cup lost
    BY <1>1 DEF PlaceInv, EachTaskInOnePlace
  <1>6. nextTask' = nextTask + 1 /\ 1..(nextTask' - 1) = (1..(nextTask - 1)) \cup {nextTask}
    BY <1>1 DEF SendTask
  <1>7. EachTaskInOnePlace'
    <2>1. 1..(nextTask' - 1) = Queued' \cup Held' \cup InChannel' \cup Reported' \cup lost'
      BY <1>3, <1>4, <1>6 DEF PlaceInv, EachTaskInOnePlace
    <2>2. nextTask' - 1 = Len(taskQ') + Cardinality(InHand') + Len(resultQ')
                            + Len(collected') + Cardinality(lost')
      BY <1>1, <1>2, <1>4, <1>6, Channels, PlacesFinite DEF PlaceInv, EachTaskInOnePlace
    <2> QED
      BY <2>1, <2>2 DEF EachTaskInOnePlace
  <1>8. Apart'
    BY <1>3, <1>4, <1>5 DEF PlaceInv, Apart
  <1>9. OnceEach'
    <2>1. \A i \in 1..Len(taskQ) : taskQ[i] # nextTask
      BY <1>5, Channels DEF Queued, PlaceInv
    <2> QED
      BY <1>2, <1>4, <2>1, Channels DEF PlaceInv, OnceEach
  <1> QED
    BY <1>7, <1>8, <1>9

\* a worker takes the oldest task of the channel
LEMMA PlaceTake ==
  ASSUME PlaceInv, NEW w \in Workers, TakeTask(w)
  PROVE  EachTaskInOnePlace' /\ Apart' /\ OnceEach'
  <1> USE DEF WorkerStep, stopVars, prodVars, history
  <1> DEFINE t == taskQ[1]
  <1>1. taskQ \in Seq(Tasks) /\ taskQ # <<>> /\ t \in Tasks /\ t # 0
    BY PoolAssumption DEF TakeTask, PlaceInv, TypeOK, Tasks
  <1>2. /\ Len(taskQ') = Len(taskQ) - 1 /\ Len(taskQ) \in Nat \ {0}
        /\ DOMAIN taskQ' = 1..(Len(taskQ) - 1)
        /\ \A i \in 1..(Len(taskQ) - 1) : taskQ'[i] = taskQ[i + 1]
        /\ hand' = [hand EXCEPT ![w] = t]
    BY <1>1, TakeHead DEF TakeTask
  <1>3. hand[w] = 0
    BY DEF TakeTask, PlaceInv, TypeOK
  <1>4. Queued' = Queued \ {t} /\ t \in Queued
    <2>1. Queued = {taskQ[i] : i \in 1..Len(taskQ)}
          /\ Queued' = {taskQ'[i] : i \in 1..(Len(taskQ) - 1)}
      BY <1>2, Channels DEF Queued, PlaceInv
    <2>2. \A i \in 1..(Len(taskQ) - 1) : taskQ[i + 1] # t
      BY <1>2 DEF PlaceInv, OnceEach
    <2>3. \A i \in 1..Len(taskQ) :
            i # 1 => taskQ[i] = taskQ'[i - 1] /\ i - 1 \in 1..(Len(taskQ) - 1)
      BY <1>2
    <2>4. ASSUME NEW x \in Queued' PROVE x \in Queued \ {t}
      <3>1. PICK i \in 1..(Len(taskQ) - 1) : x = taskQ[i + 1]
        BY <1>2, <2>1
      <3> QED
        BY <1>2, <2>1, <2>2, <3>1
    <2>5. ASSUME NEW x \in Queued \ {t} PROVE x \in Queued'
      <3>1. PICK i \in 1..Len(taskQ) : x = taskQ[i]
        BY <2>1
      <3> QED
        BY <2>1, <2>3, <3>1
    <2>6. t \in Queued
      BY <1>2, <2>1
    <2> QED
      BY <2>4, <2>5, <2>6
  <1>5. InHand' = InHand \cup {w} /\ w \notin InHand
    BY <1>1, <1>2, <1>3 DEF InHand, PlaceInv, TypeOK
  <1>6. Held' = Held \cup {t}
    <2>1. \A v \in InHand : hand'[v] = hand[v]
      BY <1>2, <1>5 DEF PlaceInv, TypeOK, InHand
    <2>2. hand'[w] = t
      BY <1>2 DEF PlaceInv, TypeOK
    <2> QED
      BY <1>5, <2>1, <2>2 DEF Held
  <1>7. Cardinality(InHand') = Cardinality(InHand) + 1
    BY <1>5, PlacesFinite, FS_AddElement DEF PlaceInv
  <1>8. UNCHANGED <<nextTask, InChannel, Reported, lost, resultQ, collected>>
    BY DEF TakeTask, InChannel, Reported
  <1>9. EachTaskInOnePlace'
    <2>1. 1..(nextTask' - 1) = Queued' \cup Held' \cup InChannel' \cup Reported' \cup lost'
      BY <1>4, <1>6, <1>8 DEF PlaceInv, EachTaskInOnePlace
    <2>2. nextTask' - 1 = Len(taskQ') + Cardinality(InHand') + Len(resultQ')
                            + Len(collected') + Cardinality(lost')
      BY <1>2, <1>7, <1>8, Channels, PlacesFinite DEF PlaceInv, EachTaskInOnePlace
    <2> QED
      BY <2>1, <2>2 DEF EachTaskInOnePlace
  <1>10. Apart'
    BY <1>4, <1>6, <1>8 DEF PlaceInv, Apart
  <1>11. OnceEach'
    <2>1. \A v \in Workers : hand[v] # t
      BY <1>1, <1>4 DEF PlaceInv, Apart, Held, InHand
    <2>2. \A u, v \in Workers : hand'[v] # 0 /\ hand'[v] = hand'[u] => v = u
      BY <1>2, <2>1 DEF PlaceInv, TypeOK, OnceEach
    <2>3. \A i, j \in 1..Len(taskQ') : taskQ'[i] = taskQ'[j] => i = j
      BY <1>2 DEF PlaceInv, OnceEach
    <2> QED
      BY <1>8, <2>2, <2>3 DEF PlaceInv, OnceEach
  <1> QED
    BY <1>9, <1>10, <1>11

\* a worker gives its task up
LEMMA PlaceGiveUp ==
  ASSUME PlaceInv, NEW w \in Workers, DropTask(w) \/ SendFails(w)
  PROVE  EachTaskInOnePlace' /\ Apart' /\ OnceEach'
  <1> USE DEF WorkerStep, stopVars, prodVars, history
  <1>1. hand[w] # 0 /\ hand' = [hand EXCEPT ![w] = 0] /\ lost' = lost \cup {hand[w]}
    BY DEF DropTask, SendFails, Release, PlaceInv, TypeOK
  <1>2. /\ Held' = Held \ {hand[w]} /\ hand[w] \in Held
        /\ Cardinality(InHand') = Cardinality(InHand) - 1
        /\ \A u, v \in Workers : hand'[v] # 0 /\ hand'[v] = hand'[u] => v = u
    BY <1>1, HandedOn
  <1>3. UNCHANGED <<nextTask, taskQ, resultQ, collected, Queued, InChannel, Reported>>
    BY DEF DropTask, SendFails, Queued, InChannel, Reported
  <1>4. hand[w] \notin lost
    BY <1>2 DEF PlaceInv, Apart
  <1>5. Cardinality(lost') = Cardinality(lost) + 1
    BY <1>1, <1>2, <1>4, PlacesFinite, FS_AddElement DEF PlaceInv
  <1>6. EachTaskInOnePlace'
    <2>1. 1..(nextTask' - 1) = Queued' \cup Held' \cup InChannel' \cup Reported' \cup lost'
      BY <1>1, <1>2, <1>3 DEF PlaceInv, EachTaskInOnePlace
    <2>2. nextTask' - 1 = Len(taskQ') + Cardinality(InHand') + Len(resultQ')
                            + Len(collected') + Cardinality(lost')
      BY <1>1, <1>2, <1>3, <1>5, Channels, PlacesFinite DEF PlaceInv, EachTaskInOnePlace
    <2> QED
      BY <2>1, <2>2 DEF EachTaskInOnePlace
  <1>7. Apart'
    BY <1>1, <1>2, <1>3 DEF PlaceInv, Apart
  <1>8. OnceEach'
    BY <1>1, <1>2, <1>3 DEF PlaceInv, OnceEach
  <1> QED
    BY <1>6, <1>7, <1>8

\* a worker reports
LEMMA PlaceReport ==
  ASSUME PlaceInv, NEW w \in Workers, SendResult(w)
  PROVE  EachTaskInOnePlace' /\ Apart' /\ OnceEach'
  <1> USE DEF WorkerStep, stopVars, prodVars, history
  <1>1. hand[w] # 0 /\ hand[w] \in Tasks /\ hand' = [hand EXCEPT ![w] = 0]
    BY DEF SendResult, Release, PlaceInv, TypeOK
  <1>2. /\ Held' = Held \ {hand[w]} /\ hand[w] \in Held
        /\ Cardinality(InHand') = Cardinality(InHand) - 1
        /\ \A u, v \in Workers : hand'[v] # 0 /\ hand'[v] = hand'[u] => v = u
    BY <1>1, HandedOn
  <1>3. UNCHANGED <<nextTask, taskQ, collected, lost, Queued, Reported>>
    BY DEF SendResult, Queued, Reported
  <1>4. [task |-> hand[w], ok |-> handOk[w]] \in Results /\ resultQ \in Seq(Results)
    BY <1>1 DEF PlaceInv, TypeOK, Results
  <1>5. /\ Len(resultQ') = Len(resultQ) + 1 /\ DOMAIN resultQ' = 1..(Len(resultQ) + 1)
        /\ \A i \in 1..Len(resultQ) : resultQ'[i] = resultQ[i]
        /\ resultQ'[Len(resultQ) + 1].task = hand[w]
    BY <1>4 DEF SendResult
  <1>6. InChannel' = InChannel \cup {hand[w]}
    BY <1>5, Channels DEF InChannel, PlaceInv
  <1>7. EachTaskInOnePlace'
    <2>1. 1..(nextTask' - 1) = Queued' \cup Held' \cup InChannel' \cup Reported' \cup lost'
      BY <1>1, <1>2, <1>3, <1>6 DEF PlaceInv, EachTaskInOnePlace
    <2>2. nextTask' - 1 = Len(taskQ') + Cardinality(InHand') + Len(resultQ')
                            + Len(collected') + Cardinality(lost')
      BY <1>1, <1>2, <1>3, <1>5, Channels, PlacesFinite DEF PlaceInv, EachTaskInOnePlace
    <2> QED
      BY <2>1, <2>2 DEF EachTaskInOnePlace
  <1>8. Apart'
    BY <1>1, <1>2, <1>3, <1>6 DEF PlaceInv, Apart
  <1>9. OnceEach'
    <2>1. \A i \in 1..Len(resultQ) : resultQ[i].task # hand[w]
      BY <1>1, <1>2, Channels DEF InChannel, PlaceInv, Apart
    <2>2. \A i, j \in 1..Len(resultQ') : resultQ'[i].task = resultQ'[j].task => i = j
      BY <1>5, <2>1, Channels DEF PlaceInv, OnceEach
    <2> QED
      BY <1>1, <1>2, <1>3, <2>2 DEF PlaceInv, OnceEach
  <1> QED
    BY <1>7, <1>8, <1>9

\* the collector takes the oldest result of the channel
LEMMA PlaceCollect ==
  ASSUME PlaceInv, CollectResult
  PROVE  EachTaskInOnePlace' /\ Apart' /\ OnceEach'
  <1> DEFINE r == resultQ[1]
             t == r.task
             n == Len(resultQ)
  <1>1. resultQ \in Seq(Results) /\ resultQ # <<>> /\ collected \in Seq(Results)
    BY DEF CollectResult, PlaceInv, TypeOK
  <1>2. /\ n \in Nat \ {0} /\ Len(resultQ') = n - 1 /\ DOMAIN resultQ' = 1..(n - 1)
        /\ \A i \in 1..(n - 1) : resultQ'[i] = resultQ[i + 1]
        /\ r \in Results /\ collected' = Append(collected, r)
    BY <1>1, TakeHead DEF CollectResult
  <1>3. /\ Len(collected') = Len(collected) + 1
        /\ DOMAIN collected' = 1..(Len(collected) + 1)
        /\ \A i \in 1..Len(collected) : collected'[i] = collected[i]
        /\ collected'[Len(collected) + 1] = r
    BY <1>1, <1>2
  <1>4. UNCHANGED <<nextTask, taskQ, hand, lost, Queued, InHand, Held>>
    BY DEF CollectResult, workerVars, history, Queued, InHand, Held
  <1> HIDE DEF r
  <1>5. InChannel' = InChannel \ {t} /\ t \in InChannel
    <2>1. /\ InChannel = {resultQ[i].task : i \in 1..n}
          /\ InChannel' = {resultQ'[i].task : i \in 1..(n - 1)}
      BY <1>2, Channels DEF InChannel, PlaceInv
    <2>2. \A i \in 1..(n - 1) : resultQ[i + 1].task # t
      BY <1>2 DEF PlaceInv, OnceEach, r
    <2>3. \A i \in 1..n : i # 1 => resultQ[i] = resultQ'[i - 1] /\ i - 1 \in 1..(n - 1)
      BY <1>2
    <2>4. ASSUME NEW x \in InChannel' PROVE x \in InChannel \ {t}
      <3>1. PICK i \in 1..(n - 1) : x = resultQ[i + 1].task
        BY <1>2, <2>1
      <3> QED
        BY <1>2, <2>1, <2>2, <3>1
    <2>5. ASSUME NEW x \in InChannel \ {t} PROVE x \in InChannel'
      <3>1. PICK i \in 1..n : x = resultQ[i].task
        BY <2>1
      <3> QED
        BY <2>1, <2>3, <3>1 DEF r
    <2>6. t \in InChannel
      BY <1>2, <2>1 DEF r
    <2> QED
      BY <2>4, <2>5, <2>6
  <1>6. Reported' = Reported \cup {t}
    BY <1>3, Channels DEF Reported, PlaceInv
  <1>7. EachTaskInOnePlace'
    <2>1. 1..(nextTask' - 1) = Queued' \cup Held' \cup InChannel' \cup Reported' \cup lost'
      BY <1>4, <1>5, <1>6 DEF PlaceInv, EachTaskInOnePlace
    <2>2. /\ nextTask' = nextTask /\ Len(taskQ') = Len(taskQ)
          /\ Cardinality(InHand') = Cardinality(InHand) /\ Cardinality(lost') = Cardinality(lost)
      BY <1>4
    <2>3. nextTask' - 1 = Len(taskQ') + Cardinality(InHand') + Len(resultQ')
                            + Len(collected') + Cardinality(lost')
      <3>1. nextTask - 1 = Len(taskQ) + Cardinality(InHand) + Len(resultQ)
                             + Len(collected) + Cardinality(lost)
        BY DEF PlaceInv, EachTaskInOnePlace
      <3>2. /\ Len(taskQ) \in Nat /\ Len(resultQ) \in Nat /\ Len(collected) \in Nat
            /\ Cardinality(InHand) \in Nat /\ Cardinality(lost) \in Nat
        BY Channels, PlacesFinite DEF PlaceInv
      <3>3. Len(resultQ') = Len(resultQ) - 1 /\ Len(collected') = Len(collected) + 1
        BY <1>2, <1>3
      <3>4. Len(taskQ) + Cardinality(InHand) + Len(resultQ) + Len(collected)
              = Len(taskQ) + Cardinality(InHand) + (Len(resultQ) - 1) + (Len(collected) + 1)
        <4> DEFINE q == Len(taskQ)  h == Cardinality(InHand)
                   c == Len(resultQ)  r0 == Len(collected)
        <4>1. q \in Nat /\ h \in Nat /\ c \in Nat /\ r0 \in Nat
          BY <3>2
        <4> HIDE DEF q, h, c, r0
        <4>2. q + h + c + r0 = q + h + (c - 1) + (r0 + 1)
          BY <4>1
        <4> QED
          BY <4>2 DEF q, h, c, r0
      <3>5. Len(taskQ) + Cardinality(InHand) + Len(resultQ) + Len(collected)
              = Len(taskQ) + Cardinality(InHand) + Len(resultQ') + Len(collected')
        BY <3>3, <3>4, Zenon
      <3> QED
        BY <2>2, <3>1, <3>5
    <2> QED
      BY <2>1, <2>3 DEF EachTaskInOnePlace
  <1>8. Apart'
    BY <1>4, <1>5, <1>6 DEF PlaceInv, Apart
  <1>9. OnceEach'
    <2>1. \A i, j \in 1..Len(resultQ') : resultQ'[i].task = resultQ'[j].task => i = j
      BY <1>2 DEF PlaceInv, OnceEach
    <2> QED
      BY <1>4, <2>1 DEF PlaceInv, OnceEach
  <1> QED
    BY <1>7, <1>8, <1>9

LEMMA UpTo ==
  ASSUME NEW n \in Nat
  PROVE  IsFiniteSet(1..n) /\ Cardinality(1..n) = n
  BY FS_Interval

LEMMA ChannelSize ==
  ASSUME PlaceInv
  PROVE  IsFiniteSet(InChannel) /\ Cardinality(InChannel) = Len(resultQ)
  <1> DEFINE n == Len(resultQ)
             f == [i \in 1..n |-> resultQ[i].task]
  <1>1. n \in Nat /\ InChannel = {resultQ[i].task : i \in 1..n}
    BY Channels DEF InChannel, PlaceInv
  <1>2. IsFiniteSet(1..n) /\ Cardinality(1..n) = n
    BY <1>1, UpTo
  <1>3. /\ f \in [1..n -> InChannel]
        /\ \A i, j \in 1..n : f[i] = f[j] => i = j
        /\ \A x \in InChannel : \E i \in 1..n : f[i] = x
    BY <1>1 DEF PlaceInv, OnceEach
  <1>4. IsFiniteSet(InChannel)
    <2>1. \A i \in 1..n : resultQ[i].task \in Tasks
      BY Channels DEF PlaceInv
    <2>2. InChannel \in SUBSET Tasks
      BY <1>1, <2>1
    <2>3. IsFiniteSet(Tasks)
      BY PoolAssumption, FS_Interval DEF Tasks
    <2> QED
      BY <2>2, <2>3, FS_Subset
  <1> HIDE DEF f, n
  <1>5. f \in Injection(1..n, InChannel) /\ f \in Surjection(1..n, InChannel)
    BY <1>3, Fun_IsInj, Fun_IsSurj
  <1>6. Cardinality(1..n) = Cardinality(InChannel)
    BY <1>4, <1>5, FS_Injection
  <1> QED
    BY <1>2, <1>4, <1>6 DEF n

\* run() returns: what is left in the channel is lost
LEMMA PlaceReturn ==
  ASSUME PlaceInv, Return
  PROVE  EachTaskInOnePlace' /\ Apart' /\ OnceEach'
  <1> USE DEF CollectorStep, stopVars, prodVars, workerVars
  <1>1. /\ lost' = lost \cup InChannel /\ resultQ' = <<>>
        /\ UNCHANGED <<nextTask, taskQ, hand, Queued, InHand, Held>>
    BY DEF Return, InChannel, Queued, InHand, Held
  <1>2. InChannel' = {}
    BY <1>1 DEF InChannel
  <1>3. collected \in Seq(Results) /\ collected' = InStrategyOrder(collected)
    BY DEF Return, PlaceInv, TypeOK
  <1>4. Len(collected') = Len(collected) /\ Reported' = Reported
    BY <1>3, SortKeeps DEF Reported
  <1>5. Cardinality(lost') = Cardinality(lost) + Len(resultQ)
    <2>1. lost \cap InChannel = {}
      BY DEF PlaceInv, Apart
    <2>2. Cardinality(lost') = Cardinality(lost) + Cardinality(InChannel) - Cardinality({})
      BY <1>1, <2>1, PlacesFinite, ChannelSize, FS_Union DEF PlaceInv
    <2> QED
      BY <2>2, ChannelSize, PlacesFinite, FS_EmptySet, Channels DEF PlaceInv
  <1>6. EachTaskInOnePlace'
    <2>1. 1..(nextTask' - 1) = Queued' \cup Held' \cup InChannel' \cup Reported' \cup lost'
      BY <1>1, <1>2, <1>4 DEF PlaceInv, EachTaskInOnePlace
    <2>2. Len(resultQ') = 0
      BY <1>1
    <2>3. nextTask' - 1 = Len(taskQ') + Cardinality(InHand') + Len(resultQ')
                            + Len(collected') + Cardinality(lost')
      BY <1>1, <1>4, <1>5, <2>2, Channels, PlacesFinite DEF PlaceInv, EachTaskInOnePlace
    <2> QED
      BY <2>1, <2>3 DEF EachTaskInOnePlace
  <1>7. Apart'
    BY <1>1, <1>2, <1>4 DEF PlaceInv, Apart
  <1>8. OnceEach'
    <2>1. Len(resultQ') = 0
      BY <1>1
    <2> QED
      BY <1>1, <2>1 DEF PlaceInv, OnceEach
  <1> QED
    BY <1>6, <1>7, <1>8

\* steps that move no task
LEMMA PlaceKept ==
  ASSUME PlaceInv, UNCHANGED <<nextTask, taskQ, hand, resultQ, collected, lost>>
  PROVE  EachTaskInOnePlace' /\ Apart' /\ OnceEach'
  <1>1. UNCHANGED <<Queued, InHand, Held, InChannel, Reported>>
    BY DEF Queued, InHand, Held, InChannel, Reported
  <1> QED
    BY <1>1 DEF PlaceInv, EachTaskInOnePlace, Apart, OnceEach

LEMMA PlaceStep == PlaceInv /\ [Next]_vars => PlaceInv'
  <1> SUFFICES ASSUME PlaceInv, [Next]_vars PROVE EachTaskInOnePlace' /\ Apart' /\ OnceEach'
    BY TypeStep DEF PlaceInv
  <1>1. CASE Cancel \/ UNCHANGED vars
    BY <1>1, PlaceKept DEF Cancel, vars, prodVars, workerVars, history
  <1>2. CASE Producer
    <2>1. CASE SendTask
      BY <2>1, PlaceSend
    <2>2. CASE ~SendTask
      BY <1>2, <2>2, PlaceKept DEF Producer, OfferNext, ProducerEnds, LoadStopFlag,
         RegisterNotified, Park, WakeToStop, WakeToSend, ProducerStep, workerVars, history
    <2> QED
      BY <2>1, <2>2
  <1>3. ASSUME NEW w \in Workers, Worker(w) PROVE EachTaskInOnePlace' /\ Apart' /\ OnceEach'
    <2>1. CASE TakeTask(w)
      BY <2>1, PlaceTake
    <2>2. CASE DropTask(w) \/ SendFails(w)
      BY <2>2, PlaceGiveUp
    <2>3. CASE SendResult(w)
      BY <2>3, PlaceReport
    <2>4. CASE CheckStop(w) \/ FindEmpty(w) \/ FindClosed(w) \/ StartStrategy(w)
               \/ FinishStrategy(w)
      BY <2>4, PlaceKept DEF CheckStop, FindEmpty, FindClosed, StartStrategy, FinishStrategy,
         WorkerStep, prodVars, history
    <2> QED
      BY <1>3, <2>1, <2>2, <2>3, <2>4 DEF Worker
  <1>4. CASE Collector
    <2>1. CASE CollectResult
      BY <2>1, PlaceCollect
    <2>2. CASE Return
      BY <2>2, PlaceReturn
    <2>3. CASE EndCollect \/ JoinProducer \/ EndDrain
      BY <2>3, PlaceKept DEF EndCollect, JoinProducer, EndDrain, CollectorStep, prodVars,
         workerVars
    <2> QED
      BY <1>4, <2>1, <2>2, <2>3 DEF Collector
  <1> QED
    BY <1>1, <1>2, <1>3, <1>4 DEF Next, Finished

LEMMA PlaceInvariant == Spec => []PlaceInv
  BY PlaceInit, PlaceStep, PTL DEF Spec

\* Every strategy the producer has sent is in one place, once: none is lost or doubled
\* on its way through the channels, whoever is cancelled or detached.
THEOREM TasksInOnePlace == Spec => []EachTaskInOnePlace
  <1>1. PlaceInv => EachTaskInOnePlace
    BY DEF PlaceInv
  <1> QED
    BY <1>1, PlaceInvariant, PTL

-----------------------------------------------------------------------------
(***************************************************************************)
(* How often a strategy is probed: never before a worker has started it,   *)
(* once from then on.  The places of PlaceInv tell the two apart.          *)
(***************************************************************************)

RunsInv ==
  /\ \A t \in Tasks : runs[t] \in {0, 1} /\ (t >= nextTask => runs[t] = 0)
  /\ \A t \in Queued : runs[t] = 0
  /\ \A w \in Workers : worker[w] = "taken" => runs[hand[w]] = 0
  /\ \A w \in Workers : worker[w] \in {"running", "sending"} => runs[hand[w]] = 1
  /\ \A t \in InChannel \cup Reported : runs[t] = 1

LEMMA RunsInit == Init => RunsInv
  BY DEF Init, RunsInv, Queued, InChannel, Reported

\* what the steps of the pool do to the places, as sets
LEMMA SentSet ==
  ASSUME TypeOK, SendTask
  PROVE  /\ Queued' = Queued \cup {nextTask} /\ nextTask' = nextTask + 1
         /\ nextTask \in Tasks /\ nextTask \in Int
         /\ UNCHANGED <<runs, worker, hand, InChannel, Reported>>
  <1>1. nextTask \in Tasks /\ taskQ \in Seq(Tasks) /\ taskQ' = Append(taskQ, nextTask)
        /\ nextTask \in Int
    BY PoolAssumption DEF SendTask, ProducerStep, TypeOK, Tasks
  <1>2. /\ DOMAIN taskQ' = 1..(Len(taskQ) + 1) /\ taskQ'[Len(taskQ) + 1] = nextTask
        /\ \A i \in 1..Len(taskQ) : taskQ'[i] = taskQ[i]
    BY <1>1
  <1>3. Queued' = Queued \cup {nextTask}
    BY <1>2, Channels DEF Queued
  <1> QED
    BY <1>1, <1>3 DEF SendTask, ProducerStep, stopVars, workerVars, history, InChannel, Reported

LEMMA TakenSet ==
  ASSUME TypeOK, NEW w \in Workers, TakeTask(w)
  PROVE  /\ Queued' \subseteq Queued /\ hand'[w] \in Queued
         /\ hand' = [hand EXCEPT ![w] = hand'[w]]
         /\ UNCHANGED <<nextTask, runs, InChannel, Reported>>
  <1>1. taskQ \in Seq(Tasks) /\ taskQ # <<>> /\ taskQ' = Tail(taskQ)
        /\ hand' = [hand EXCEPT ![w] = Head(taskQ)] /\ hand'[w] = Head(taskQ)
    BY DEF TakeTask, TypeOK
  <1>2. /\ Head(taskQ) = taskQ[1] /\ DOMAIN taskQ' = 1..(Len(taskQ) - 1)
        /\ Len(taskQ) \in Nat \ {0}
        /\ \A i \in 1..(Len(taskQ) - 1) : taskQ'[i] = taskQ[i + 1]
    BY <1>1, TakeHead
  <1>3. Queued' \subseteq Queued /\ taskQ[1] \in Queued
    <2>1. ASSUME NEW x \in Queued' PROVE x \in Queued
      <3>1. PICK i \in 1..(Len(taskQ) - 1) : x = taskQ[i + 1]
        BY <1>2 DEF Queued
      <3>2. i + 1 \in DOMAIN taskQ
        BY <1>2, Channels
      <3> QED
        BY <3>1, <3>2 DEF Queued
    <2> QED
      BY <1>2, <2>1, Channels DEF Queued
  <1> QED
    BY <1>1, <1>2, <1>3 DEF TakeTask, WorkerStep, stopVars, prodVars, history, InChannel, Reported

LEMMA CollectedSet ==
  ASSUME TypeOK, CollectResult
  PROVE  /\ InChannel' \cup Reported' \subseteq InChannel \cup Reported
         /\ UNCHANGED <<nextTask, taskQ, Queued, runs, worker, hand>>
  <1>1. /\ resultQ \in Seq(Results) /\ resultQ # <<>> /\ collected \in Seq(Results)
        /\ resultQ' = Tail(resultQ) /\ collected' = Append(collected, Head(resultQ))
    BY DEF CollectResult, TypeOK
  <1>2. /\ Head(resultQ) = resultQ[1] /\ DOMAIN resultQ' = 1..(Len(resultQ) - 1)
        /\ Len(resultQ) \in Nat \ {0} /\ Head(resultQ) \in Results
        /\ \A i \in 1..(Len(resultQ) - 1) : resultQ'[i] = resultQ[i + 1]
    BY <1>1, TakeHead
  <1>3. /\ DOMAIN collected' = 1..(Len(collected) + 1)
        /\ \A i \in 1..Len(collected) : collected'[i] = collected[i]
        /\ collected'[Len(collected) + 1] = resultQ[1]
    BY <1>1, <1>2
  <1>4. ASSUME NEW x \in InChannel' PROVE x \in InChannel
    <2>1. PICK i \in 1..(Len(resultQ) - 1) : x = resultQ[i + 1].task
      BY <1>2, <1>4 DEF InChannel
    <2>2. i + 1 \in DOMAIN resultQ
      BY <1>2, Channels
    <2> QED
      BY <2>1, <2>2 DEF InChannel
  <1>5. ASSUME NEW x \in Reported' PROVE x \in InChannel \cup Reported
    <2>1. PICK i \in 1..(Len(collected) + 1) : x = collected'[i].task
      BY <1>3, <1>5 DEF Reported
    <2>2. i \in 1..Len(collected) \/ i = Len(collected) + 1
      BY Channels
    <2>3. 1 \in DOMAIN resultQ
      BY <1>2, Channels
    <2> QED
      BY <1>3, <2>1, <2>2, <2>3, Channels DEF InChannel, Reported
  <1>6. UNCHANGED <<nextTask, taskQ, runs, worker, hand>>
    BY DEF CollectResult, workerVars, history
  <1> QED
    BY <1>4, <1>5, <1>6 DEF Queued

LEMMA SentResultSet ==
  ASSUME TypeOK, NEW w \in Workers, SendResult(w)
  PROVE  /\ InChannel' \subseteq InChannel \cup {hand[w]}
         /\ UNCHANGED <<nextTask, runs, Queued, Reported>>
  <1>1. hand[w] \in Tasks /\ [task |-> hand[w], ok |-> handOk[w]] \in Results
        /\ resultQ \in Seq(Results)
    BY DEF SendResult, WorkerStep, TypeOK, Results
  <1>2. /\ DOMAIN resultQ' = 1..(Len(resultQ) + 1)
        /\ \A i \in 1..Len(resultQ) : resultQ'[i] = resultQ[i]
        /\ resultQ'[Len(resultQ) + 1].task = hand[w]
    BY <1>1 DEF SendResult
  <1>3. InChannel' \subseteq InChannel \cup {hand[w]}
    BY <1>2, Channels DEF InChannel
  <1> QED
    BY <1>3 DEF SendResult, WorkerStep, prodVars, history, Queued, Reported

\* starting a strategy counts one that no other place holds
LEMMA RunsStarted ==
  ASSUME PlaceInv, RunsInv, NEW w \in Workers, StartStrategy(w)
  PROVE  RunsInv'
  <1> DEFINE t == hand[w]
  <1>1. /\ worker[w] = "taken" /\ worker' = [worker EXCEPT ![w] = "running"]
        /\ runs' = [runs EXCEPT ![t] = @ + 1]
        /\ UNCHANGED <<nextTask, taskQ, hand, resultQ, collected>>
    BY DEF StartStrategy, WorkerStep, prodVars
  <1>2. UNCHANGED <<Queued, InChannel, Reported>>
    BY <1>1 DEF Queued, InChannel, Reported
  <1>3. t \in Held /\ t \in Tasks /\ runs[t] = 0
    BY <1>1 DEF PlaceInv, TypeOK, Held, InHand, RunsInv
  <1>4. t \notin Queued \cup InChannel \cup Reported /\ t \in 1..(nextTask - 1)
    BY <1>3 DEF PlaceInv, Apart, EachTaskInOnePlace
  <1>5. \A v \in Workers \ {w} : hand[v] # t
    BY <1>1 DEF PlaceInv, TypeOK, OnceEach
  <1>6. runs'[t] = 1 /\ \A u \in Tasks \ {t} : runs'[u] = runs[u]
    BY <1>1, <1>3 DEF PlaceInv, TypeOK
  <1>7. nextTask \in Int /\ ~(t >= nextTask)
    BY <1>4, PoolAssumption DEF PlaceInv, TypeOK
  <1> HIDE DEF t
  <1>8. \A u \in Tasks : runs'[u] \in {0, 1} /\ (u >= nextTask' => runs'[u] = 0)
    BY <1>1, <1>6, <1>7 DEF RunsInv
  <1>9. Queued \cup InChannel \cup Reported \subseteq Tasks
    BY Channels DEF PlaceInv, Queued, InChannel, Reported
  <1>10. /\ \A u \in Queued' : runs'[u] = 0
         /\ \A u \in InChannel' \cup Reported' : runs'[u] = 1
    BY <1>2, <1>4, <1>6, <1>9 DEF RunsInv
  <1>11. ASSUME NEW v \in Workers
         PROVE  /\ worker'[v] = "taken" => runs'[hand'[v]] = 0
                /\ worker'[v] \in {"running", "sending"} => runs'[hand'[v]] = 1
    <2>1. CASE v = w
      BY <1>1, <1>6, <2>1 DEF PlaceInv, TypeOK, t
    <2>2. CASE v # w
      <3>1. worker'[v] = worker[v] /\ hand'[v] = hand[v] /\ hand[v] # t
        BY <1>1, <1>5, <2>2 DEF PlaceInv, TypeOK
      <3>2. worker[v] \in {"taken", "running", "sending"} => hand[v] \in Tasks
        BY DEF PlaceInv, TypeOK
      <3> QED
        BY <1>6, <3>1, <3>2 DEF RunsInv
    <2> QED
      BY <2>1, <2>2
  <1> QED
    BY <1>8, <1>10, <1>11 DEF RunsInv

\* a step that runs nothing and moves tasks only from one place to the next
LEMMA RunsKept ==
  ASSUME PlaceInv, RunsInv, UNCHANGED <<nextTask, runs>>,
         Queued' \subseteq Queued,
         InChannel' \cup Reported' \subseteq InChannel \cup Reported,
         \A w \in Workers :
           worker'[w] = "taken" => worker[w] = "taken" /\ hand'[w] = hand[w],
         \A w \in Workers : worker'[w] \in {"running", "sending"} =>
           worker[w] \in {"running", "sending"} /\ hand'[w] = hand[w]
  PROVE  RunsInv'
  BY DEF RunsInv

LEMMA RunsWorker ==
  ASSUME PlaceInv, RunsInv, NEW w \in Workers, Worker(w)
  PROVE  RunsInv'
  <1> TypeOK
    BY DEF PlaceInv
  <1> USE DEF WorkerStep, prodVars, history
  <1>1. CASE CheckStop(w) \/ FindEmpty(w) \/ FindClosed(w)
    <2>1. UNCHANGED <<nextTask, runs, hand, Queued, InChannel, Reported>>
      BY <1>1 DEF CheckStop, FindEmpty, FindClosed, Queued, InChannel, Reported
    <2>2. \A v \in Workers : worker'[v] # worker[v] =>
            worker'[v] \notin {"taken", "running", "sending"}
      BY <1>1 DEF CheckStop, FindEmpty, FindClosed, TypeOK
    <2> QED
      BY <2>1, <2>2, RunsKept
  <1>2. CASE DropTask(w) \/ SendFails(w)
    <2>1. UNCHANGED <<nextTask, runs, Queued, InChannel, Reported>>
      BY <1>2 DEF DropTask, SendFails, Queued, InChannel, Reported
    <2>2. /\ worker' = [worker EXCEPT ![w] = "exited"]
          /\ hand' = [hand EXCEPT ![w] = 0]
      BY <1>2 DEF DropTask, SendFails, Release
    <2>3. \A v \in Workers : worker'[v] # "exited" => worker'[v] = worker[v] /\ hand'[v] = hand[v]
      BY <2>2 DEF TypeOK
    <2> QED
      BY <2>1, <2>3, RunsKept
  <1>3. CASE FinishStrategy(w)
    <2>1. UNCHANGED <<nextTask, runs, hand, Queued, InChannel, Reported>>
      BY <1>3 DEF FinishStrategy, Queued, InChannel, Reported
    <2>2. /\ worker[w] = "running" /\ worker' = [worker EXCEPT ![w] = "sending"]
      BY <1>3 DEF FinishStrategy
    <2>3. \A v \in Workers : worker'[v] # worker[v] => v = w
      BY <2>2 DEF TypeOK
    <2>4. worker'[w] = "sending"
      BY <2>2 DEF TypeOK
    <2> QED
      BY <2>1, <2>2, <2>3, <2>4, RunsKept
  <1>4. CASE StartStrategy(w)
    BY <1>4, RunsStarted
  <1>5. CASE TakeTask(w)
    <2>1. /\ Queued' \subseteq Queued /\ hand'[w] \in Queued
          /\ hand' = [hand EXCEPT ![w] = hand'[w]]
          /\ UNCHANGED <<nextTask, runs, InChannel, Reported>>
      BY <1>5, TakenSet
    <2>2. worker' = [worker EXCEPT ![w] = "taken"]
      BY <1>5 DEF TakeTask
    <2>3. \A v \in Workers \ {w} : worker'[v] = worker[v] /\ hand'[v] = hand[v]
      BY <2>1, <2>2 DEF TypeOK
    <2>4. worker'[w] = "taken" /\ runs'[hand'[w]] = 0
      BY <2>1, <2>2 DEF TypeOK, RunsInv
    <2> QED
      BY <2>1, <2>3, <2>4 DEF RunsInv
  <1>6. CASE SendResult(w)
    <2>1. /\ InChannel' \subseteq InChannel \cup {hand[w]}
          /\ UNCHANGED <<nextTask, runs, Queued, Reported>>
      BY <1>6, SentResultSet
    <2>2. /\ worker[w] = "sending" /\ worker' = [worker EXCEPT ![w] = "check"]
          /\ hand' = [hand EXCEPT ![w] = 0]
      BY <1>6 DEF SendResult, Release
    <2>3. \A v \in Workers : worker'[v] # "check" => worker'[v] = worker[v] /\ hand'[v] = hand[v]
      BY <2>2 DEF TypeOK
    <2> QED
      BY <2>1, <2>2, <2>3 DEF RunsInv
  <1> QED
    BY <1>1, <1>2, <1>3, <1>4, <1>5, <1>6 DEF Worker

LEMMA RunsStep == PlaceInv /\ RunsInv /\ [Next]_vars => RunsInv'
  <1> SUFFICES ASSUME PlaceInv, RunsInv, [Next]_vars PROVE RunsInv'
    OBVIOUS
  <1> TypeOK
    BY DEF PlaceInv
  <1>1. CASE Cancel \/ UNCHANGED vars
    BY <1>1 DEF Cancel, vars, prodVars, workerVars, history, RunsInv, Queued, InChannel,
                Reported
  <1>2. CASE Producer
    <2>1. CASE SendTask
      <3>1. /\ Queued' = Queued \cup {nextTask} /\ nextTask' = nextTask + 1
            /\ nextTask \in Tasks /\ nextTask \in Int
            /\ UNCHANGED <<runs, worker, hand, InChannel, Reported>>
        BY <2>1, SentSet
      <3>2. runs[nextTask] = 0
        BY <3>1 DEF RunsInv
      <3>3. \A t \in Tasks : t >= nextTask + 1 => t >= nextTask
        BY <3>1 DEF Tasks
      <3> QED
        BY <3>1, <3>2, <3>3 DEF RunsInv
    <2>2. CASE ~SendTask
      <3>1. UNCHANGED <<nextTask, taskQ, worker, hand, resultQ, collected, runs>>
        BY <1>2, <2>2 DEF Producer, OfferNext, ProducerEnds, LoadStopFlag, RegisterNotified,
           Park, WakeToStop, WakeToSend, ProducerStep, workerVars, history
      <3> QED
        BY <3>1 DEF RunsInv, Queued, InChannel, Reported
    <2> QED
      BY <2>1, <2>2
  <1>3. CASE \E w \in Workers : Worker(w)
    BY <1>3, RunsWorker
  <1>4. CASE Collector
    <2>1. CASE CollectResult
      BY <2>1, CollectedSet DEF RunsInv
    <2>2. CASE Return
      <3>1. /\ resultQ' = <<>> /\ collected' = InStrategyOrder(collected)
            /\ collected \in Seq(Results)
            /\ UNCHANGED <<nextTask, taskQ, worker, hand, runs>>
        BY <2>2 DEF Return, CollectorStep, prodVars, workerVars, TypeOK
      <3>2. InChannel' = {}
        BY <3>1 DEF InChannel
      <3>3. Reported' = Reported
        BY <3>1, SortKeeps DEF Reported
      <3> QED
        BY <3>1, <3>2, <3>3 DEF RunsInv, Queued
    <2>3. CASE EndCollect \/ JoinProducer \/ EndDrain
      <3>1. UNCHANGED <<nextTask, taskQ, worker, hand, resultQ, collected, runs>>
        BY <2>3 DEF EndCollect, JoinProducer, EndDrain, CollectorStep, prodVars, workerVars
      <3> QED
        BY <3>1 DEF RunsInv, Queued, InChannel, Reported
    <2> QED
      BY <1>4, <2>1, <2>2, <2>3 DEF Collector
  <1> QED
    BY <1>1, <1>2, <1>3, <1>4 DEF Next, Finished

LEMMA RunsInvariant == Spec => []RunsInv
  BY RunsInit, RunsStep, PlaceInvariant, PTL DEF Spec

\* No strategy is probed twice, and each reported result comes from one probe: the
\* posterior is updated once per probe.
THEOREM PoolProbesOnce == Spec => []ProbedAtMostOnce
  <1>1. PlaceInv /\ RunsInv => ProbedAtMostOnce
    <2> SUFFICES ASSUME PlaceInv, RunsInv PROVE ProbedAtMostOnce
      OBVIOUS
    <2>1. \A t \in Tasks : runs[t] <= 1
      BY DEF RunsInv
    <2> QED
      BY <2>1 DEF RunsInv, ProbedAtMostOnce
  <1> QED
    BY <1>1, PlaceInvariant, RunsInvariant, PTL

-----------------------------------------------------------------------------
(***************************************************************************)
(* Completeness.  A worker ends uncancelled only because of the limit, or  *)
(* when everything is offered and taken, and run() passes the collect      *)
(* loop uncancelled only when every worker has ended.                      *)
(***************************************************************************)

CompleteInv ==
  /\ notified => stopFlag
  /\ ~cancelled =>
       /\ producer = "done" /\ ~stopFlag => nextTask = NumTasks + 1
       /\ \A w \in Workers :
            worker[w] = "exited" => stopFlag \/ (producer = "done" /\ taskQ = <<>>)
       /\ collector # "collect" => AllExited /\ resultQ = <<>>
       /\ lost = {}

LEMMA CompleteInit == Init => CompleteInv
  BY DEF Init, CompleteInv

LEMMA CompleteProducer ==
  ASSUME TypeOK, CompleteInv, Producer
  PROVE  CompleteInv'
  <1> USE DEF ProducerStep, stopVars, workerVars, history
  <1>1. CASE SendTask
    <2>1. /\ producer = "send" /\ producer' = "next" /\ notified' = notified
          /\ UNCHANGED <<stopFlag, cancelled, worker, collector, resultQ, lost>>
      BY <1>1 DEF SendTask
    <2> QED
      BY <2>1 DEF CompleteInv, AllExited
  <1>2. CASE ProducerEnds
    <2>1. ~cancelled /\ ~stopFlag => nextTask = NumTasks + 1
      BY <1>2, PoolAssumption DEF ProducerEnds, ShouldStop, TypeOK
    <2> QED
      BY <1>2, <2>1 DEF ProducerEnds, CompleteInv, AllExited
  <1>3. CASE LoadStopFlag
    BY <1>3 DEF LoadStopFlag, ShouldStop, CompleteInv, AllExited
  <1>4. CASE WakeToStop
    BY <1>4 DEF WakeToStop, CompleteInv, AllExited
  <1>5. CASE OfferNext \/ RegisterNotified \/ Park \/ WakeToSend
    BY <1>5 DEF OfferNext, RegisterNotified, Park, WakeToSend, CompleteInv, AllExited
  <1> QED
    BY <1>1, <1>2, <1>3, <1>4, <1>5 DEF Producer

\* a worker that can step has not exited: short of a cancellation run() is collecting
LEMMA CompleteWorker ==
  ASSUME TypeOK, CompleteInv, NEW w \in Workers, Worker(w)
  PROVE  CompleteInv'
  <1> USE DEF WorkerStep, stopVars, prodVars, history
  <1>1. /\ UNCHANGED <<cancelled, stopFlag, notified, producer, nextTask, collector>>
        /\ worker[w] # "exited" /\ \A v \in Workers \ {w} : worker'[v] = worker[v]
    BY DEF Worker, CheckStop, TakeTask, FindEmpty, FindClosed, DropTask, StartStrategy,
           FinishStrategy, SendResult, SendFails, TypeOK
  <1>2. CASE cancelled
    BY <1>1, <1>2 DEF CompleteInv
  <1>3. CASE ~cancelled
    <2>1. collector = "collect"
      BY <1>1, <1>3 DEF CompleteInv, AllExited
    <2>2. lost' = lost
      BY <1>3, <2>1 DEF Worker, CheckStop, TakeTask, FindEmpty, FindClosed, DropTask,
         StartStrategy, FinishStrategy, SendResult, SendFails
    <2>3. worker'[w] = "exited" => stopFlag \/ (producer = "done" /\ taskQ' = <<>>)
      BY <1>3, <2>1 DEF Worker, CheckStop, TakeTask, FindEmpty, FindClosed, DropTask,
         StartStrategy, FinishStrategy, SendResult, SendFails, SenderDropped, TypeOK
    <2>4. taskQ = <<>> => taskQ' = <<>>
      BY <1>3, <2>1 DEF Worker, CheckStop, TakeTask, FindEmpty, FindClosed, DropTask,
         StartStrategy, FinishStrategy, SendResult, SendFails
    <2> QED
      BY <1>1, <2>1, <2>2, <2>3, <2>4 DEF CompleteInv
  <1> QED
    BY <1>2, <1>3

LEMMA CompleteCollector ==
  ASSUME TypeOK, CompleteInv, Collector
  PROVE  CompleteInv'
  <1>1. UNCHANGED <<cancelled, producer, nextTask, taskQ, worker>>
    BY DEF Collector, CollectResult, EndCollect, JoinProducer, EndDrain, Return, CollectorStep,
           stopVars, prodVars, workerVars
  <1>2. CASE CollectResult
    <2>1. (stopFlag => stopFlag') /\ (notified' => stopFlag') /\ lost' = lost
          /\ collector' = collector /\ resultQ # <<>>
      BY <1>2 DEF CollectResult, RecordSuccess, history, CompleteInv
    <2> QED
      BY <1>1, <2>1 DEF CompleteInv, AllExited
  <1>3. CASE EndCollect
    BY <1>1, <1>3 DEF EndCollect, CollectorStep, CompleteInv, AllExited, stopVars, prodVars
  <1>4. CASE JoinProducer \/ EndDrain
    BY <1>1, <1>4 DEF JoinProducer, EndDrain, CollectorStep, CompleteInv, AllExited, stopVars,
                      prodVars
  <1>5. CASE Return
    <2>1. UNCHANGED <<stopFlag, notified>> /\ resultQ' = <<>> /\ collector # "collect"
          /\ (resultQ = <<>> => lost' = lost)
      BY <1>5 DEF Return, CollectorStep, stopVars, prodVars
    <2> QED
      BY <1>1, <2>1 DEF CompleteInv, AllExited
  <1> QED
    BY <1>2, <1>3, <1>4, <1>5 DEF Collector

LEMMA CompleteStep == TypeOK /\ CompleteInv /\ [Next]_vars => CompleteInv'
  <1> SUFFICES ASSUME TypeOK, CompleteInv, [Next]_vars PROVE CompleteInv'
    OBVIOUS
  <1>1. CASE Cancel
    BY <1>1 DEF Cancel, prodVars, CompleteInv
  <1>2. CASE UNCHANGED vars
    BY <1>2 DEF vars, stopVars, prodVars, workerVars, history, CompleteInv, AllExited
  <1> QED
    BY <1>1, <1>2, CompleteProducer, CompleteWorker, CompleteCollector DEF Next, Finished

LEMMA CompleteInvariant == Spec => []CompleteInv
  BY CompleteInit, CompleteStep, PoolTypeCorrect, PTL DEF Spec

\* An uncancelled run() outlives its workers and reports every strategy it probed - all
\* of them, unless the successful-strategy limit stopped it.
THEOREM PoolComplete == Spec => []CompleteUnlessCancelled
  <1>1. PlaceInv /\ RunsInv /\ CompleteInv => CompleteUnlessCancelled
    <2> SUFFICES ASSUME PlaceInv, RunsInv, CompleteInv, collector = "returned", ~cancelled
                 PROVE  /\ AllExited /\ lost = {}
                        /\ Reported = IF stopFlag THEN {t \in Tasks : runs[t] > 0} ELSE Tasks
      BY DEF CompleteUnlessCancelled
    <2>1. AllExited /\ lost = {} /\ resultQ = <<>>
      BY DEF CompleteInv
    <2>2. Held = {} /\ InChannel = {}
      <3>1. \A w \in Workers : hand[w] = 0
        BY <2>1 DEF AllExited, PlaceInv, TypeOK
      <3>2. InHand = {}
        BY <3>1 DEF InHand
      <3>3. InChannel = {}
        BY <2>1 DEF InChannel
      <3> QED
        BY <3>2, <3>3 DEF Held
    <2>3. 1..(nextTask - 1) = Queued \cup Reported
      BY <2>1, <2>2 DEF PlaceInv, EachTaskInOnePlace
    <2>4. CASE stopFlag
      <3>1. \A t \in Reported : t \in Tasks /\ runs[t] > 0
        BY Channels DEF PlaceInv, RunsInv, Reported
      <3>2. ASSUME NEW t \in Tasks, runs[t] > 0 PROVE t \in Reported
        <4>1. ~(t >= nextTask) /\ t \notin Queued
          BY <3>2 DEF RunsInv
        <4>2. t \in 1..(nextTask - 1)
          BY <4>1, PoolAssumption DEF PlaceInv, TypeOK, Tasks
        <4> QED
          BY <2>3, <4>1, <4>2
      <3> QED
        BY <2>1, <2>4, <3>1, <3>2
    <2>5. CASE ~stopFlag
      <3>1. taskQ = <<>> /\ nextTask = NumTasks + 1
        BY <2>1, <2>5, PoolAssumption DEF CompleteInv, AllExited
      <3>2. Queued = {} /\ 1..(nextTask - 1) = Tasks
        BY <3>1, PoolAssumption DEF Queued, Tasks
      <3> QED
        BY <2>1, <2>2, <2>3, <2>5, <3>2
    <2> QED
      BY <2>4, <2>5
  <1> QED
    BY <1>1, CompleteInvariant, PlaceInvariant, RunsInvariant, PTL

-----------------------------------------------------------------------------
(***************************************************************************)
(* The pool implements PoolContract: each of its steps is a step of the    *)
(* contract or leaves the phases of the strategies alone.                  *)
(***************************************************************************)

(***************************************************************************)
(* What the contract needs beyond the places: the task channel holds the   *)
(* strategies sent last, in order, so that the next one taken is the first *)
(* that waits; no strategy has two outcomes; and the count that raises the *)
(* stop flag is that of the successes reported.                            *)
(***************************************************************************)
Outcomes == {collected[i] : i \in DOMAIN collected}

Successes == {r.task : r \in {x \in Outcomes : x.ok}}

InOrder ==
  /\ \A i \in 1..Len(taskQ) : taskQ[i] = nextTask - 1 - Len(taskQ) + i
  /\ \A r, s \in Outcomes : r.task = s.task => r = s
  /\ stopFlag => Limit > 0 /\ successCount >= Limit
  /\ Limit > 0 => successCount = Cardinality(Successes)

\* the results as a set
LEMMA ResultSets ==
  ASSUME TypeOK
  PROVE  /\ Outcomes \subseteq Results /\ Reported = {r.task : r \in Outcomes}
         /\ Successes \subseteq Reported /\ Successes \subseteq Tasks
         /\ IsFiniteSet(Successes) /\ Cardinality(Successes) \in Nat
  <1>1. Outcomes \subseteq Results
    BY Channels DEF Outcomes
  <1>2. Reported = {r.task : r \in Outcomes}
    BY Channels DEF Reported, Outcomes
  <1>3. Successes \subseteq Reported
    BY <1>2 DEF Successes
  <1>4. Successes \in SUBSET Tasks
    BY <1>1 DEF Successes, Results
  <1>5. IsFiniteSet(Tasks)
    BY PoolAssumption, FS_Interval DEF Tasks
  <1> QED
    BY <1>1, <1>2, <1>3, <1>4, <1>5, FS_Subset, FS_CardinalityType

LEMMA InOrderInit == Init => InOrder
  <1> SUFFICES ASSUME Init PROVE InOrder
    OBVIOUS
  <1>1. Outcomes = {} /\ Len(taskQ) = 0
    BY DEF Init, Outcomes
  <1>2. Successes = {}
    BY <1>1 DEF Successes
  <1> QED
    BY <1>1, <1>2, FS_EmptySet DEF Init, InOrder

\* the collector adds the result it reads
LEMMA CollectedResult ==
  ASSUME PlaceInv, CollectResult
  PROVE  /\ resultQ[1] \in Results /\ resultQ[1].task \in InChannel
         /\ Outcomes' = Outcomes \cup {resultQ[1]}
         /\ \A r \in Outcomes : r.task # resultQ[1].task
         /\ UNCHANGED <<nextTask, taskQ, worker, hand, lost>>
         /\ IF resultQ[1].ok THEN RecordSuccess
            ELSE UNCHANGED <<successCount, stopFlag, notified>>
  <1>1. /\ resultQ \in Seq(Results) /\ resultQ # <<>> /\ collected \in Seq(Results)
        /\ collected' = Append(collected, Head(resultQ))
    BY DEF CollectResult, PlaceInv, TypeOK
  <1>2. Head(resultQ) = resultQ[1] /\ Head(resultQ) \in Results /\ 1 \in DOMAIN resultQ
    BY <1>1
  <1>3. Outcomes' = Outcomes \cup {resultQ[1]}
    <2>1. /\ DOMAIN collected' = 1..(Len(collected) + 1)
          /\ \A i \in 1..Len(collected) : collected'[i] = collected[i]
          /\ collected'[Len(collected) + 1] = resultQ[1]
      BY <1>1, <1>2
    <2> QED
      BY <2>1, Channels DEF Outcomes, PlaceInv
  <1>4. resultQ[1].task \in InChannel
    BY <1>2 DEF InChannel
  <1>5. \A r \in Outcomes : r.task # resultQ[1].task
    BY <1>4, ResultSets DEF PlaceInv, Apart
  <1> QED
    BY <1>2, <1>3, <1>4, <1>5 DEF CollectResult, workerVars, history

LEMMA InOrderCollect ==
  ASSUME PlaceInv, InOrder, CollectResult
  PROVE  InOrder'
  <1> DEFINE r == resultQ[1]
  <1>1. /\ r \in Results /\ Outcomes' = Outcomes \cup {r}
        /\ \A x \in Outcomes : x.task # r.task
        /\ UNCHANGED <<nextTask, taskQ>>
        /\ IF r.ok THEN RecordSuccess ELSE UNCHANGED <<successCount, stopFlag, notified>>
    BY CollectedResult
  <1> HIDE DEF r
  <1>2. r.task \notin Successes
    BY <1>1 DEF Successes
  <1>3. /\ \A i \in 1..Len(taskQ') : taskQ'[i] = nextTask' - 1 - Len(taskQ') + i
        /\ \A x, y \in Outcomes' : x.task = y.task => x = y
    BY <1>1 DEF InOrder
  <1>4. successCount \in Nat /\ Cardinality(Successes) \in Nat /\ IsFiniteSet(Successes)
        /\ Limit \in Nat
    BY ResultSets, PoolAssumption DEF PlaceInv, TypeOK
  <1>5. CASE ~r.ok
    <2>1. Successes' = Successes
      BY <1>1, <1>5 DEF Successes
    <2> QED
      BY <1>1, <1>3, <1>5, <2>1 DEF InOrder
  <1>6. CASE r.ok /\ Limit = 0
    <2>1. UNCHANGED <<successCount, stopFlag>>
      BY <1>1, <1>6 DEF RecordSuccess
    <2> QED
      BY <1>3, <1>6, <2>1 DEF InOrder
  <1>7. CASE r.ok /\ Limit # 0
    <2>1. /\ successCount' = successCount + 1
          /\ stopFlag' => stopFlag \/ successCount + 1 >= Limit
      BY <1>1, <1>7, Zenon DEF RecordSuccess
    <2>2. Successes' = Successes \cup {r.task}
      BY <1>1, <1>7 DEF Successes
    <2>3. Cardinality(Successes') = Cardinality(Successes) + 1
      BY <1>2, <1>4, <2>2, FS_AddElement
    <2> QED
      BY <1>3, <1>4, <1>7, <2>1, <2>3 DEF InOrder
  <1> QED
    BY <1>5, <1>6, <1>7

LEMMA InOrderKept ==
  ASSUME InOrder, UNCHANGED <<nextTask, taskQ, stopFlag, successCount, Outcomes>>
  PROVE  InOrder'
  BY DEF InOrder, Successes

LEMMA InOrderStep == PlaceInv /\ InOrder /\ [Next]_vars => InOrder'
  <1> SUFFICES ASSUME PlaceInv, InOrder, [Next]_vars PROVE InOrder'
    OBVIOUS
  <1> TypeOK
    BY DEF PlaceInv
  <1>1. CASE Cancel \/ UNCHANGED vars
    BY <1>1, InOrderKept DEF Cancel, vars, stopVars, prodVars, Outcomes
  <1>2. CASE Producer
    <2>1. CASE SendTask
      <3>1. /\ nextTask \in Int /\ nextTask' = nextTask + 1 /\ Len(taskQ') = Len(taskQ) + 1
            /\ taskQ'[Len(taskQ) + 1] = nextTask
            /\ \A i \in 1..Len(taskQ) : taskQ'[i] = taskQ[i]
            /\ Len(taskQ) \in Nat
        <4>1. nextTask \in Tasks /\ taskQ \in Seq(Tasks) /\ taskQ' = Append(taskQ, nextTask)
              /\ nextTask' = nextTask + 1 /\ nextTask \in Int
          BY <2>1, PoolAssumption DEF SendTask, ProducerStep, TypeOK, Tasks
        <4> QED
          BY <4>1
      <3>2. \A i \in 1..Len(taskQ') : taskQ'[i] = nextTask' - 1 - Len(taskQ') + i
        BY <3>1 DEF InOrder
      <3>3. UNCHANGED <<stopFlag, successCount, Outcomes>>
        BY <2>1 DEF SendTask, ProducerStep, stopVars, Outcomes
      <3> QED
        BY <3>2, <3>3 DEF InOrder, Successes
    <2>2. CASE ~SendTask
      <3>1. UNCHANGED <<nextTask, taskQ, stopFlag, successCount, collected>>
        BY <1>2, <2>2 DEF Producer, OfferNext, ProducerEnds, LoadStopFlag, RegisterNotified,
           Park, WakeToStop, WakeToSend, ProducerStep, stopVars
      <3> QED
        BY <3>1, InOrderKept DEF Outcomes
    <2> QED
      BY <2>1, <2>2
  <1>3. ASSUME NEW w \in Workers, Worker(w) PROVE InOrder'
    <2>1. UNCHANGED <<nextTask, stopFlag, successCount, Outcomes>>
      BY <1>3 DEF Worker, CheckStop, TakeTask, FindEmpty, FindClosed, DropTask, StartStrategy,
         FinishStrategy, SendResult, SendFails, WorkerStep, stopVars, prodVars, Outcomes
    <2>2. CASE TakeTask(w)
      <3>1. taskQ \in Seq(Tasks) /\ taskQ # <<>> /\ taskQ' = Tail(taskQ)
        BY <2>2 DEF TakeTask, TypeOK
      <3>2. /\ Len(taskQ') = Len(taskQ) - 1 /\ Len(taskQ) \in Nat \ {0}
            /\ \A i \in 1..(Len(taskQ) - 1) : taskQ'[i] = taskQ[i + 1]
        BY <3>1, TakeHead
      <3>3. nextTask \in Int
        BY PoolAssumption DEF TypeOK
      <3>4. \A i \in 1..Len(taskQ') : taskQ'[i] = nextTask' - 1 - Len(taskQ') + i
        BY <2>1, <3>2, <3>3 DEF InOrder
      <3> QED
        BY <2>1, <3>4 DEF InOrder, Successes
    <2>3. CASE ~TakeTask(w)
      <3>1. taskQ' = taskQ
        BY <1>3, <2>3 DEF Worker, CheckStop, FindEmpty, FindClosed, DropTask, StartStrategy,
           FinishStrategy, SendResult, SendFails
      <3> QED
        BY <2>1, <3>1, InOrderKept
    <2> QED
      BY <2>2, <2>3
  <1>4. CASE Collector
    <2>1. CASE CollectResult
      BY <2>1, InOrderCollect
    <2>2. CASE Return
      <3>1. collected \in Seq(Results) /\ collected' = InStrategyOrder(collected)
            /\ UNCHANGED <<nextTask, taskQ, stopFlag, successCount>>
        BY <2>2 DEF Return, CollectorStep, stopVars, prodVars, TypeOK
      <3>2. Outcomes' = Outcomes
        BY <3>1, SortKeeps DEF Outcomes
      <3> QED
        BY <3>1, <3>2, InOrderKept
    <2>3. CASE EndCollect \/ JoinProducer \/ EndDrain
      <3>1. UNCHANGED <<nextTask, taskQ, stopFlag, successCount, collected>>
        BY <2>3 DEF EndCollect, JoinProducer, EndDrain, CollectorStep, stopVars, prodVars
      <3> QED
        BY <3>1, InOrderKept DEF Outcomes
    <2> QED
      BY <1>4, <2>1, <2>2, <2>3 DEF Collector
  <1> QED
    BY <1>1, <1>2, <1>3, <1>4 DEF Next, Finished

LEMMA InOrderInvariant == Spec => []InOrder
  BY InOrderInit, InOrderStep, PlaceInvariant, PTL DEF Spec

-----------------------------------------------------------------------------
(***************************************************************************)
(* The phase of a strategy is read off the place it is in.                 *)
(***************************************************************************)

Failures == Reported \ Successes
Taken == {hand[w] : w \in {v \in Workers : worker[v] = "taken"}}
Running == {hand[w] : w \in {v \in Workers : worker[v] \in {"running", "sending"}}}
Waiting == Tasks \ (lost \cup Reported \cup InChannel \cup Held)

LEMMA Phases ==
  ASSUME PlaceInv, InOrder, NEW t \in Tasks
  PROVE  /\ t \in lost       => PhaseOf(t) = "lost"
         /\ t \in Successes  => PhaseOf(t) = "succeeded"
         /\ t \in Failures   => PhaseOf(t) = "failed"
         /\ t \in InChannel  => PhaseOf(t) = "done"
         /\ t \in Taken  => PhaseOf(t) = "taken"
         /\ t \in Running => PhaseOf(t) = "running"
         /\ t \in Waiting => PhaseOf(t) = "waiting"
  <1> TypeOK
    BY DEF PlaceInv
  <1> DEFINE won == \E i \in DOMAIN collected : collected[i] = [task |-> t, ok |-> TRUE]
             failed == \E i \in DOMAIN collected : collected[i] = [task |-> t, ok |-> FALSE]
             taken == \E w \in InHand : hand[w] = t /\ worker[w] = "taken"
             running == \E w \in InHand : hand[w] = t /\ worker[w] # "taken"
  <1>1. won <=> t \in Successes
    <2>1. ASSUME won PROVE t \in Successes
      <3>1. [task |-> t, ok |-> TRUE] \in Outcomes
        BY <2>1 DEF Outcomes
      <3> QED
        BY <3>1 DEF Successes
    <2>2. ASSUME t \in Successes PROVE won
      <3>1. PICK r \in Outcomes : r.task = t /\ r.ok
        BY <2>2 DEF Successes
      <3>2. r \in Results
        BY ResultSets
      <3>3. r = [task |-> t, ok |-> TRUE]
        BY <3>1, <3>2 DEF Results
      <3> QED
        BY <3>1, <3>3 DEF Outcomes
    <2> QED
      BY <2>1, <2>2
  <1>2. failed <=> t \in Failures
    <2>1. ASSUME failed PROVE t \in Failures
      <3>1. [task |-> t, ok |-> FALSE] \in Outcomes
        BY <2>1 DEF Outcomes
      <3>2. t \in Reported
        BY <3>1, ResultSets
      <3>3. t \notin Successes
        BY <3>1 DEF Successes, InOrder
      <3> QED
        BY <3>2, <3>3 DEF Failures
    <2>2. ASSUME t \in Failures PROVE failed
      <3>1. PICK r \in Outcomes : r.task = t
        BY <2>2, ResultSets DEF Failures
      <3>2. r \in Results /\ ~r.ok
        BY <2>2, <3>1, ResultSets DEF Failures, Successes
      <3>3. r = [task |-> t, ok |-> FALSE]
        BY <3>1, <3>2 DEF Results
      <3> QED
        BY <3>1, <3>3 DEF Outcomes
    <2> QED
      BY <2>1, <2>2
  <1>3. taken <=> t \in Taken
    BY DEF Taken, InHand, TypeOK
  <1>4. running <=> t \in Running
    BY DEF Running, InHand, TypeOK
  <1>5. Taken \cup Running = Held
    BY DEF Taken, Running, Held, InHand, TypeOK
  <1>6. Taken \cap Running = {}
    BY DEF Taken, Running, PlaceInv, OnceEach, TypeOK
  <1>7. Successes \cup Failures = Reported
    BY ResultSets DEF Failures
  <1>8. PhaseOf(t) = CASE t \in lost -> "lost"
                       [] won -> "succeeded"
                       [] failed -> "failed"
                       [] t \in InChannel -> "done"
                       [] taken -> "taken"
                       [] running -> "running"
                       [] OTHER -> "waiting"
    BY DEF PhaseOf
  <1> HIDE DEF won, failed, taken, running
  <1>9. /\ t \in lost      => ~won /\ ~failed /\ t \notin InChannel /\ ~taken /\ ~running
        /\ won             => ~failed /\ t \notin InChannel /\ ~taken /\ ~running
        /\ failed          => t \notin InChannel /\ ~taken /\ ~running
        /\ t \in InChannel => ~taken /\ ~running
        /\ taken           => ~running
        /\ t \in Waiting   => /\ t \notin lost /\ ~won /\ ~failed /\ t \notin InChannel
                              /\ ~taken /\ ~running
    <2>1. /\ t \in lost => t \notin Reported /\ t \notin InChannel /\ t \notin Held
          /\ t \in Reported => t \notin InChannel /\ t \notin Held
          /\ t \in InChannel => t \notin Held
      BY DEF PlaceInv, Apart
    <2>2. /\ (won \/ failed <=> t \in Reported) /\ ~(won /\ failed)
          /\ (taken \/ running <=> t \in Held) /\ ~(taken /\ running)
      BY <1>1, <1>2, <1>3, <1>4, <1>5, <1>6, <1>7 DEF Failures
    <2>3. t \in Waiting => t \notin lost \cup Reported \cup InChannel \cup Held
      BY DEF Waiting
    <2> QED
      BY <2>1, <2>2, <2>3, Zenon
  <1>10. t \in lost \/ won \/ failed \/ t \in InChannel \/ taken \/ running \/ t \in Waiting
    BY <1>1, <1>2, <1>3, <1>4, <1>5, <1>7 DEF Waiting
  <1>11. /\ t \in lost      => PhaseOf(t) = "lost"
         /\ won             => PhaseOf(t) = "succeeded"
         /\ failed          => PhaseOf(t) = "failed"
         /\ t \in InChannel => PhaseOf(t) = "done"
         /\ taken           => PhaseOf(t) = "taken"
         /\ running         => PhaseOf(t) = "running"
         /\ t \in Waiting   => PhaseOf(t) = "waiting"
    BY <1>8, <1>9
  <1> QED
    BY <1>1, <1>2, <1>3, <1>4, <1>11

\* each strategy is in one of these, and its phase tells in which
PhasesTell ==
  \A t \in Tasks :
    /\ t \in lost       <=> PhaseOf(t) = "lost"
    /\ t \in Successes  <=> PhaseOf(t) = "succeeded"
    /\ t \in Failures   <=> PhaseOf(t) = "failed"
    /\ t \in InChannel  <=> PhaseOf(t) = "done"
    /\ t \in Taken      <=> PhaseOf(t) = "taken"
    /\ t \in Running    <=> PhaseOf(t) = "running"
    /\ t \in Waiting    <=> PhaseOf(t) = "waiting"
    /\ PhaseOf(t) \in Contract!Phases

LEMMA PhasesKnown == PlaceInv /\ InOrder => PhasesTell
  <1> SUFFICES ASSUME PlaceInv, InOrder, NEW t \in Tasks
               PROVE  /\ t \in lost       <=> PhaseOf(t) = "lost"
                      /\ t \in Successes  <=> PhaseOf(t) = "succeeded"
                      /\ t \in Failures   <=> PhaseOf(t) = "failed"
                      /\ t \in InChannel  <=> PhaseOf(t) = "done"
                      /\ t \in Taken      <=> PhaseOf(t) = "taken"
                      /\ t \in Running    <=> PhaseOf(t) = "running"
                      /\ t \in Waiting    <=> PhaseOf(t) = "waiting"
                      /\ PhaseOf(t) \in Contract!Phases
    BY DEF PhasesTell
  <1>1. Held \subseteq Taken \cup Running /\ Reported \subseteq Successes \cup Failures
    BY DEF Taken, Running, Held, InHand, Failures, PlaceInv, TypeOK
  <1>2. \/ t \in lost \/ t \in Successes \/ t \in Failures \/ t \in InChannel
        \/ t \in Taken \/ t \in Running \/ t \in Waiting
    BY <1>1 DEF Waiting
  <1> QED
    BY <1>2, Phases DEF Contract!Phases

LEMMA PhasesKnownNext == PlaceInv' /\ InOrder' => PhasesTell'
  BY PhasesKnown, PTL

-----------------------------------------------------------------------------
(***************************************************************************)
(* Each step of the pool is one of the contract.                           *)
(***************************************************************************)

ContractInv == PlaceInv /\ CompleteInv /\ InOrder

\* no strategy changes its place
PlacesKept(S) ==
  \A t \in S : /\ t \in lost      <=> t \in lost'
               /\ t \in Successes <=> t \in Successes'
               /\ t \in Failures  <=> t \in Failures'
               /\ t \in InChannel <=> t \in InChannel'
               /\ t \in Taken     <=> t \in Taken'
               /\ t \in Running   <=> t \in Running'

LEMMA PhasesKept ==
  ASSUME PhasesTell, PhasesTell', NEW S \in SUBSET Tasks, PlacesKept(S)
  PROVE  \A t \in S : PhaseOf(t)' = PhaseOf(t)
  <1> SUFFICES ASSUME NEW t \in S PROVE PhaseOf(t)' = PhaseOf(t)
    OBVIOUS
  <1>1. /\ PhaseOf(t) = "lost"      <=> PhaseOf(t)' = "lost"
        /\ PhaseOf(t) = "succeeded" <=> PhaseOf(t)' = "succeeded"
        /\ PhaseOf(t) = "failed"    <=> PhaseOf(t)' = "failed"
        /\ PhaseOf(t) = "done"      <=> PhaseOf(t)' = "done"
        /\ PhaseOf(t) = "taken"     <=> PhaseOf(t)' = "taken"
        /\ PhaseOf(t) = "running"   <=> PhaseOf(t)' = "running"
    BY DEF PhasesTell, PlacesKept
  <1>2. PhaseOf(t) \in Contract!Phases /\ PhaseOf(t)' \in Contract!Phases
    BY DEF PhasesTell
  <1> QED
    BY <1>1, <1>2 DEF Contract!Phases

\* a step the contract does not see
LEMMA Unseen ==
  ASSUME PhasesTell, PhasesTell', PlacesKept(Tasks), cancelled' = cancelled,
         (collector = "returned")' = (collector = "returned")
  PROVE  UNCHANGED Contract!vars
  <1>1. \A t \in Tasks : PhaseOf(t)' = PhaseOf(t)
    BY PhasesKept
  <1>2. [t \in Tasks |-> PhaseOf(t)]' = [t \in Tasks |-> PhaseOf(t)]
    BY <1>1
  <1> QED
    BY <1>2 DEF Contract!vars

\* a step that moves one strategy
LEMMA Moved ==
  ASSUME PhasesTell, PhasesTell', NEW t \in Tasks, NEW from, NEW to,
         PhaseOf(t) = from, PhaseOf(t)' = to, PlacesKept(Tasks \ {t}),
         cancelled' = cancelled, (collector = "returned")' = (collector = "returned")
  PROVE  Contract!Move(t, from, to)
  <1> DEFINE phase == [u \in Tasks |-> PhaseOf(u)]
             phase2 == [u \in Tasks |-> PhaseOf(u)']
  <1>1. \A u \in Tasks \ {t} : PhaseOf(u)' = PhaseOf(u)
    BY PhasesKept
  <1>2. phase2 = [phase EXCEPT ![t] = to] /\ phase[t] = from
    BY <1>1
  <1> QED
    BY <1>2 DEF Contract!Move

\* the contract has its own instance of FiniteSets
LEMMA SameCardinality == \A S : Contract!Cardinality(S) = Cardinality(S)
  BY Zenon DEF Contract!Cardinality, Cardinality

\* at most one strategy is with each worker
LEMMA HeldBound ==
  ASSUME PlaceInv
  PROVE  IsFiniteSet(Held) /\ Cardinality(Held) <= Cardinality(InHand)
  <1> DEFINE f == [w \in InHand |-> hand[w]]
  <1>1. f \in [InHand -> Held] /\ \A t \in Held : \E w \in InHand : f[w] = t
    BY DEF Held
  <1> HIDE DEF f
  <1>2. f \in Surjection(InHand, Held)
    BY <1>1, Fun_IsSurj
  <1> QED
    BY <1>2, PlacesFinite, FS_Surjection DEF PlaceInv

\* the first of the task channel is the first that waits
LEMMA ContractTake ==
  ASSUME ContractInv, PhasesTell, PhasesTell', NEW w \in Workers, TakeTask(w)
  PROVE  \E t \in Tasks : Contract!Take(t)
  <1> PlaceInv /\ TypeOK /\ CompleteInv /\ InOrder
    BY DEF ContractInv, PlaceInv
  <1>0. taskQ \in Seq(Tasks) /\ taskQ # <<>> /\ 1 \in DOMAIN taskQ /\ Len(taskQ) \in Nat \ {0}
        /\ Head(taskQ) = taskQ[1] /\ taskQ[1] \in Tasks
    BY DEF TakeTask, TypeOK
  <1> PICK t \in Tasks : t = taskQ[1]
    BY <1>0
  <1>1. t \in Tasks /\ t # 0 /\ t = taskQ[1] /\ Head(taskQ) = t
        /\ 1 \in DOMAIN taskQ /\ Len(taskQ) \in Nat \ {0}
    BY <1>0, PoolAssumption DEF Tasks
  <1>2. /\ worker[w] = "receive" /\ worker' = [worker EXCEPT ![w] = "taken"]
        /\ hand' = [hand EXCEPT ![w] = t]
        /\ UNCHANGED <<cancelled, collector, lost, collected, resultQ>>
    BY <1>1 DEF TakeTask, WorkerStep, stopVars, prodVars, history
  <1>3. hand[w] = 0
    BY <1>2 DEF TypeOK
  <1>4. t \in Queued /\ t \in Waiting
    BY <1>1 DEF Queued, Waiting, PlaceInv, Apart
  <1>5. Taken' = Taken \cup {t} /\ Running' = Running
    <2>1. \A v \in Workers \ {w} : worker'[v] = worker[v] /\ hand'[v] = hand[v]
      BY <1>2 DEF TypeOK
    <2>2. worker'[w] = "taken" /\ hand'[w] = t
      BY <1>2 DEF TypeOK
    <2> QED
      BY <1>2, <2>1, <2>2 DEF Taken, Running
  <1>6. PlacesKept(Tasks \ {t})
    BY <1>2, <1>5 DEF PlacesKept, Successes, Failures, Outcomes, Reported, InChannel
  <1>7. Contract!Move(t, "waiting", "taken")
    <2>1. PhaseOf(t) = "waiting" /\ PhaseOf(t)' = "taken"
      BY <1>1, <1>4, <1>5 DEF PhasesTell
    <2> QED
      BY <1>1, <1>2, <1>6, <2>1, Moved
  <1>8. ASSUME NEW u \in 1..(t - 1) PROVE u \in Tasks /\ PhaseOf(u) # "waiting"
    <2>1. t \in Int /\ u \in Tasks /\ u < t /\ nextTask \in Int
      BY <1>1, PoolAssumption DEF Tasks, TypeOK
    <2>2. t = nextTask - Len(taskQ) /\ \A i \in 1..Len(taskQ) : taskQ[i] >= t
      <3>1. \A i \in 1..Len(taskQ) : taskQ[i] = nextTask - 1 - Len(taskQ) + i
        BY DEF InOrder
      <3>2. 1 \in 1..Len(taskQ)
        BY <1>1
      <3>3. t = nextTask - 1 - Len(taskQ) + 1
        BY <1>1, <3>1, <3>2
      <3>4. t = nextTask - Len(taskQ)
        BY <1>1, <2>1, <3>3
      <3> QED
        BY <1>1, <2>1, <3>1, <3>4
    <2>3. u \notin Queued
      BY <2>1, <2>2, Channels DEF Queued
    <2>4. u \in 1..(nextTask - 1)
      BY <1>1, <2>1, <2>2 DEF Tasks
    <2>5. u \notin Waiting
      BY <2>3, <2>4 DEF PlaceInv, EachTaskInOnePlace, Waiting
    <2> QED
      BY <2>1, <2>5 DEF PhasesTell
  <1>9. Cardinality(Contract!InPhase({"taken", "running"})) < Cardinality(Workers)
    <2>1. Contract!InPhase({"taken", "running"}) \subseteq Held
      <3>1. \A x \in Tasks : PhaseOf(x) \in {"taken", "running"} => x \in Held
        BY DEF PhasesTell, Taken, Running, Held, InHand, TypeOK
      <3> QED
        BY <3>1 DEF Contract!InPhase, Contract!Tasks, Tasks
    <2>2. Cardinality(Contract!InPhase({"taken", "running"})) <= Cardinality(Held)
          /\ Cardinality(Contract!InPhase({"taken", "running"})) \in Nat
      BY <2>1, HeldBound, FS_Subset, FS_CardinalityType
    <2>3. InHand \in SUBSET (Workers \ {w})
      BY <1>3 DEF InHand
    <2>4. Cardinality(Workers \ {w}) = Cardinality(Workers) - 1 /\ IsFiniteSet(Workers \ {w})
      BY PoolAssumption, FS_RemoveElement
    <2>5. Cardinality(InHand) <= Cardinality(Workers) - 1
      BY <2>3, <2>4, FS_Subset
    <2>6. Cardinality(Held) \in Nat /\ Cardinality(InHand) \in Nat /\ Cardinality(Workers) \in Nat
      BY HeldBound, PlacesFinite, PoolAssumption, FS_CardinalityType
    <2> QED
      BY <2>2, <2>5, <2>6, HeldBound
  <1>10. ~(collector = "returned") \/ cancelled
    BY <1>2 DEF CompleteInv, AllExited
  <1>11. Contract!Take(t)
    <2>1. \A u \in 1..(t - 1) : [x \in Tasks |-> PhaseOf(x)][u] # "waiting"
      BY <1>8
    <2> QED
      BY <1>7, <1>9, <1>10, <2>1, SameCardinality DEF Contract!Take
  <1> QED
    BY <1>1, <1>11

LEMMA ContractStart ==
  ASSUME ContractInv, PhasesTell, PhasesTell', NEW w \in Workers, StartStrategy(w)
  PROVE  \E t \in Tasks : Contract!Start(t)
  <1> PlaceInv /\ TypeOK
    BY DEF ContractInv, PlaceInv
  <1>1. /\ ~cancelled /\ worker[w] = "taken" /\ worker' = [worker EXCEPT ![w] = "running"]
        /\ UNCHANGED <<cancelled, hand, collector, lost, collected, resultQ>>
    BY DEF StartStrategy, WorkerStep, stopVars, prodVars
  <1> PICK t \in Tasks : t = hand[w]
    BY <1>1 DEF TypeOK
  <1>2. \A v \in Workers \ {w} :
          worker'[v] = worker[v] /\ (worker[v] \in {"taken", "running", "sending"} => hand[v] # t)
    BY <1>1 DEF TypeOK, PlaceInv, OnceEach
  <1>3. worker'[w] = "running"
    BY <1>1 DEF TypeOK
  <1>4. Taken' = Taken \ {t} /\ Running' = Running \cup {t} /\ t \in Taken
    BY <1>1, <1>2, <1>3 DEF Taken, Running
  <1>5. PlacesKept(Tasks \ {t})
    BY <1>1, <1>4 DEF PlacesKept, Successes, Failures, Outcomes, Reported, InChannel
  <1>6. PhaseOf(t) = "taken" /\ PhaseOf(t)' = "running"
    BY <1>4 DEF PhasesTell
  <1>7. Contract!Move(t, "taken", "running")
    BY <1>1, <1>5, <1>6, Moved
  <1> QED
    BY <1>1, <1>7 DEF Contract!Start

LEMMA ContractLose ==
  ASSUME ContractInv, PhasesTell, PhasesTell', NEW w \in Workers, DropTask(w) \/ SendFails(w)
  PROVE  \E t \in Tasks : Contract!Lose(t)
  <1> PlaceInv /\ TypeOK /\ CompleteInv
    BY DEF ContractInv, PlaceInv
  <1>1. /\ worker[w] \in {"taken", "sending"} /\ hand' = [hand EXCEPT ![w] = 0]
        /\ worker' = [worker EXCEPT ![w] = "exited"] /\ lost' = lost \cup {hand[w]}
        /\ UNCHANGED <<cancelled, collector, collected, resultQ>>
        /\ worker[w] = "sending" => collector = "returned"
    BY DEF DropTask, SendFails, WorkerStep, Release, stopVars, prodVars
  <1> PICK t \in Tasks : t = hand[w]
    BY <1>1 DEF TypeOK
  <1>2. cancelled
    <2>1. CASE DropTask(w)
      BY <2>1 DEF DropTask
    <2>2. CASE SendFails(w)
      BY <1>1, <2>2 DEF SendFails, CompleteInv, AllExited
    <2> QED
      BY <2>1, <2>2
  <1>3. \A v \in Workers \ {w} :
          /\ worker'[v] = worker[v] /\ hand'[v] = hand[v]
          /\ worker[v] \in {"taken", "running", "sending"} => hand[v] # t
    BY <1>1 DEF TypeOK, PlaceInv, OnceEach
  <1>4. worker'[w] = "exited"
    BY <1>1 DEF TypeOK
  <1>5. /\ Taken' = Taken \ {t} /\ Running' = Running \ {t} /\ lost' = lost \cup {t}
        /\ worker[w] = "taken" => t \in Taken
        /\ worker[w] = "sending" => t \in Running
    BY <1>1, <1>3, <1>4 DEF Taken, Running
  <1>6. PlacesKept(Tasks \ {t})
    BY <1>1, <1>5 DEF PlacesKept, Successes, Failures, Outcomes, Reported, InChannel
  <1>7. CASE worker[w] = "taken"
    <2>1. PhaseOf(t) = "taken" /\ PhaseOf(t)' = "lost"
      BY <1>5, <1>7 DEF PhasesTell
    <2>2. Contract!Move(t, "taken", "lost")
      BY <1>1, <1>6, <2>1, Moved
    <2> QED
      BY <1>2, <2>2 DEF Contract!Lose
  <1>8. CASE worker[w] = "sending"
    <2>1. PhaseOf(t) = "running" /\ PhaseOf(t)' = "lost"
      BY <1>5, <1>8 DEF PhasesTell
    <2>2. Contract!Move(t, "running", "lost")
      BY <1>1, <1>6, <2>1, Moved
    <2> QED
      BY <1>1, <1>2, <1>8, <2>2 DEF Contract!Lose
  <1> QED
    BY <1>1, <1>7, <1>8

LEMMA ContractFinish ==
  ASSUME ContractInv, PhasesTell, PhasesTell', NEW w \in Workers, SendResult(w)
  PROVE  \E t \in Tasks : Contract!Finish(t)
  <1> PlaceInv /\ TypeOK
    BY DEF ContractInv, PlaceInv
  <1>1. /\ worker[w] = "sending" /\ hand' = [hand EXCEPT ![w] = 0]
        /\ worker' = [worker EXCEPT ![w] = "check"] /\ collector # "returned"
        /\ UNCHANGED <<cancelled, collector, collected, lost>>
    BY DEF SendResult, WorkerStep, Release, stopVars, prodVars, history
  <1> PICK t \in Tasks : t = hand[w]
    BY <1>1 DEF TypeOK
  <1>2. \A v \in Workers \ {w} :
          /\ worker'[v] = worker[v] /\ hand'[v] = hand[v]
          /\ worker[v] \in {"taken", "running", "sending"} => hand[v] # t
    BY <1>1 DEF TypeOK, PlaceInv, OnceEach
  <1>3. worker'[w] = "check"
    BY <1>1 DEF TypeOK
  <1>4. /\ Taken' = Taken /\ Running' = Running \ {t} /\ t \in Running
    BY <1>1, <1>2, <1>3 DEF Taken, Running
  <1>5. InChannel' = InChannel \cup {t}
    <2>1. [task |-> t, ok |-> handOk[w]] \in Results /\ resultQ \in Seq(Results)
      BY DEF TypeOK, Results
    <2>2. /\ DOMAIN resultQ' = 1..(Len(resultQ) + 1)
          /\ \A i \in 1..Len(resultQ) : resultQ'[i] = resultQ[i]
          /\ resultQ'[Len(resultQ) + 1].task = t
      BY <2>1 DEF SendResult
    <2> QED
      BY <2>2, Channels DEF InChannel
  <1>6. PlacesKept(Tasks \ {t})
    BY <1>1, <1>4, <1>5 DEF PlacesKept, Successes, Failures, Outcomes, Reported
  <1>7. PhaseOf(t) = "running" /\ PhaseOf(t)' = "done"
    BY <1>4, <1>5 DEF PhasesTell
  <1>8. Contract!Move(t, "running", "done")
    BY <1>1, <1>6, <1>7, Moved
  <1> QED
    BY <1>1, <1>8 DEF Contract!Finish

ReportedOutcomes == Reported = {r.task : r \in Outcomes}

LEMMA ReportedOutcomesNext == TypeOK' => ReportedOutcomes'
  <1>1. TypeOK => ReportedOutcomes
    BY ResultSets DEF ReportedOutcomes
  <1> QED
    BY <1>1, PTL

LEMMA ContractReport ==
  ASSUME ContractInv, PhasesTell, PhasesTell', CollectResult
  PROVE  \E t \in Tasks : Contract!Report(t)
  <1> PlaceInv /\ TypeOK
    BY DEF ContractInv, PlaceInv
  <1> PICK r \in Results : r = resultQ[1]
    BY CollectedResult
  <1> PICK t \in Tasks : t = r.task
    BY DEF Results
  <1>1. /\ t \in InChannel /\ Outcomes' = Outcomes \cup {r}
        /\ UNCHANGED <<worker, hand, lost>> /\ \A x \in Outcomes : x.task # t
    BY CollectedResult
  <1>2. /\ cancelled' = cancelled /\ collector' = collector /\ collector # "returned"
    BY DEF CollectResult
  <1>3. UNCHANGED <<Taken, Running>>
    BY <1>1 DEF Taken, Running
  <1>4. InChannel' \subseteq InChannel /\ InChannel \subseteq InChannel' \cup {t}
    <2>1. resultQ \in Seq(Results) /\ resultQ # <<>> /\ resultQ' = Tail(resultQ)
      BY DEF CollectResult, TypeOK
    <2>2. /\ DOMAIN resultQ' = 1..(Len(resultQ) - 1) /\ Len(resultQ) \in Nat \ {0}
          /\ \A i \in 1..(Len(resultQ) - 1) : resultQ'[i] = resultQ[i + 1]
      BY <2>1, TakeHead
    <2>3. ASSUME NEW x \in InChannel' PROVE x \in InChannel
      <3>1. PICK i \in 1..(Len(resultQ) - 1) : x = resultQ[i + 1].task
        BY <2>2, <2>3 DEF InChannel
      <3>2. i + 1 \in DOMAIN resultQ
        BY <2>2, Channels
      <3> QED
        BY <3>1, <3>2 DEF InChannel
    <2>4. ASSUME NEW x \in InChannel, x # t PROVE x \in InChannel'
      <3>1. PICK i \in 1..Len(resultQ) : x = resultQ[i].task
        BY Channels, <2>4 DEF InChannel
      <3>2. i # 1
        BY <2>4, <3>1
      <3>3. i - 1 \in 1..(Len(resultQ) - 1) /\ resultQ'[i - 1] = resultQ[i]
        BY <2>2, <3>1, <3>2
      <3> QED
        BY <2>2, <3>1, <3>3 DEF InChannel
    <2> QED
      BY <2>3, <2>4
  <1>5. Reported' = Reported \cup {t}
    <2>1. TypeOK'
      BY TypeStep DEF Next, Collector
    <2>2. Reported' = {x.task : x \in Outcomes'}
      BY <2>1, ReportedOutcomesNext DEF ReportedOutcomes
    <2> QED
      BY <1>1, <2>2, ResultSets
  <1>6. Successes' = IF r.ok THEN Successes \cup {t} ELSE Successes
    BY <1>1 DEF Successes
  <1>7. t \notin Successes
    BY <1>1 DEF Successes
  <1>8. PlacesKept(Tasks \ {t})
    BY <1>1, <1>3, <1>4, <1>5, <1>6 DEF PlacesKept, Failures
  <1>9. PhaseOf(t) = "done"
    BY <1>1 DEF PhasesTell
  <1>10. CASE r.ok
    <2>1. PhaseOf(t)' = "succeeded"
      BY <1>6, <1>10 DEF PhasesTell
    <2>2. Contract!Move(t, "done", "succeeded")
      BY <1>2, <1>8, <1>9, <2>1, Moved
    <2> QED
      BY <1>2, <2>2 DEF Contract!Report
  <1>11. CASE ~r.ok
    <2>1. t \in Failures'
      BY <1>5, <1>6, <1>7, <1>11 DEF Failures
    <2>2. PhaseOf(t)' = "failed"
      BY <2>1 DEF PhasesTell
    <2>3. Contract!Move(t, "done", "failed")
      BY <1>2, <1>8, <1>9, <2>2, Moved
    <2> QED
      BY <1>2, <2>3 DEF Contract!Report
  <1> QED
    BY <1>10, <1>11

\* run() returns: what is left in the channel is lost
LEMMA ContractEnd ==
  ASSUME ContractInv, PhasesTell, PhasesTell', Return
  PROVE  Contract!End
  <1> PlaceInv /\ TypeOK /\ CompleteInv /\ InOrder
    BY DEF ContractInv, PlaceInv
  <1>1. /\ collector = "await" /\ collector' = "returned" /\ lost' = lost \cup InChannel
        /\ resultQ' = <<>> /\ collected' = InStrategyOrder(collected)
        /\ UNCHANGED <<cancelled, worker, hand>> /\ collected \in Seq(Results)
    BY DEF Return, CollectorStep, stopVars, workerVars, InChannel, TypeOK
  <1>2. InChannel' = {} /\ UNCHANGED <<Outcomes, Reported, Taken, Running>>
    <2>1. InChannel' = {}
      BY <1>1 DEF InChannel
    <2>2. UNCHANGED <<Outcomes, Reported>>
      BY <1>1, SortKeeps DEF Outcomes, Reported
    <2>3. UNCHANGED <<Taken, Running>>
      BY <1>1 DEF Taken, Running
    <2> QED
      BY <2>1, <2>2, <2>3
  <1>3. PlacesKept(Tasks \ InChannel)
    BY <1>1, <1>2 DEF PlacesKept, Successes, Failures
  <1>4. \A t \in Tasks : PhaseOf(t)' = IF PhaseOf(t) = "done" THEN "lost" ELSE PhaseOf(t)
    <2>1. ASSUME NEW t \in Tasks, t \in InChannel
          PROVE  PhaseOf(t) = "done" /\ PhaseOf(t)' = "lost"
      BY <1>1, <2>1 DEF PhasesTell
    <2>2. ASSUME NEW t \in Tasks, t \notin InChannel
          PROVE  PhaseOf(t) # "done" /\ PhaseOf(t)' = PhaseOf(t)
      BY <1>3, <2>2, PhasesKept DEF PhasesTell
    <2> QED
      BY <2>1, <2>2
  <1>5. ~cancelled => Contract!UnderWay = {}
    <2> SUFFICES ASSUME ~cancelled PROVE Contract!UnderWay = {}
      OBVIOUS
    <2>1. AllExited /\ resultQ = <<>>
      BY <1>1 DEF CompleteInv
    <2>2. Taken = {} /\ Running = {} /\ InChannel = {}
      BY <2>1 DEF AllExited, Taken, Running, InChannel
    <2>3. \A t \in Tasks : PhaseOf(t) \notin {"taken", "running", "done"}
      BY <2>2 DEF PhasesTell
    <2> QED
      BY <2>3 DEF Contract!UnderWay, Contract!InPhase, Contract!Tasks, Tasks
  <1>6. ~cancelled /\ ~stopFlag => Contract!InPhase({"waiting"}) = {}
    <2> SUFFICES ASSUME ~cancelled, ~stopFlag PROVE Contract!InPhase({"waiting"}) = {}
      OBVIOUS
    <2>1. AllExited /\ resultQ = <<>>
      BY <1>1 DEF CompleteInv
    <2>2. taskQ = <<>> /\ nextTask = NumTasks + 1
      BY <2>1, PoolAssumption DEF CompleteInv, AllExited
    <2>3. Queued = {} /\ 1..(nextTask - 1) = Tasks
      BY <2>2, PoolAssumption DEF Queued, Tasks
    <2>4. Waiting = {}
      BY <2>3 DEF PlaceInv, EachTaskInOnePlace, Waiting
    <2>5. \A t \in Tasks : PhaseOf(t) # "waiting"
      BY <2>4 DEF PhasesTell
    <2> QED
      BY <2>5 DEF Contract!InPhase, Contract!Tasks, Tasks
  <1>7. stopFlag => Contract!LimitReached
    <2> SUFFICES ASSUME stopFlag PROVE Contract!LimitReached
      OBVIOUS
    <2>1. Contract!InPhase({"succeeded"}) = Successes
      <3>1. Contract!InPhase({"succeeded"}) = {t \in Tasks : PhaseOf(t) = "succeeded"}
        BY DEF Contract!InPhase, Contract!Tasks, Tasks
      <3>2. Successes \subseteq Tasks
        BY ResultSets
      <3> QED
        BY <3>1, <3>2 DEF PhasesTell
    <2>2. Limit > 0 /\ Cardinality(Successes) >= Limit
      BY DEF InOrder
    <2> QED
      BY <2>1, <2>2, SameCardinality DEF Contract!LimitReached
  <1>8. [t \in Tasks |-> PhaseOf(t)]' =
          [t \in Contract!Tasks |->
             IF [u \in Tasks |-> PhaseOf(u)][t] = "done" THEN "lost"
             ELSE [u \in Tasks |-> PhaseOf(u)][t]]
    BY <1>4 DEF Contract!Tasks, Tasks
  <1> QED
    BY <1>1, <1>5, <1>6, <1>7, <1>8 DEF Contract!End

\* a step of the contract, or one it does not see
ContractStep ==
  \/ Contract!Cancel \/ Contract!End \/ UNCHANGED Contract!vars
  \/ \E t \in Tasks : \/ Contract!Take(t) \/ Contract!Start(t) \/ Contract!Finish(t)
                      \/ Contract!Report(t) \/ Contract!Lose(t)

LEMMA ContractProducer ==
  ASSUME PhasesTell, PhasesTell', Producer
  PROVE  ContractStep
  <1>1. UNCHANGED <<cancelled, worker, hand, resultQ, collector, collected, lost>>
    BY DEF Producer, OfferNext, ProducerEnds, LoadStopFlag, RegisterNotified, SendTask, Park,
           WakeToStop, WakeToSend, ProducerStep, stopVars, workerVars, history
  <1>2. PlacesKept(Tasks)
    BY <1>1 DEF PlacesKept, Successes, Failures, Outcomes, Reported, InChannel, Taken, Running
  <1> QED
    BY <1>1, <1>2, Unseen DEF ContractStep

LEMMA ContractWorker ==
  ASSUME ContractInv, PhasesTell, PhasesTell', NEW w \in Workers, Worker(w)
  PROVE  ContractStep
  <1> TypeOK
    BY DEF ContractInv, PlaceInv
  <1>1. CASE CheckStop(w) \/ FindEmpty(w) \/ FindClosed(w) \/ FinishStrategy(w)
    <2>1. UNCHANGED <<cancelled, hand, resultQ, collector, collected, lost>>
      BY <1>1 DEF CheckStop, FindEmpty, FindClosed, FinishStrategy, WorkerStep, stopVars,
                  prodVars, history
    <2>2. \A v \in Workers \ {w} : worker'[v] = worker[v]
      BY <1>1 DEF CheckStop, FindEmpty, FindClosed, FinishStrategy, WorkerStep, TypeOK
    <2>3. /\ worker[w] \notin {"taken", "sending"} /\ worker'[w] \notin {"taken", "running"}
          /\ worker[w] = "running" <=> worker'[w] = "sending"
      BY <1>1 DEF CheckStop, FindEmpty, FindClosed, FinishStrategy, WorkerStep, TypeOK
    <2>4. UNCHANGED <<Taken, Running>>
      BY <2>1, <2>2, <2>3 DEF Taken, Running
    <2>5. PlacesKept(Tasks)
      BY <2>1, <2>4 DEF PlacesKept, Successes, Failures, Outcomes, Reported, InChannel
    <2> QED
      BY <2>1, <2>5, Unseen DEF ContractStep
  <1>2. CASE TakeTask(w)
    BY <1>2, ContractTake DEF ContractStep
  <1>3. CASE StartStrategy(w)
    BY <1>3, ContractStart DEF ContractStep
  <1>4. CASE SendResult(w)
    BY <1>4, ContractFinish DEF ContractStep
  <1>5. CASE DropTask(w) \/ SendFails(w)
    BY <1>5, ContractLose DEF ContractStep
  <1> QED
    BY <1>1, <1>2, <1>3, <1>4, <1>5 DEF Worker

LEMMA ContractCollector ==
  ASSUME ContractInv, PhasesTell, PhasesTell', Collector
  PROVE  ContractStep
  <1>1. CASE CollectResult
    BY <1>1, ContractReport DEF ContractStep
  <1>2. CASE Return
    BY <1>2, ContractEnd DEF ContractStep
  <1>3. CASE EndCollect \/ JoinProducer \/ EndDrain
    <2>1. /\ UNCHANGED <<cancelled, worker, hand, resultQ, collected, lost>>
          /\ collector # "returned" /\ collector' # "returned"
      BY <1>3 DEF EndCollect, JoinProducer, EndDrain, CollectorStep, stopVars, workerVars
    <2>2. PlacesKept(Tasks)
      BY <2>1 DEF PlacesKept, Successes, Failures, Outcomes, Reported, InChannel, Taken, Running
    <2> QED
      BY <2>1, <2>2, Unseen DEF ContractStep
  <1> QED
    BY <1>1, <1>2, <1>3 DEF Collector

LEMMA ContractNext ==
  ContractInv /\ ContractInv' /\ [Next]_vars => [Contract!Next]_(Contract!vars)
  <1> SUFFICES ASSUME ContractInv, ContractInv', [Next]_vars
               PROVE  [Contract!Next]_(Contract!vars)
    OBVIOUS
  <1>1. PhasesTell
    BY PhasesKnown DEF ContractInv
  <1>2. PhasesTell'
    BY PhasesKnownNext DEF ContractInv
  <1>3. CASE Cancel \/ UNCHANGED vars
    <2>1. /\ UNCHANGED <<worker, hand, resultQ, collector, collected, lost>>
          /\ cancelled' = TRUE \/ cancelled' = cancelled
      BY <1>3 DEF Cancel, vars, stopVars, workerVars, history
    <2>2. PlacesKept(Tasks)
      BY <2>1 DEF PlacesKept, Successes, Failures, Outcomes, Reported, InChannel, Taken, Running
    <2>3. \A t \in Tasks : PhaseOf(t)' = PhaseOf(t)
      BY <1>1, <1>2, <2>2, PhasesKept
    <2>4. [t \in Tasks |-> PhaseOf(t)]' = [t \in Tasks |-> PhaseOf(t)]
      BY <2>3
    <2>5. ContractStep
      BY <2>1, <2>4 DEF ContractStep, Contract!Cancel, Contract!vars
    <2> QED
      BY <2>5 DEF ContractStep, Contract!Next, Contract!Tasks, Tasks
  <1>4. CASE ~(Cancel \/ UNCHANGED vars)
    <2>1. ContractStep
      BY <1>1, <1>2, <1>4, ContractProducer, ContractWorker, ContractCollector DEF Next, Finished
    <2> QED
      BY <2>1 DEF ContractStep, Contract!Next, Contract!Tasks, Tasks
  <1> QED
    BY <1>3, <1>4

LEMMA ContractInit == Init => Contract!Init
  <1> SUFFICES ASSUME Init PROVE Contract!Init
    OBVIOUS
  <1>1. PhasesTell
    BY PlaceInit, InOrderInit, PhasesKnown
  <1>2. lost = {} /\ Reported = {} /\ InChannel = {} /\ Held = {}
    BY DEF Init, Reported, InChannel, Held, InHand
  <1>3. \A t \in Tasks : PhaseOf(t) = "waiting"
    BY <1>1, <1>2 DEF PhasesTell, Waiting
  <1> QED
    BY <1>3 DEF Init, Contract!Init, Contract!Tasks, Tasks

\* What run() promises the scheduler: whatever the channels, the polling and the shutdown
\* do, the strategies are taken up in order, at most one per worker, each is probed and
\* reported at most once and given up only by a cancelled run, and an uncancelled run ends
\* with nothing under way, with all of them reported or the limit reached.
THEOREM PoolImplementsContract == Spec => ImplementsContract
  <1>1. Spec => []ContractInv
    BY PlaceInvariant, CompleteInvariant, InOrderInvariant, PTL DEF ContractInv
  <1> QED
    BY <1>1, ContractInit, ContractNext, PTL DEF Spec, ImplementsContract, Contract!Spec
=============================================================================
