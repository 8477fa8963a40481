------------------------- MODULE QueueAllocatorProofs -------------------------
(***************************************************************************)
(* Theorems about QueueAllocator for every finite set of tasks and every   *)
(* number of queues.                                                       *)
(***************************************************************************)
EXTENDS QueueAllocator, FiniteSetTheorems, SequenceTheorems, TLAPS

-----------------------------------------------------------------------------
(***************************************************************************)
(* Sequences without repetition.                                           *)
(***************************************************************************)

Elements(s) == {s[i] : i \in DOMAIN s}

LEMMA TakeHead ==
  ASSUME NEW S, NEW s \in Seq(S), s # <<>>, IsInjective(s)
  PROVE  /\ Head(s) \in S /\ Tail(s) \in Seq(S) /\ IsInjective(Tail(s))
         /\ Len(Tail(s)) = Len(s) - 1
         /\ Head(s) \in Elements(s)
         /\ Elements(Tail(s)) = Elements(s) \ {Head(s)}
  <1>1. /\ Len(s) \in Nat \ {0} /\ Head(s) = s[1]
        /\ Tail(s) \in Seq(S) /\ Len(Tail(s)) = Len(s) - 1
        /\ \A i \in 1..(Len(s) - 1) : Tail(s)[i] = s[i + 1]
        /\ DOMAIN s = 1..Len(s) /\ DOMAIN Tail(s) = 1..(Len(s) - 1)
    OBVIOUS
  <1>2. IsInjective(Tail(s))
    BY <1>1 DEF IsInjective
  <1>3. Elements(Tail(s)) = Elements(s) \ {Head(s)}
    <2>1. ASSUME NEW x \in Elements(Tail(s)) PROVE x \in Elements(s) \ {Head(s)}
      BY <1>1 DEF Elements, IsInjective
    <2>2. ASSUME NEW x \in Elements(s), x # Head(s) PROVE x \in Elements(Tail(s))
      <3>1. PICK i \in 1..Len(s) : x = s[i]
        BY <1>1 DEF Elements
      <3>2. i # 1 /\ i - 1 \in 1..(Len(s) - 1) /\ (i - 1) + 1 = i
        BY <1>1, <2>2, <3>1
      <3>3. Tail(s)[i - 1] = x
        BY <1>1, <3>1, <3>2
      <3> QED
        BY <1>1, <3>2, <3>3 DEF Elements
    <2> QED
      BY <2>1, <2>2
  <1>4. Head(s) \in Elements(s) /\ Head(s) \in S
    BY <1>1 DEF Elements
  <1> QED
    BY <1>1, <1>2, <1>3, <1>4

LEMMA AddLast ==
  ASSUME NEW S, NEW s \in Seq(S), NEW e \in S, IsInjective(s), e \notin Elements(s)
  PROVE  /\ Append(s, e) \in Seq(S) /\ IsInjective(Append(s, e))
         /\ Len(Append(s, e)) = Len(s) + 1
         /\ Elements(Append(s, e)) = Elements(s) \cup {e}
  <1> DEFINE t == Append(s, e)
  <1>1. /\ Len(s) \in Nat /\ t \in Seq(S) /\ Len(t) = Len(s) + 1
        /\ \A i \in 1..Len(s) : t[i] = s[i]
        /\ t[Len(s) + 1] = e
        /\ DOMAIN s = 1..Len(s) /\ DOMAIN t = 1..(Len(s) + 1)
    OBVIOUS
  <1> HIDE DEF t
  <1>2. ASSUME NEW i \in DOMAIN t PROVE i \in 1..Len(s) \/ i = Len(s) + 1
    BY <1>1
  <1>3. IsInjective(t)
    BY <1>1, <1>2 DEF IsInjective, Elements
  <1>4. Elements(t) = Elements(s) \cup {e}
    <2>1. Elements(t) \subseteq Elements(s) \cup {e}
      BY <1>1, <1>2 DEF Elements
    <2>2. ASSUME NEW x \in Elements(s) PROVE x \in Elements(t)
      <3>1. PICK i \in 1..Len(s) : x = s[i]
        BY <1>1 DEF Elements
      <3> QED
        BY <1>1, <3>1 DEF Elements
    <2>3. e \in Elements(t)
      BY <1>1 DEF Elements
    <2> QED
      BY <2>1, <2>2, <2>3
  <1> QED
    BY <1>1, <1>3, <1>4 DEF t

LEMMA TakeAny ==
  ASSUME NEW S, NEW s \in Seq(S), NEW i \in DOMAIN s, IsInjective(s)
  PROVE  /\ RemoveAt(s, i) \in Seq(S) /\ IsInjective(RemoveAt(s, i))
         /\ Elements(RemoveAt(s, i)) \subseteq Elements(s) \ {s[i]}
  <1> DEFINE t == RemoveAt(s, i)
             l == SubSeq(s, 1, i - 1)
             r == SubSeq(s, i + 1, Len(s))
             from(k) == IF k < i THEN k ELSE k + 1
  <1>1. Len(s) \in Nat /\ i \in 1..Len(s) /\ DOMAIN s = 1..Len(s)
    OBVIOUS
  <1>2. /\ l \in Seq(S) /\ Len(l) = i - 1
        /\ \A k \in 1..(i - 1) : l[k] = s[k]
    BY <1>1
  <1>3. /\ r \in Seq(S) /\ Len(r) = Len(s) - i
        /\ \A k \in 1..(Len(s) - i) : r[k] = s[k + i]
    BY <1>1
  <1> HIDE DEF l, r
  <1>4. /\ t \in Seq(S) /\ Len(t) = Len(l) + Len(r)
        /\ \A k \in 1..Len(t) : t[k] = IF k <= Len(l) THEN l[k] ELSE r[k - Len(l)]
    <2>1. t = l \o r
      BY DEF RemoveAt, l, r
    <2>2. /\ l \o r \in Seq(S) /\ Len(l \o r) = Len(l) + Len(r)
          /\ \A k \in 1..(Len(l) + Len(r)) :
               (l \o r)[k] = IF k <= Len(l) THEN l[k] ELSE r[k - Len(l)]
      BY <1>2, <1>3, ConcatProperties
    <2> HIDE DEF t
    <2> QED
      BY <2>1, <2>2
  <1> HIDE DEF t
  <1>5. t \in Seq(S) /\ DOMAIN t = 1..(Len(s) - 1)
    BY <1>1, <1>2, <1>3, <1>4
  <1>6. ASSUME NEW k \in DOMAIN t PROVE from(k) \in DOMAIN s \ {i} /\ t[k] = s[from(k)]
    <2>1. CASE k < i
      BY <1>1, <1>2, <1>3, <1>4, <1>5, <2>1
    <2>2. CASE ~(k < i)
      <3>1. k - (i - 1) \in 1..(Len(s) - i) /\ k - (i - 1) + i = k + 1
        BY <1>1, <1>5, <2>2
      <3>2. ~(k <= Len(l)) /\ k - Len(l) = k - (i - 1) /\ k \in 1..Len(t)
        BY <1>1, <1>2, <1>4, <1>5, <2>2
      <3>3. t[k] = r[k - (i - 1)]
        BY <1>4, <3>2
      <3> QED
        BY <1>3, <2>2, <3>1, <3>3
    <2> QED
      BY <2>1, <2>2
  <1>7. ASSUME NEW j \in DOMAIN t, NEW k \in DOMAIN t, from(j) = from(k) PROVE j = k
    BY <1>1, <1>5, <1>7
  <1> HIDE DEF from
  <1>8. IsInjective(t)
    BY <1>6, <1>7 DEF IsInjective
  <1>9. Elements(t) \subseteq Elements(s) \ {s[i]}
    BY <1>1, <1>6 DEF Elements, IsInjective
  <1> QED
    BY <1>5, <1>8, <1>9 DEF t
-----------------------------------------------------------------------------
(***************************************************************************)
(* Waking a task moves nobody who holds a lease.                           *)
(***************************************************************************)

LEMMA PlacesFinite ==
  ASSUME TypeOK
  PROVE  /\ Holders \subseteq Users /\ IsFiniteSet(Holders) /\ Cardinality(Holders) \in Nat
         /\ IsFiniteSet(dropped) /\ Cardinality(dropped) \in Nat
  <1>1. IsFiniteSet(Queues)
    BY FS_Interval, AllocatorAssumption DEF Queues
  <1>2. Holders \subseteq Users /\ dropped \subseteq Queues
    BY DEF Holders, TypeOK
  <1> QED
    BY <1>1, <1>2, AllocatorAssumption, FS_Subset, FS_CardinalityType

\* v: where the tasks are when notify_one is called
Waiting(v) == \A i \in DOMAIN waiters : v[waiters[i]] = "waiting"

LEMMA NotifyWakesWaiter ==
  ASSUME TypeOK, IsInjective(waiters),
         NEW v \in [Users -> UserPc], Waiting(v), NotifyOne(v)
  PROVE  /\ user' \in [Users -> UserPc] /\ permit' \in BOOLEAN /\ swallowed' \in BOOLEAN
         /\ waiters' \in Seq(Users) /\ WaitersWait'
         /\ \A x \in Users : user'[x] = "holding" <=> v[x] = "holding"
  <1>0. swallowed' \in BOOLEAN
    BY DEF NotifyOne
  <1>1. CASE waiters = <<>>
    BY <1>0, <1>1 DEF NotifyOne, WaitersWait, Waiting, TypeOK
  <1>2. CASE waiters # <<>>
    <2> DEFINE h == Head(waiters)
    <2>1. /\ h \in Users /\ Tail(waiters) \in Seq(Users) /\ IsInjective(Tail(waiters))
          /\ h \in Elements(waiters)
          /\ Elements(Tail(waiters)) = Elements(waiters) \ {h}
      BY <1>2, TakeHead DEF TypeOK
    <2>2. /\ user' = [v EXCEPT ![h] = "woken"] /\ waiters' = Tail(waiters)
          /\ permit' = permit
      BY <1>2 DEF NotifyOne
    <2>3. \A x \in Elements(waiters) : v[x] = "waiting"
      BY DEF Elements, Waiting
    <2> HIDE DEF h
    <2>4. ASSUME NEW i \in DOMAIN waiters' PROVE user'[waiters'[i]] = "waiting"
      <3>1. waiters'[i] \in Elements(waiters) \ {h} /\ waiters'[i] \in Users
        BY <2>1, <2>2, <2>4 DEF Elements
      <3> QED
        BY <2>2, <2>3, <3>1
    <2> QED
      BY <1>0, <2>1, <2>2, <2>3, <2>4 DEF WaitersWait, TypeOK, UserPc
  <1> QED
    BY <1>1, <1>2

\* A qnum that was in use ends up at the end of the deque.
LEMMA ReleaseReturns ==
  ASSUME TypeOK, IsInjective(available), IsInjective(waiters),
         NEW q \in Queues, q \notin Free,
         NEW v \in [Users -> UserPc], Waiting(v), ReleaseQnum(q, v)
  PROVE  /\ available' \in Seq(Queues) /\ IsInjective(available')
         /\ Len(available') = Len(available) + 1
         /\ Free' = Free \cup {q}
         /\ user' \in [Users -> UserPc] /\ permit' \in BOOLEAN /\ swallowed' \in BOOLEAN
         /\ waiters' \in Seq(Users) /\ WaitersWait'
         /\ \A x \in Users : user'[x] = "holding" <=> v[x] = "holding"
  <1>1. available' = Append(available, q) /\ NotifyOne(v)
    BY DEF ReleaseQnum
  <1>2. Free = Elements(available) /\ Free' = Elements(available')
    BY DEF Free, Elements
  <1>3. /\ available' \in Seq(Queues) /\ IsInjective(available')
        /\ Len(available') = Len(available) + 1
        /\ Elements(available') = Elements(available) \cup {q}
    BY <1>1, <1>2, AddLast DEF TypeOK
  <1> QED
    BY <1>1, <1>2, <1>3, NotifyWakesWaiter

-----------------------------------------------------------------------------
(***************************************************************************)
(* The inductive invariant.                                                *)
(***************************************************************************)

LEMMA ConservedInit == Init => ConservedInductive
  <1> SUFFICES ASSUME Init PROVE ConservedInductive
    OBVIOUS
  <1>1. /\ available \in Seq(Queues) /\ Len(available) = NumQueues
        /\ DOMAIN available = 1..NumQueues
        /\ \A i \in 1..NumQueues : available[i] = i - 1
    BY AllocatorAssumption DEF Init, Queues
  <1>2. Free = Queues
    <2>1. ASSUME NEW q \in Queues PROVE q \in Free
      <3>1. q + 1 \in 1..NumQueues /\ available[q + 1] = q
        BY <1>1, AllocatorAssumption DEF Queues
      <3> QED
        BY <1>1, <3>1 DEF Free
    <2>2. Free \subseteq Queues
      BY <1>1, AllocatorAssumption DEF Free, Queues
    <2> QED
      BY <2>1, <2>2
  <1>3. Holders = {} /\ Leased = {} /\ dropped = {}
    BY DEF Init, Holders, Leased
  <1>4. TypeOK
    <2>1. /\ user \in [Users -> UserPc] /\ lease \in [Users -> Queues \cup {NoQueue}]
          /\ \A u \in Users : user[u] = "holding" <=> lease[u] # NoQueue
      BY DEF Init, UserPc
    <2>2. acquires \in [Users -> 0..MaxLeases]
      BY AllocatorAssumption DEF Init
    <2>3. permit \in BOOLEAN /\ swallowed \in BOOLEAN
      BY Zenon DEF Init
    <2>4. waiters \in Seq(Users) /\ dropped \subseteq Queues
      <3>1. waiters = <<>> /\ dropped = {}
        BY DEF Init
      <3> QED
        BY <3>1
    <2> QED
      BY <1>1, <2>1, <2>2, <2>3, <2>4 DEF TypeOK
  <1>5. QueuesConserved
    BY <1>1, <1>2, <1>3, FS_EmptySet, AllocatorAssumption DEF QueuesConserved
  <1>6. Disjoint
    BY <1>1, <1>3 DEF Disjoint, IsInjective
  <1>7. WaitersWait
    BY DEF Init, WaitersWait, IsInjective
  <1> QED
    BY <1>4, <1>5, <1>6, <1>7 DEF ConservedInductive

\* A step that moves no qnum and no holder keeps the places of the qnums.
LEMMA PlacesKept ==
  ASSUME QueuesConserved, Disjoint, UNCHANGED <<available, lease, dropped>>,
         Holders' = Holders
  PROVE  QueuesConserved' /\ Disjoint'
  BY DEF QueuesConserved, Disjoint, Free, Leased

LEMMA AcquireKeeps ==
  ASSUME ConservedInductive, NEW u \in Users,
         \/ BeginAcquire(u) \/ MissQueue(u) \/ ConsumePermit(u) \/ JoinWaiters(u)
         \/ Resume(u)
  PROVE  ConservedInductive'
  <1> USE DEF ConservedInductive, Goto, Locking
  <1>1. CASE JoinWaiters(u)
    <2>1. u \notin Elements(waiters)
      BY <1>1 DEF JoinWaiters, WaitersWait, Elements
    <2>2. /\ waiters' \in Seq(Users) /\ IsInjective(waiters')
          /\ Elements(waiters') = Elements(waiters) \cup {u}
      BY <1>1, <2>1, AddLast DEF JoinWaiters, WaitersWait, TypeOK
    <2>3. \A x \in Elements(waiters') : user'[x] = "waiting"
      BY <1>1, <2>2 DEF JoinWaiters, WaitersWait, Elements, TypeOK
    <2>4. WaitersWait'
      BY <2>2, <2>3 DEF WaitersWait, Elements
    <2>5. TypeOK' /\ Holders' = Holders
      BY <1>1, <2>2 DEF JoinWaiters, TypeOK, UserPc, Holders
    <2> QED
      BY <1>1, <2>4, <2>5, PlacesKept DEF JoinWaiters
  <1>2. CASE \/ BeginAcquire(u) \/ MissQueue(u) \/ ConsumePermit(u) \/ Resume(u)
    <2>1. Holders' = Holders /\ user' \in [Users -> UserPc]
      BY <1>2 DEF BeginAcquire, MissQueue, ConsumePermit, Resume, TypeOK, UserPc, Holders
    <2> HIDE DEF Goto
    <2>2. acquires' \in [Users -> 0..MaxLeases]
      BY <1>2, AllocatorAssumption DEF BeginAcquire, MissQueue, ConsumePermit, Resume, TypeOK
    <2> USE DEF Goto
    <2>3. TypeOK'
      BY <1>2, <2>1, <2>2 DEF BeginAcquire, MissQueue, ConsumePermit, Resume, TypeOK, Holders
    <2>4. \A i \in DOMAIN waiters : waiters[i] \in Users
      BY DEF TypeOK
    <2>5. WaitersWait'
      BY <1>2, <2>4
         DEF BeginAcquire, MissQueue, ConsumePermit, Resume, WaitersWait, TypeOK
    <2> QED
      BY <1>2, <2>1, <2>3, <2>5, PlacesKept
         DEF BeginAcquire, MissQueue, ConsumePermit, Resume
  <1> QED
    BY <1>1, <1>2

LEMMA AbandonKeeps ==
  ASSUME ConservedInductive, NEW u \in Users, Abandon(u)
  PROVE  ConservedInductive'
  <1> USE DEF ConservedInductive, Goto
  <1>1. CASE AbandonWaiting(u)
    <2>1. PICK i \in DOMAIN waiters : waiters[i] = u /\ waiters' = RemoveAt(waiters, i)
      BY <1>1 DEF AbandonWaiting
    <2>2. /\ waiters' \in Seq(Users) /\ IsInjective(waiters')
          /\ Elements(waiters') \subseteq Elements(waiters) \ {u}
      BY <2>1, TakeAny DEF TypeOK, WaitersWait
    <2>3. \A x \in Elements(waiters') : user'[x] = "waiting"
      <3>1. \A x \in Elements(waiters) : x \in Users /\ user[x] = "waiting"
        BY DEF WaitersWait, Elements, TypeOK
      <3>2. user' = [user EXCEPT ![u] = "idle"]
        BY <1>1 DEF AbandonWaiting
      <3> QED
        BY <2>2, <3>1, <3>2 DEF TypeOK
    <2>4. WaitersWait'
      BY <2>2, <2>3 DEF WaitersWait, Elements
    <2>5. TypeOK' /\ Holders' = Holders
      BY <1>1, <2>2 DEF AbandonWaiting, TypeOK, UserPc, Holders
    <2> QED
      BY <1>1, <2>4, <2>5, PlacesKept DEF AbandonWaiting
  <1>2. CASE AbandonLocking(u)
    <2>1. Holders' = Holders /\ user' \in [Users -> UserPc]
      BY <1>2 DEF AbandonLocking, Locking, TypeOK, UserPc, Holders
    <2>2. swallowed' \in BOOLEAN
      BY <1>2, Zenon DEF AbandonLocking, TypeOK
    <2>3. TypeOK'
      BY <1>2, <2>1, <2>2 DEF AbandonLocking, TypeOK, Holders
    <2>4. \A i \in DOMAIN waiters : waiters[i] \in Users
      BY DEF TypeOK
    <2>5. WaitersWait'
      BY <1>2, <2>4 DEF AbandonLocking, Locking, WaitersWait, TypeOK
    <2> QED
      BY <1>2, <2>1, <2>3, <2>5, PlacesKept DEF AbandonLocking
  <1>3. CASE AbandonWoken(u)
    <2> DEFINE v == [user EXCEPT ![u] = "idle"]
    <2>1. v \in [Users -> UserPc] /\ \A x \in Users : v[x] = "holding" <=> user[x] = "holding"
      BY <1>3 DEF AbandonWoken, TypeOK, UserPc
    <2>2. Waiting(v)
      BY <1>3 DEF AbandonWoken, WaitersWait, Waiting, TypeOK
    <2>3. NotifyOne(v)
      BY <1>3 DEF AbandonWoken
    <2> HIDE DEF v
    <2>4. /\ user' \in [Users -> UserPc] /\ permit' \in BOOLEAN /\ swallowed' \in BOOLEAN
          /\ waiters' \in Seq(Users) /\ WaitersWait'
          /\ \A x \in Users : user'[x] = "holding" <=> v[x] = "holding"
      BY <2>1, <2>2, <2>3, NotifyWakesWaiter DEF WaitersWait
    <2>5. TypeOK' /\ Holders' = Holders
      BY <1>3, <2>1, <2>4 DEF AbandonWoken, TypeOK, Holders
    <2> QED
      BY <1>3, <2>4, <2>5, PlacesKept DEF AbandonWoken
  <1> QED
    BY <1>1, <1>2, <1>3 DEF Abandon

\* The front of the deque becomes a lease.
LEMMA TakeKeeps ==
  ASSUME ConservedInductive, NEW u \in Users, TakeQueue(u)
  PROVE  ConservedInductive'
  <1> DEFINE q == Head(available)
  <1> USE DEF ConservedInductive
  <1>1. /\ Locking(u) /\ user' = [user EXCEPT ![u] = "holding"]
        /\ lease' = [lease EXCEPT ![u] = q] /\ available' = Tail(available)
        /\ UNCHANGED <<permit, waiters, dropped, acquires, swallowed>>
    BY DEF TakeQueue
  <1>2. Free = Elements(available) /\ Free' = Elements(available')
    BY DEF Free, Elements
  <1>3. /\ q \in Queues /\ available' \in Seq(Queues) /\ IsInjective(available')
        /\ Len(available') = Len(available) - 1
        /\ q \in Free /\ Free' = Free \ {q}
    BY <1>1, <1>2, TakeHead DEF TakeQueue, Disjoint, TypeOK
  <1> HIDE DEF q
  <1>4. q # NoQueue
    BY <1>3, AllocatorAssumption DEF Queues, NoQueue
  <1>5. u \notin Holders /\ Holders' = Holders \cup {u}
    BY <1>1 DEF Locking, Holders, TypeOK
  <1>6. /\ lease'[u] = q
        /\ \A v \in Users : v # u => lease'[v] = lease[v]
    BY <1>1 DEF TypeOK
  <1>7. Leased' = Leased \cup {q}
    BY <1>5, <1>6 DEF Leased, Holders
  <1>8. TypeOK'
    BY <1>1, <1>3, <1>4 DEF TypeOK, UserPc
  <1>9. QueuesConserved'
    <2>1. Cardinality(Holders') = Cardinality(Holders) + 1
      BY <1>5, PlacesFinite, FS_AddElement
    <2>2. Len(available) \in Nat /\ NumQueues \in Nat
      BY AllocatorAssumption DEF TypeOK
    <2>3. Free' \cup Leased' \cup dropped' = Queues
      <3>1. Free \cup Leased \cup dropped = Queues
        BY DEF QueuesConserved
      <3> QED
        BY <1>1, <1>3, <1>7, <3>1
    <2>4. Len(available') + Cardinality(Holders') + Cardinality(dropped') = NumQueues
      <3>1. Len(available) + Cardinality(Holders) + Cardinality(dropped) = NumQueues
        BY DEF QueuesConserved
      <3>2. Cardinality(Holders) \in Nat /\ Cardinality(dropped) \in Nat
        BY PlacesFinite
      <3> QED
        BY <1>1, <1>3, <2>1, <2>2, <3>1, <3>2
    <2> QED
      BY <2>3, <2>4 DEF QueuesConserved
  <1>10. Disjoint'
    <2>1. q \notin Leased /\ q \notin dropped
      BY <1>3 DEF Disjoint
    <2>2. \A v, w \in Holders' : lease'[v] = lease'[w] => v = w
      BY <1>5, <1>6, <2>1 DEF Disjoint, Leased, Holders
    <2> QED
      BY <1>1, <1>3, <1>7, <2>1, <2>2 DEF Disjoint
  <1>11. WaitersWait'
    BY <1>1 DEF Locking, WaitersWait, TypeOK
  <1> QED
    BY <1>8, <1>9, <1>10, <1>11

\* What u gives up: it holds nothing any more and nobody else holds its qnum.
LEMMA GivingUp ==
  ASSUME ConservedInductive, NEW u \in Users, user[u] = "holding",
         lease' = [lease EXCEPT ![u] = NoQueue],
         Holders' = Holders \ {u}
  PROVE  /\ lease[u] \in Queues /\ lease[u] \in Leased
         /\ Leased' = Leased \ {lease[u]}
         /\ Cardinality(Holders') = Cardinality(Holders) - 1
         /\ Cardinality(Holders) \in Nat
         /\ \A v, w \in Holders' : lease'[v] = lease'[w] => v = w
  <1> USE DEF ConservedInductive
  <1>1. u \in Holders /\ lease[u] \in Leased
    BY DEF Holders, Leased
  <1>2. lease[u] \in Queues
    BY DEF TypeOK
  <1>3. \A v \in Holders' : v \in Holders /\ v # u /\ lease'[v] = lease[v]
    BY DEF Holders, TypeOK
  <1>4. \A v, w \in Holders : lease[v] = lease[w] => v = w
    BY DEF Disjoint
  <1>5. Leased' = Leased \ {lease[u]}
    BY <1>1, <1>3, <1>4 DEF Leased
  <1>6. Cardinality(Holders') = Cardinality(Holders) - 1
    BY <1>1, PlacesFinite, FS_RemoveElement
  <1> QED
    BY <1>1, <1>2, <1>3, <1>4, <1>5, <1>6, PlacesFinite

LEMMA ReleaseLeaseKeeps ==
  ASSUME ConservedInductive, NEW u \in Users, ReleaseLease(u)
  PROVE  ConservedInductive'
  <1> DEFINE q == lease[u]
             v == [user EXCEPT ![u] = "idle"]
  <1> USE DEF ConservedInductive
  <1>1. /\ user[u] = "holding" /\ ReleaseQnum(q, v)
        /\ lease' = [lease EXCEPT ![u] = NoQueue]
        /\ UNCHANGED <<dropped, acquires>>
    BY DEF ReleaseLease
  <1>2. /\ v \in [Users -> UserPc]
        /\ \A x \in Users : v[x] = "holding" <=> user[x] = "holding" /\ x # u
    BY DEF TypeOK, UserPc
  <1>3. Waiting(v)
    BY <1>1 DEF Waiting, WaitersWait, TypeOK
  <1>4. q \in Queues /\ q \notin Free
    BY <1>1 DEF TypeOK, Disjoint, Leased, Holders
  <1> HIDE DEF q, v
  <1>5. /\ available' \in Seq(Queues) /\ IsInjective(available')
        /\ Len(available') = Len(available) + 1
        /\ Free' = Free \cup {q}
        /\ user' \in [Users -> UserPc] /\ permit' \in BOOLEAN /\ swallowed' \in BOOLEAN
        /\ waiters' \in Seq(Users) /\ WaitersWait'
        /\ \A x \in Users : user'[x] = "holding" <=> v[x] = "holding"
    BY <1>1, <1>2, <1>3, <1>4, ReleaseReturns DEF Disjoint, WaitersWait
  <1>6. Holders' = Holders \ {u}
    BY <1>2, <1>5 DEF Holders
  <1>7. /\ q \in Leased /\ Leased' = Leased \ {q}
        /\ Cardinality(Holders') = Cardinality(Holders) - 1
        /\ Cardinality(Holders) \in Nat
        /\ \A x, y \in Holders' : lease'[x] = lease'[y] => x = y
    BY <1>1, <1>6, GivingUp DEF q
  <1>8. TypeOK'
    BY <1>1, <1>2, <1>5 DEF TypeOK
  <1>9. QueuesConserved'
    <2>1. Len(available) \in Nat /\ NumQueues \in Nat
      BY AllocatorAssumption DEF TypeOK
    <2> QED
      BY <1>1, <1>4, <1>5, <1>7, <2>1, PlacesFinite DEF QueuesConserved
  <1>10. Disjoint'
    BY <1>1, <1>4, <1>5, <1>7 DEF Disjoint
  <1> QED
    BY <1>5, <1>8, <1>9, <1>10

LEMMA DropLeaseKeeps ==
  ASSUME ConservedInductive, NEW u \in Users, DropLease(u)
  PROVE  ConservedInductive'
  <1> DEFINE q == lease[u]
  <1> USE DEF ConservedInductive
  <1>1. /\ user[u] = "holding" /\ user' = [user EXCEPT ![u] = "idle"]
        /\ lease' = [lease EXCEPT ![u] = NoQueue]
        /\ dropped' = dropped \cup {q}
        /\ UNCHANGED <<available, permit, waiters, acquires, swallowed>>
    BY DEF DropLease, Goto
  <1>2. Holders' = Holders \ {u}
    BY <1>1 DEF Holders, TypeOK
  <1>3. /\ q \in Queues /\ q \in Leased /\ Leased' = Leased \ {q}
        /\ Cardinality(Holders') = Cardinality(Holders) - 1
        /\ Cardinality(Holders) \in Nat
        /\ \A x, y \in Holders' : lease'[x] = lease'[y] => x = y
    BY <1>1, <1>2, GivingUp
  <1> HIDE DEF q
  <1>4. q \notin dropped /\ Free' = Free
    BY <1>1, <1>3 DEF Disjoint, Free
  <1>5. Cardinality(dropped') = Cardinality(dropped) + 1
    BY <1>1, <1>4, PlacesFinite, FS_AddElement
  <1>6. TypeOK'
    BY <1>1, <1>3 DEF TypeOK, UserPc
  <1>7. QueuesConserved'
    <2>1. Len(available) \in Nat /\ NumQueues \in Nat
      BY AllocatorAssumption DEF TypeOK
    <2> QED
      BY <1>1, <1>3, <1>4, <1>5, <2>1, PlacesFinite DEF QueuesConserved
  <1>8. Disjoint'
    BY <1>1, <1>3, <1>4 DEF Disjoint
  <1>9. WaitersWait'
    BY <1>1 DEF WaitersWait, TypeOK
  <1> QED
    BY <1>6, <1>7, <1>8, <1>9

LEMMA ReleaseDroppedKeeps ==
  ASSUME ConservedInductive, ReleaseDropped
  PROVE  ConservedInductive'
  <1> USE DEF ConservedInductive
  <1>1. PICK q \in dropped : /\ ReleaseQnum(q, user)
                             /\ dropped' = dropped \ {q}
                             /\ UNCHANGED <<lease, acquires>>
    BY DEF ReleaseDropped
  <1>2. q \in Queues /\ q \notin Free /\ user \in [Users -> UserPc] /\ Waiting(user)
    BY DEF TypeOK, Disjoint, WaitersWait, Waiting
  <1>3. /\ available' \in Seq(Queues) /\ IsInjective(available')
        /\ Len(available') = Len(available) + 1
        /\ Free' = Free \cup {q}
        /\ user' \in [Users -> UserPc] /\ permit' \in BOOLEAN /\ swallowed' \in BOOLEAN
        /\ waiters' \in Seq(Users) /\ WaitersWait'
        /\ \A x \in Users : user'[x] = "holding" <=> user[x] = "holding"
    BY <1>1, <1>2, ReleaseReturns DEF Disjoint, WaitersWait
  <1>4. Holders' = Holders /\ Leased' = Leased
    BY <1>1, <1>3 DEF Holders, Leased
  <1>5. Cardinality(dropped') = Cardinality(dropped) - 1
    BY <1>1, PlacesFinite, FS_RemoveElement
  <1>6. TypeOK'
    BY <1>1, <1>3 DEF TypeOK
  <1>7. QueuesConserved'
    <2>1. Len(available) \in Nat /\ NumQueues \in Nat
      BY AllocatorAssumption DEF TypeOK
    <2> QED
      BY <1>1, <1>3, <1>4, <1>5, <2>1, PlacesFinite DEF QueuesConserved
  <1>8. Disjoint'
    BY <1>1, <1>3, <1>4 DEF Disjoint
  <1> QED
    BY <1>3, <1>6, <1>7, <1>8

LEMMA ConservedStep == ConservedInductive /\ [Next]_vars => ConservedInductive'
  <1> SUFFICES ASSUME ConservedInductive, [Next]_vars PROVE ConservedInductive'
    OBVIOUS
  <1>1. CASE UNCHANGED vars
    <2>1. Holders' = Holders
      BY <1>1 DEF vars, Holders
    <2>2. TypeOK' /\ WaitersWait'
      BY <1>1 DEF vars, ConservedInductive, TypeOK, WaitersWait
    <2> QED
      BY <1>1, <2>1, <2>2, PlacesKept DEF vars, ConservedInductive
  <1>2. ASSUME NEW u \in Users,
               BeginAcquire(u) \/ Acquire(u) \/ GiveBack(u) \/ Abandon(u)
        PROVE  ConservedInductive'
    BY <1>2, AcquireKeeps, TakeKeeps, ReleaseLeaseKeeps, DropLeaseKeeps, AbandonKeeps
       DEF Acquire, GiveBack
  <1> QED
    BY <1>1, <1>2, ReleaseDroppedKeeps DEF Next, Finished

\* Every variable keeps its type: a task holds a lease exactly while it is holding.
THEOREM AllocatorTypeCorrect == Spec => []TypeOK
  <1>1. ConservedInductive => TypeOK
    BY DEF ConservedInductive
  <1> QED
    BY <1>1, ConservedInit, ConservedStep, PTL DEF Spec

\* Whatever tasks acquire, release, drop and abandon, and in whatever order: two of
\* them never hold the same qnum, and no qnum is lost.
THEOREM QnumsConserved == Spec => []QueuesConserved
  <1>1. ConservedInductive => QueuesConserved
    BY DEF ConservedInductive
  <1> QED
    BY <1>1, ConservedInit, ConservedStep, PTL DEF Spec

\* A qnum is with one task at a time: the leases of two tasks differ.
THEOREM LeasesDistinct ==
  Spec => [](\A u, v \in Holders : lease[u] = lease[v] => u = v)
  <1>1. ConservedInductive => \A u, v \in Holders : lease[u] = lease[v] => u = v
    BY DEF ConservedInductive, Disjoint
  <1> QED
    BY <1>1, ConservedInit, ConservedStep, PTL DEF Spec
-----------------------------------------------------------------------------
(***************************************************************************)
(* Nobody is stranded.                                                     *)
(***************************************************************************)
\* Who wants a qnum and depends on a notification: the waiters, and whoever found
\* none and will find no permit.
Wanting == waiters # <<>> \/ (~permit /\ \E u \in Users : user[u] = "missed")

Waker ==
  Holders # {} \/ dropped # {} \/ \E u \in Users : user[u] \in {"relock", "woken"}

Tended == Wanting => Waker \/ swallowed

\* A notification leaves a permit if nobody waits and a woken task otherwise.
LEMMA NotifiedTended ==
  ASSUME TypeOK, NEW v \in [Users -> UserPc], NotifyOne(v)
  PROVE  Tended'
  <1>1. CASE waiters = <<>>
    BY <1>1 DEF NotifyOne, Tended, Wanting
  <1>2. CASE waiters # <<>>
    <2>1. Head(waiters) \in Users
      BY <1>2 DEF TypeOK
    <2>2. user'[Head(waiters)] = "woken"
      BY <1>2, <2>1 DEF NotifyOne
    <2> QED
      BY <2>1, <2>2 DEF Tended, Waker
  <1> QED
    BY <1>1, <1>2

\* The deque is empty only while all qnums are out.
LEMMA EmptyMeansOut ==
  ASSUME QueuesConserved, available = <<>>
  PROVE  Holders # {} \/ dropped # {}
  <1>1. Free = {} /\ 0 \in Queues
    BY AllocatorAssumption DEF Free, Queues
  <1>2. Leased # {} \/ dropped # {}
    BY <1>1 DEF QueuesConserved
  <1> QED
    BY <1>2 DEF Leased

\* A step of one task that is nobody's waker and gives no notification leaves the
\* wakers, and adds nobody who wants one.
LEMMA BystanderTended ==
  ASSUME TypeOK, Tended, NEW u \in Users,
         user[u] \notin {"holding", "relock", "woken"},
         \A x \in Users \ {u} : user'[x] = user[x],
         dropped' = dropped, swallowed' = swallowed,
         Wanting' => Wanting
  PROVE  Tended'
  <1>1. Holders \subseteq Holders'
    BY DEF Holders
  <1>2. Waker => Waker'
    <2>1. ASSUME NEW x \in Users, user[x] \in {"relock", "woken"} PROVE Waker'
      <3>1. user'[x] \in {"relock", "woken"}
        BY <2>1
      <3> QED
        BY <3>1 DEF Waker
    <2> QED
      BY <1>1, <2>1 DEF Waker
  <1> QED
    BY <1>2 DEF Tended

LEMMA TendedStep ==
  ASSUME ConservedInductive, Tended, [Next]_vars
  PROVE  Tended'
  <1> USE DEF Goto, Locking
  <1>0. TypeOK /\ QueuesConserved /\ Disjoint
    BY DEF ConservedInductive
  <1>1. ASSUME NEW u \in Users, Resume(u) \/ ConsumePermit(u) PROVE Tended'
    <2>1. user'[u] = "relock"
      BY <1>0, <1>1 DEF Resume, ConsumePermit, TypeOK
    <2> QED
      BY <2>1 DEF Tended, Waker
  <1>2. ASSUME NEW u \in Users, TakeQueue(u) PROVE Tended'
    <2>1. u \in Holders'
      BY <1>0, <1>2 DEF TakeQueue, TypeOK, Holders
    <2> QED
      BY <2>1 DEF Tended, Waker
  <1>3. ASSUME NEW u \in Users, MissQueue(u) PROVE Tended'
    <2>1. Holders # {} \/ dropped # {}
      BY <1>0, <1>3, EmptyMeansOut DEF MissQueue
    <2>2. Holders \subseteq Holders' /\ dropped' = dropped
      BY <1>0, <1>3 DEF MissQueue, TypeOK, Holders
    <2> QED
      BY <2>1, <2>2 DEF Tended, Waker
  <1>4. ASSUME NEW u \in Users, JoinWaiters(u) PROVE Tended'
    <2>1. /\ \A x \in Users \ {u} : user'[x] = user[x]
          /\ user[u] = "missed" /\ dropped' = dropped /\ swallowed' = swallowed
      BY <1>0, <1>4 DEF JoinWaiters, TypeOK
    <2>2. Wanting
      BY <1>4 DEF JoinWaiters, Wanting
    <2> QED
      BY <1>0, <2>1, <2>2, BystanderTended
  <1>5. ASSUME NEW u \in Users, DropLease(u) PROVE Tended'
    BY <1>5 DEF DropLease, Tended, Waker
  <1>6. ASSUME NEW u \in Users, ReleaseLease(u) PROVE Tended'
    <2>1. lease[u] \notin Free
      BY <1>0, <1>6 DEF ReleaseLease, Disjoint, Leased, Holders
    <2>2. NotifyOne([user EXCEPT ![u] = "idle"])
      BY <1>6, <2>1 DEF ReleaseLease, ReleaseQnum
    <2>3. [user EXCEPT ![u] = "idle"] \in [Users -> UserPc]
      BY <1>0 DEF TypeOK, UserPc
    <2> QED
      BY <1>0, <2>2, <2>3, NotifiedTended
  <1>7. ASSUME ReleaseDropped PROVE Tended'
    <2>1. PICK q \in dropped : ReleaseQnum(q, user)
      BY <1>7 DEF ReleaseDropped
    <2>2. NotifyOne(user)
      BY <1>0, <2>1 DEF ReleaseQnum, Disjoint
    <2> QED
      BY <1>0, <2>2, NotifiedTended DEF TypeOK
  <1>8. ASSUME NEW u \in Users, AbandonWaiting(u) PROVE Tended'
    <2>1. /\ \A x \in Users \ {u} : user'[x] = user[x]
          /\ user[u] = "waiting" /\ dropped' = dropped /\ swallowed' = swallowed
      BY <1>0, <1>8 DEF AbandonWaiting, TypeOK
    <2>2. Wanting
      BY <1>8 DEF AbandonWaiting, Wanting
    <2> QED
      BY <1>0, <2>1, <2>2, BystanderTended
  <1>9. ASSUME NEW u \in Users, AbandonWoken(u) PROVE Tended'
    <2>1. [user EXCEPT ![u] = "idle"] \in [Users -> UserPc]
      BY <1>0 DEF TypeOK, UserPc
    <2> QED
      BY <1>0, <1>9, <2>1, NotifiedTended DEF AbandonWoken
  <1>10. ASSUME NEW u \in Users, AbandonLocking(u) PROVE Tended'
    <2>1. CASE user[u] = "relock"
      BY <1>10, <2>1 DEF AbandonLocking, Tended
    <2>2. CASE user[u] # "relock"
      <3>1. /\ \A x \in Users \ {u} : user'[x] = user[x]
            /\ user[u] = "lock" /\ user'[u] = "idle" /\ dropped' = dropped
            /\ permit' = permit /\ waiters' = waiters
        BY <1>0, <1>10, <2>2 DEF AbandonLocking, TypeOK
      <3>2. swallowed' = swallowed
        BY <1>0, <1>10, <2>2, Zenon DEF AbandonLocking, TypeOK
      <3>3. Wanting' => Wanting
        BY <3>1 DEF Wanting
      <3> QED
        BY <1>0, <3>1, <3>2, <3>3, BystanderTended
    <2> QED
      BY <2>1, <2>2
  <1>11. ASSUME NEW u \in Users, BeginAcquire(u) PROVE Tended'
    <2>1. /\ \A x \in Users \ {u} : user'[x] = user[x]
          /\ user[u] = "idle" /\ user'[u] = "lock" /\ dropped' = dropped
          /\ permit' = permit /\ waiters' = waiters /\ swallowed' = swallowed
      BY <1>0, <1>11 DEF BeginAcquire, TypeOK
    <2>2. Wanting' => Wanting
      BY <2>1 DEF Wanting
    <2> QED
      BY <1>0, <2>1, <2>2, BystanderTended
  <1>12. CASE UNCHANGED vars
    BY <1>12 DEF vars, Tended, Wanting, Waker, Holders
  <1> QED
    BY <1>1, <1>2, <1>3, <1>4, <1>5, <1>6, <1>7, <1>8, <1>9, <1>10, <1>11, <1>12
       DEF Next, Acquire, GiveBack, Abandon, Finished

\* However many tasks compete for the qnums, and wherever they abandon their acquires:
\* while one waits, a qnum is out or on its way back, or a notified task has yet to
\* look, unless an acquire dropped in lock().await took the last notification along.
THEOREM NobodyStranded == Spec => []WaitersHaveWaker
  <1>1. Init => Tended
    BY DEF Init, Tended, Wanting
  <1>2. Tended => WaitersHaveWaker
    BY DEF Tended, Wanting, Waker, WaitersHaveWaker
  <1> QED
    BY <1>1, <1>2, ConservedInit, ConservedStep, TendedStep, PTL DEF Spec
=============================================================================
