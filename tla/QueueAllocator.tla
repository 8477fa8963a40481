--------------------------- MODULE QueueAllocator ---------------------------
(***************************************************************************)
(* The NFQUEUE number allocator of src/src/queue.rs: a deque of free qnums *)
(* behind an async mutex and one tokio Notify.  Any number of tasks        *)
(* acquire a lease, hold it and give it back, explicitly or by dropping    *)
(* it, which spawns a task that gives it back later; a pending acquire may *)
(* be dropped at either of its awaits, as under a timeout.                 *)
(*                                                                         *)
(* No await happens under the mutex, so each critical section is one step. *)
(* tokio's Notify keeps at most one permit, hands a notification to the    *)
(* longest waiter and passes it on when that waiter is dropped.            *)
(***************************************************************************)
EXTENDS Integers, Sequences, FiniteSets, SequencesExt

CONSTANTS
  Users,      \* tasks that use the allocator
  NumQueues,  \* qnum_count; the qnums are base_qnum + 0 .. base_qnum + NumQueues - 1
  MaxLeases   \* bound of the model: how many acquires each task makes

ASSUME AllocatorAssumption ==
  /\ IsFiniteSet(Users)
  /\ NumQueues \in Nat \ {0}    \* new() refuses an empty pool
  /\ MaxLeases \in Nat

VARIABLES
  available,  \* the deque of free qnums
  permit,     \* Notify's stored permit
  waiters,    \* Notify's list of registered Notified futures, oldest first
  user,       \* where each task is
  lease,      \* the qnum it holds, NoQueue for none
  dropped,    \* qnums whose lease was dropped and whose release task is pending
  acquires,   \* how many acquires each task has begun
  swallowed   \* history: a notification was lost with its acquire, none given since

vars == <<available, permit, waiters, user, lease, dropped, acquires, swallowed>>

Queues  == 0..(NumQueues - 1)
NoQueue == NumQueues

\* "lock": the first lock of an acquire; "relock": it has used up a notification
UserPc == {"idle", "lock", "relock", "missed", "waiting", "woken", "holding"}

TypeOK ==
  /\ available \in Seq(Queues)
  /\ permit \in BOOLEAN
  /\ waiters \in Seq(Users)
  /\ user \in [Users -> UserPc]
  /\ lease \in [Users -> Queues \cup {NoQueue}]
  /\ \A u \in Users : user[u] = "holding" <=> lease[u] # NoQueue
  /\ dropped \subseteq Queues
  /\ acquires \in [Users -> 0..MaxLeases]
  /\ swallowed \in BOOLEAN

\* new()
Init ==
  /\ available = [i \in 1..NumQueues |-> i - 1]
  /\ permit = FALSE
  /\ waiters = <<>>
  /\ user = [u \in Users |-> "idle"]
  /\ lease = [u \in Users |-> NoQueue]
  /\ dropped = {}
  /\ acquires = [u \in Users |-> 0]
  /\ swallowed = FALSE

Goto(u, from, to) ==
  /\ user[u] = from
  /\ user' = [user EXCEPT ![u] = to]

\* It awaits the mutex, for the first time or again.
Locking(u) == user[u] \in {"lock", "relock"}

-----------------------------------------------------------------------------
(***************************************************************************)
(* acquire()                                                               *)
(***************************************************************************)

BeginAcquire(u) ==
  /\ acquires[u] < MaxLeases
  /\ Goto(u, "idle", "lock")
  /\ acquires' = [acquires EXCEPT ![u] = @ + 1]
  /\ UNCHANGED <<available, permit, waiters, lease, dropped, swallowed>>

\* mutant of TakeQueue: the qnum stays in the deque
TakeQueueShared(u) ==
  /\ Locking(u) /\ available # <<>>
  /\ user' = [user EXCEPT ![u] = "holding"]
  /\ lease' = [lease EXCEPT ![u] = Head(available)]
  /\ UNCHANGED <<available, permit, waiters, dropped, acquires, swallowed>>

\* lock, pop_front: a qnum is free
TakeQueue(u) ==
  /\ Locking(u) /\ available # <<>>
  /\ user' = [user EXCEPT ![u] = "holding"]
  /\ lease' = [lease EXCEPT ![u] = Head(available)]
  /\ available' = Tail(available)
  /\ UNCHANGED <<permit, waiters, dropped, acquires, swallowed>>

\* lock, pop_front: none is free; the guard is dropped before notified()
MissQueue(u) ==
  /\ Locking(u) /\ available = <<>>
  /\ user' = [user EXCEPT ![u] = "missed"]
  /\ UNCHANGED <<available, permit, waiters, lease, dropped, acquires, swallowed>>

\* first poll of notified(): it consumes the permit or joins the waiters
ConsumePermit(u) ==
  /\ permit
  /\ Goto(u, "missed", "relock")
  /\ permit' = FALSE
  /\ UNCHANGED <<available, waiters, lease, dropped, acquires, swallowed>>

JoinWaiters(u) ==
  /\ ~permit
  /\ Goto(u, "missed", "waiting")
  /\ waiters' = Append(waiters, u)
  /\ UNCHANGED <<available, permit, lease, dropped, acquires, swallowed>>

Resume(u) ==
  /\ Goto(u, "woken", "relock")
  /\ UNCHANGED <<available, permit, waiters, lease, dropped, acquires, swallowed>>

-----------------------------------------------------------------------------
(***************************************************************************)
(* Giving a qnum back.                                                     *)
(***************************************************************************)

Free == {available[i] : i \in DOMAIN available}

\* notify_one(), the tasks being in the places u gives
NotifyOne(u) ==
  /\ swallowed' = FALSE
  /\ IF waiters = <<>>
     THEN permit' = TRUE /\ user' = u /\ UNCHANGED waiters
     ELSE /\ user' = [u EXCEPT ![Head(waiters)] = "woken"]
          /\ waiters' = Tail(waiters)
          /\ UNCHANGED permit

\* mutant of ReleaseQnum: nobody is notified
ReleaseQnumSilently(q, u) ==
  /\ q \notin Free
  /\ available' = Append(available, q)
  /\ user' = u
  /\ UNCHANGED <<permit, waiters, swallowed>>

\* release_qnum() under the mutex
ReleaseQnum(q, u) ==
  IF q \in Free
  THEN user' = u /\ UNCHANGED <<available, permit, waiters, swallowed>>
  ELSE available' = Append(available, q) /\ NotifyOne(u)

ReleaseLease(u) ==
  /\ user[u] = "holding"
  /\ ReleaseQnum(lease[u], [user EXCEPT ![u] = "idle"])
  /\ lease' = [lease EXCEPT ![u] = NoQueue]
  /\ UNCHANGED <<dropped, acquires>>

\* mutant of DropLease: the dropped lease keeps its qnum
DropLeaseKept(u) ==
  /\ Goto(u, "holding", "idle")
  /\ dropped' = dropped \cup {lease[u]}
  /\ UNCHANGED <<available, permit, waiters, lease, acquires, swallowed>>

\* mutant of DropLease: nothing gives a dropped lease back
DropLeaseLeaks(u) ==
  /\ Goto(u, "holding", "idle")
  /\ lease' = [lease EXCEPT ![u] = NoQueue]
  /\ UNCHANGED <<available, permit, waiters, dropped, acquires, swallowed>>

\* Drop spawns a task that releases the qnum
DropLease(u) ==
  /\ Goto(u, "holding", "idle")
  /\ dropped' = dropped \cup {lease[u]}
  /\ lease' = [lease EXCEPT ![u] = NoQueue]
  /\ UNCHANGED <<available, permit, waiters, acquires, swallowed>>

ReleaseDropped ==
  \E q \in dropped :
    /\ ReleaseQnum(q, user)
    /\ dropped' = dropped \ {q}
    /\ UNCHANGED <<lease, acquires>>

(***************************************************************************)
(* The caller drops a pending acquire, at one of its two awaits.           *)
(***************************************************************************)

AbandonWaiting(u) ==
  /\ Goto(u, "waiting", "idle")
  /\ \E i \in DOMAIN waiters : waiters[i] = u /\ waiters' = RemoveAt(waiters, i)
  /\ UNCHANGED <<available, permit, lease, dropped, acquires, swallowed>>

\* in lock().await: it holds no Notified future any more, so a notification or permit
\* it has used up is not passed on
AbandonLocking(u) ==
  /\ Locking(u)
  /\ user' = [user EXCEPT ![u] = "idle"]
  /\ swallowed' = (swallowed \/ user[u] = "relock")
  /\ UNCHANGED <<available, permit, waiters, lease, dropped, acquires>>

\* a Notified future dropped after its notification passes it on
AbandonWoken(u) ==
  /\ user[u] = "woken"
  /\ NotifyOne([user EXCEPT ![u] = "idle"])
  /\ UNCHANGED <<available, lease, dropped, acquires>>

Acquire(u) ==
  \/ TakeQueue(u) \/ MissQueue(u) \/ ConsumePermit(u) \/ JoinWaiters(u) \/ Resume(u)

GiveBack(u) == ReleaseLease(u) \/ DropLease(u)

Abandon(u) == AbandonWaiting(u) \/ AbandonLocking(u) \/ AbandonWoken(u)

Finished ==
  /\ \A u \in Users : user[u] = "idle" /\ acquires[u] = MaxLeases
  /\ dropped = {}
  /\ UNCHANGED vars

Next ==
  \/ \E u \in Users : BeginAcquire(u) \/ Acquire(u) \/ GiveBack(u) \/ Abandon(u)
  \/ ReleaseDropped
  \/ Finished

Spec == Init /\ [][Next]_vars

(***************************************************************************)
(* The runtime polls every woken task, a probe ends and its lease with it. *)
(***************************************************************************)
FairSpec ==
  Spec /\ WF_vars(ReleaseDropped)
       /\ \A u \in Users : WF_vars(Acquire(u)) /\ WF_vars(GiveBack(u))

-----------------------------------------------------------------------------
(***************************************************************************)
(* Properties.                                                             *)
(***************************************************************************)

Holders == {u \in Users : user[u] = "holding"}
Leased  == {lease[u] : u \in Holders}

\* Two probes never share a qnum, and none leaks: every qnum is free, leased or
\* on its way back, in exactly one of these places and once.
QueuesConserved ==
  /\ Free \cup Leased \cup dropped = Queues
  /\ Len(available) + Cardinality(Holders) + Cardinality(dropped) = NumQueues

\* Why: no qnum is in two of the three places, in the deque twice or leased twice;
\* and what Notify wakes is waiting, so it never moves a task that holds a lease.
Disjoint ==
  /\ Free \cap Leased = {} /\ Free \cap dropped = {} /\ Leased \cap dropped = {}
  /\ IsInjective(available)
  /\ \A u, v \in Holders : lease[u] = lease[v] => u = v

WaitersWait ==
  /\ IsInjective(waiters)
  /\ \A i \in DOMAIN waiters : user[waiters[i]] = "waiting"

ConservedInductive == TypeOK /\ QueuesConserved /\ Disjoint /\ WaitersWait

\* While tasks wait, a lease is out whose return will wake the next of them, or a task
\* that was notified has yet to look; unless the last notification was lost with an
\* acquire dropped in lock().await (queue.rs:40), which does not pass it on.
WaitersHaveWaker ==
  waiters # <<>> =>
    \/ Holders # {} \/ dropped # {}
    \/ \E u \in Users : user[u] \in {"relock", "woken"}
    \/ swallowed

\* Tasks wait beside a pool that is entirely free, and nobody is left to wake them.
Stranded ==
  /\ waiters # <<>> /\ swallowed
  /\ Len(available) = NumQueues
  /\ \A u \in Users : user[u] \in {"idle", "waiting"}

\* When leases are given back, an acquire that is not abandoned gets its qnum; the
\* one exception is the state above, which takes a dropped acquire to get into.
EveryAcquireEnds ==
  \A u \in Users : user[u] = "lock" ~> (user[u] \in {"holding", "idle"} \/ Stranded)
=============================================================================
