----------------------------- MODULE WorkerPool -----------------------------
(***************************************************************************)
(* The strategy worker pool of src/src/worker_pool.rs, run by the          *)
(* scheduler (src/src/scheduler.rs): one producer task that offers the     *)
(* ordered strategies to a bounded task channel, a set of worker tasks     *)
(* that poll that channel and run one strategy at a time, and a collector  *)
(* (the body of WorkerPool::run itself) that reads a bounded result        *)
(* channel, counts the successes and raises the stop flag when the         *)
(* successful-strategy limit is reached.  A cancellation token (Ctrl-C or  *)
(* SIGTERM) may fire at any moment.                                        *)
(*                                                                         *)
(* Every await point and every atomic access is a step of its own, so the  *)
(* model has the interleavings of tokio's multi-threaded runtime.  What    *)
(* a strategy run does is in module WorkerLifecycle; here it ends with     *)
(* some outcome, of which the pool only looks at "success or not".         *)
(***************************************************************************)
EXTENDS Integers, Sequences, FiniteSets

CONSTANTS
  Workers,       \* the worker tasks, one per WorkerAssignment
  NumTasks,      \* how many strategies the scheduler orders
  TaskCap,       \* workers.task_channel_size
  ResultCap,     \* workers.result_channel_size
  Limit,         \* stop_at_success; 0 disables the limit
  CancelAllowed  \* whether the environment may cancel the run

ASSUME PoolAssumption ==
  /\ IsFiniteSet(Workers) /\ Workers # {}
  /\ NumTasks \in Nat
  /\ TaskCap \in Nat \ {0}      \* mpsc::channel panics on 0
  /\ ResultCap \in Nat \ {0}
  /\ Limit \in Nat
  /\ CancelAllowed \in BOOLEAN

VARIABLES
  cancelled,     \* the CancellationToken
  stopFlag,      \* StopState.stop_enqueue
  successCount,  \* StopState.success_count
  producer,      \* where the producer task is
  nextTask,      \* the strategy_index it offers next
  notified,      \* its Notified future has been woken by notify_waiters
  taskQ,         \* the task channel: strategy indices
  worker,        \* where each worker_loop is
  hand,          \* the task each worker holds, 0 for none
  handOk,        \* the outcome of that task once it has run: success or not
  resultQ,       \* the result channel
  collector,     \* where WorkerPool::run is
  collected,     \* the results vector
  runs,          \* history: how often run_strategy was called for a task
  lost           \* history: tasks taken from the channel and never reported

stopVars   == <<cancelled, stopFlag, successCount>>
prodVars   == <<producer, nextTask, notified>>
workerVars == <<worker, hand, handOk>>
history    == <<runs, lost>>
vars == <<stopVars, prodVars, taskQ, workerVars, resultQ, collector,
          collected, history>>

Tasks   == 1..NumTasks
Results == [task : Tasks, ok : BOOLEAN]

ProducerPc  == {"next", "load", "register", "send", "parked", "done"}
WorkerPc    == {"check", "receive", "taken", "running", "sending", "exited"}
CollectorPc == {"collect", "join", "drain", "await", "returned"}

TypeOK ==
  /\ cancelled \in BOOLEAN
  /\ stopFlag \in BOOLEAN
  /\ successCount \in Nat
  /\ producer \in ProducerPc
  /\ nextTask \in 1..(NumTasks + 1)
  /\ producer \in {"load", "register", "send", "parked"} => nextTask <= NumTasks
  /\ notified \in BOOLEAN
  /\ taskQ \in Seq(Tasks)
  /\ worker \in [Workers -> WorkerPc]
  /\ hand \in [Workers -> Tasks \cup {0}]
  /\ handOk \in [Workers -> BOOLEAN]
  /\ \A w \in Workers :
       worker[w] \in {"taken", "running", "sending"} <=> hand[w] # 0
  /\ resultQ \in Seq(Results)
  /\ Len(resultQ) <= ResultCap
  /\ collector \in CollectorPc
  /\ collected \in Seq(Results)
  /\ runs \in [Tasks -> Nat]
  /\ lost \subseteq Tasks

Init ==
  /\ cancelled = FALSE
  /\ stopFlag = FALSE
  /\ successCount = 0
  /\ producer = "next"
  /\ nextTask = 1
  /\ notified = FALSE
  /\ taskQ = <<>>
  /\ worker = [w \in Workers |-> "check"]
  /\ hand = [w \in Workers |-> 0]
  /\ handOk = [w \in Workers |-> FALSE]
  /\ resultQ = <<>>
  /\ collector = "collect"
  /\ collected = <<>>
  /\ runs = [t \in Tasks |-> 0]
  /\ lost = {}

-----------------------------------------------------------------------------
(***************************************************************************)
(* The environment.                                                        *)
(***************************************************************************)

Cancel ==
  /\ CancelAllowed
  /\ ~cancelled
  /\ cancelled' = TRUE
  /\ UNCHANGED <<stopFlag, successCount, prodVars, taskQ, workerVars, resultQ,
                 collector, collected, history>>

-----------------------------------------------------------------------------
(***************************************************************************)
(* The producer: the scheduler's closure and EnqueueContext::enqueue.  The *)
(* select! in enqueue is biased: each poll looks at the token, then at     *)
(* StopState::stopped, then at the channel.  stopped() loads the flag and  *)
(* only then creates its Notified future, so the two are separate steps.   *)
(***************************************************************************)

ShouldStop == cancelled \/ stopFlag

ProducerStep(from, to) ==
  /\ producer = from
  /\ producer' = to
  /\ UNCHANGED <<stopVars, workerVars, resultQ, collector, collected, history>>

\* should_stop() and the check at the head of enqueue()
OfferNext ==
  /\ nextTask <= NumTasks
  /\ ~ShouldStop
  /\ ProducerStep("next", "load")
  /\ UNCHANGED <<nextTask, notified, taskQ>>

\* the loop ends; returning drops the EnqueueContext and with it the sender
ProducerEnds ==
  /\ nextTask > NumTasks \/ ShouldStop
  /\ ProducerStep("next", "done")
  /\ UNCHANGED <<nextTask, notified, taskQ>>

\* first poll of the token and of stopped(): the flag is loaded
LoadStopFlag ==
  /\ ProducerStep("load", IF ShouldStop THEN "done" ELSE "register")
  /\ UNCHANGED <<nextTask, notified, taskQ>>

\* notify.notified() is created and polled: from here a wake-up is seen
RegisterNotified ==
  /\ ProducerStep("register", "send")
  /\ notified' = FALSE
  /\ UNCHANGED <<nextTask, taskQ>>

\* mutant of SendTask: the task is offered again although it was sent
SendTaskAgain ==
  /\ Len(taskQ) < TaskCap
  /\ ProducerStep("send", "next")
  /\ taskQ' = Append(taskQ, nextTask)
  /\ UNCHANGED <<nextTask, notified>>

SendTask ==
  /\ Len(taskQ) < TaskCap
  /\ ProducerStep("send", "next")
  /\ taskQ' = Append(taskQ, nextTask)
  /\ nextTask' = nextTask + 1
  /\ UNCHANGED notified

\* the channel is full: the select waits for any of its three branches
Park ==
  /\ Len(taskQ) = TaskCap
  /\ ProducerStep("send", "parked")
  /\ UNCHANGED <<nextTask, notified, taskQ>>

\* mutant of WakeToStop: the select does not watch the token
WakeToStopUncancelled ==
  /\ notified
  /\ ProducerStep("parked", "done")
  /\ UNCHANGED <<nextTask, notified, taskQ>>

WakeToStop ==
  /\ cancelled \/ notified
  /\ ProducerStep("parked", "done")
  /\ UNCHANGED <<nextTask, notified, taskQ>>

WakeToSend ==
  /\ ~cancelled /\ ~notified
  /\ Len(taskQ) < TaskCap
  /\ ProducerStep("parked", "send")
  /\ UNCHANGED <<nextTask, notified, taskQ>>

Producer ==
  \/ OfferNext \/ ProducerEnds \/ LoadStopFlag \/ RegisterNotified
  \/ SendTask \/ Park \/ WakeToStop \/ WakeToSend

SenderDropped == producer = "done"

-----------------------------------------------------------------------------
(***************************************************************************)
(* A worker: worker_loop.  try_recv under the receiver's mutex is one      *)
(* step; the one-millisecond sleep after an empty channel is the step back *)
(* to the stop check.                                                      *)
(***************************************************************************)

WorkerStep(w, from, to) ==
  /\ worker[w] = from
  /\ worker' = [worker EXCEPT ![w] = to]
  /\ UNCHANGED <<stopVars, prodVars, collector, collected>>

Release(w) ==
  /\ hand' = [hand EXCEPT ![w] = 0]
  /\ handOk' = [handOk EXCEPT ![w] = FALSE]

\* mutant of CheckStop: the worker does not look at the stop flag
CheckStopIgnored(w) ==
  /\ WorkerStep(w, "check", "receive")
  /\ UNCHANGED <<taskQ, hand, handOk, resultQ, history>>

CheckStop(w) ==
  /\ WorkerStep(w, "check", IF stopFlag THEN "exited" ELSE "receive")
  /\ UNCHANGED <<taskQ, hand, handOk, resultQ, history>>

\* mutant of TakeTask: the message stays in the channel
TakeTaskPeeked(w) ==
  /\ taskQ # <<>>
  /\ WorkerStep(w, "receive", "taken")
  /\ hand' = [hand EXCEPT ![w] = Head(taskQ)]
  /\ UNCHANGED <<taskQ, handOk, resultQ, history>>

TakeTask(w) ==
  /\ taskQ # <<>>
  /\ WorkerStep(w, "receive", "taken")
  /\ hand' = [hand EXCEPT ![w] = Head(taskQ)]
  /\ taskQ' = Tail(taskQ)
  /\ UNCHANGED <<handOk, resultQ, history>>

\* TryRecvError::Empty
FindEmpty(w) ==
  /\ taskQ = <<>> /\ ~SenderDropped
  /\ WorkerStep(w, "receive", IF cancelled THEN "exited" ELSE "check")
  /\ UNCHANGED <<taskQ, hand, handOk, resultQ, history>>

\* TryRecvError::Disconnected
FindClosed(w) ==
  /\ taskQ = <<>> /\ SenderDropped
  /\ WorkerStep(w, "receive", "exited")
  /\ UNCHANGED <<taskQ, hand, handOk, resultQ, history>>

\* a task received after the cancellation is dropped unrun
DropTask(w) ==
  /\ cancelled
  /\ WorkerStep(w, "taken", "exited")
  /\ Release(w)
  /\ lost' = lost \cup {hand[w]}
  /\ UNCHANGED <<taskQ, resultQ, runs>>

\* mutant of StartStrategy: the token is not looked at after the receive
StartStrategyAnyway(w) ==
  /\ WorkerStep(w, "taken", "running")
  /\ runs' = [runs EXCEPT ![hand[w]] = @ + 1]
  /\ UNCHANGED <<taskQ, hand, handOk, resultQ, lost>>

StartStrategy(w) ==
  /\ ~cancelled
  /\ WorkerStep(w, "taken", "running")
  /\ runs' = [runs EXCEPT ![hand[w]] = @ + 1]
  /\ UNCHANGED <<taskQ, hand, handOk, resultQ, lost>>

\* run_strategy is bounded by its own timeouts and always answers
FinishStrategy(w) ==
  /\ WorkerStep(w, "running", "sending")
  /\ \E ok \in BOOLEAN : handOk' = [handOk EXCEPT ![w] = ok]
  /\ UNCHANGED <<taskQ, hand, resultQ, history>>

\* mutant of SendResult: the result channel is unbounded
SendResultUnbounded(w) ==
  /\ collector # "returned"
  /\ WorkerStep(w, "sending", "check")
  /\ resultQ' = Append(resultQ, [task |-> hand[w], ok |-> handOk[w]])
  /\ Release(w)
  /\ UNCHANGED <<taskQ, history>>

SendResult(w) ==
  /\ collector # "returned"
  /\ Len(resultQ) < ResultCap
  /\ WorkerStep(w, "sending", "check")
  /\ resultQ' = Append(resultQ, [task |-> hand[w], ok |-> handOk[w]])
  /\ Release(w)
  /\ UNCHANGED <<taskQ, history>>

\* mutant of SendFails: a failed send is retried
SendFailsRetried(w) ==
  /\ collector = "returned"
  /\ WorkerStep(w, "sending", "sending")
  /\ UNCHANGED <<taskQ, hand, handOk, resultQ, history>>

\* the result receiver is gone: run() has returned without this worker
SendFails(w) ==
  /\ collector = "returned"
  /\ WorkerStep(w, "sending", "exited")
  /\ Release(w)
  /\ lost' = lost \cup {hand[w]}
  /\ UNCHANGED <<taskQ, resultQ, runs>>

Worker(w) ==
  \/ CheckStop(w) \/ TakeTask(w) \/ FindEmpty(w) \/ FindClosed(w)
  \/ DropTask(w) \/ StartStrategy(w) \/ FinishStrategy(w)
  \/ SendResult(w) \/ SendFails(w)

\* every clone of result_tx is dropped: recv() yields None once it is empty
AllExited == \A w \in Workers : worker[w] = "exited"

-----------------------------------------------------------------------------
(***************************************************************************)
(* The collector: the body of WorkerPool::run after the spawns.            *)
(***************************************************************************)

\* a Notified future exists and notify_waiters reaches it
Registered == producer \in {"send", "parked"}

RecordSuccess ==
  IF Limit = 0
  THEN UNCHANGED <<successCount, stopFlag, notified>>
  ELSE /\ successCount' = successCount + 1
       /\ stopFlag' = (stopFlag \/ successCount + 1 >= Limit)
       /\ notified' = (notified \/ (successCount + 1 >= Limit /\ Registered))

\* one message of the result channel, in either loop of run()
CollectResult ==
  /\ collector \in {"collect", "drain"}
  /\ resultQ # <<>>
  /\ IF Head(resultQ).ok
     THEN RecordSuccess
     ELSE UNCHANGED <<successCount, stopFlag, notified>>
  /\ collected' = Append(collected, Head(resultQ))
  /\ resultQ' = Tail(resultQ)
  /\ UNCHANGED <<cancelled, producer, nextTask, taskQ, workerVars, collector,
                 history>>

CollectorStep(from, to) ==
  /\ collector = from
  /\ collector' = to
  /\ UNCHANGED <<stopVars, prodVars, taskQ, workerVars, runs>>

\* mutant of EndCollect: an empty channel is taken for a closed one
EndCollectEarly ==
  /\ (resultQ = <<>> /\ SenderDropped) \/ cancelled
  /\ CollectorStep("collect", "join")
  /\ UNCHANGED <<resultQ, collected, lost>>

\* the select! of the collect loop: recv() gives None, or the token fires
EndCollect ==
  /\ (resultQ = <<>> /\ AllExited) \/ cancelled
  /\ CollectorStep("collect", "join")
  /\ UNCHANGED <<resultQ, collected, lost>>

\* producer_handle.await
JoinProducer ==
  /\ producer = "done"
  /\ CollectorStep("join", "drain")
  /\ UNCHANGED <<resultQ, collected, lost>>

\* the drain loop ends: the channel is closed, or shutdown_timeout_ms is over
EndDrain ==
  /\ CollectorStep("drain", "await")
  /\ UNCHANGED <<resultQ, collected, lost>>

\* results.sort_by_key(strategy_index), which is stable: the place of a result is the
\* number of those that do not come after it
Place(s, i) ==
  Cardinality({j \in DOMAIN s : s[j].task < s[i].task \/ (s[j].task = s[i].task /\ j <= i)})

InStrategyOrder(s) == [k \in DOMAIN s |-> s[CHOOSE i \in DOMAIN s : Place(s, i) = k]]

\* every handle has ended or its timeout has expired; the results are sorted,
\* the receiver is dropped and run() returns, leaving the others detached
Return ==
  /\ CollectorStep("await", "returned")
  /\ collected' = InStrategyOrder(collected)
  /\ lost' = lost \cup {resultQ[i].task : i \in DOMAIN resultQ}
  /\ resultQ' = <<>>

Collector == CollectResult \/ EndCollect \/ JoinProducer \/ EndDrain \/ Return

\* the run is over and nothing is left to step
Finished ==
  /\ collector = "returned" /\ AllExited
  /\ UNCHANGED vars

Next ==
  \/ Cancel
  \/ Producer
  \/ \E w \in Workers : Worker(w)
  \/ Collector
  \/ Finished

Spec == Init /\ [][Next]_vars

(***************************************************************************)
(* tokio polls every woken task, a strategy run is bounded by its          *)
(* timeouts, and both shutdown timeouts expire: each process is weakly     *)
(* fair.  Nobody has to cancel.                                            *)
(***************************************************************************)
Fairness ==
  /\ WF_vars(Producer)
  /\ \A w \in Workers : WF_vars(Worker(w))
  /\ WF_vars(Collector)

FairSpec == Spec /\ Fairness

-----------------------------------------------------------------------------
(***************************************************************************)
(* Properties.                                                             *)
(***************************************************************************)

InHand    == {w \in Workers : hand[w] # 0}
Queued    == {taskQ[i] : i \in DOMAIN taskQ}
Held      == {hand[w] : w \in InHand}
InChannel == {resultQ[i].task : i \in DOMAIN resultQ}
Reported  == {collected[i].task : i \in DOMAIN collected}

\* No strategy is lost or doubled: every task the producer has sent is in the
\* task channel, with one worker, in the result channel, in the results or
\* given up by a cancelled run - in exactly one of them, once.
EachTaskInOnePlace ==
  /\ 1..(nextTask - 1) = Queued \cup Held \cup InChannel \cup Reported \cup lost
  /\ nextTask - 1 = Len(taskQ) + Cardinality(InHand) + Len(resultQ)
                      + Len(collected) + Cardinality(lost)

\* A strategy is never probed twice, and a reported one has been probed: the
\* score is updated once per probe (scheduler.rs finalize_results).
ProbedAtMostOnce ==
  /\ \A t \in Tasks : runs[t] <= 1
  /\ \A t \in Reported : runs[t] = 1

\* The successful-strategy limit may be overshot, because the collector counts
\* behind the workers: the results waiting in the channel and one task per
\* worker are already on their way when it raises the stop flag, no more.
OvershootBounded ==
  Limit > 0 => successCount <= Limit - 1 + ResultCap + Cardinality(Workers)

\* Why: below the limit the flag is down; once it is up, the counted successes,
\* the results in the channel and the workers between the stop check and the
\* next one can only be exchanged for one another.
Busy == {w \in Workers : worker[w] \in {"receive", "taken", "running", "sending"}}

OnTheirWay == successCount + Len(resultQ) + Cardinality(Busy)

OvershootInductive ==
  Limit > 0 =>
    /\ ~stopFlag => successCount < Limit
    /\ stopFlag => OnTheirWay <= Limit - 1 + ResultCap + Cardinality(Workers)

\* Without a cancellation run() returns only when every worker has ended, so no
\* nfqws2 process or firewall rule of a strategy outlives it, and it returns the
\* result of every strategy that was probed: of all of them, short of the limit.
CompleteUnlessCancelled ==
  collector = "returned" /\ ~cancelled =>
    /\ AllExited
    /\ lost = {}
    /\ Reported = IF stopFlag THEN {t \in Tasks : runs[t] > 0} ELSE Tasks

\* The producer has missed the one notify_waiters call: it loaded the flag before
\* the call and created its Notified future after it.
WakeupLost ==
  stopFlag /\ ~notified /\ producer \in {"register", "send", "parked"}

\* run() returns, with backpressure and with the limit reached, unless that wake-up
\* was lost and nothing cancels the run: a cancellation ends also that.
ReturnsUnlessWakeupLost ==
  <>(collector = "returned") \/ <>[](WakeupLost /\ ~cancelled)

\* src/README.md:74: --successful-strategy-limit stops the scheduling of strategy
\* probes; the scheduler then goes on with the results run() returns.
Returns == <>(collector = "returned")

\* Every worker task ends, the detached ones too.
WorkersEnd == collector = "returned" ~> AllExited

(***************************************************************************)
(* The pool implements PoolContract: where a strategy is tells its phase.  *)
(***************************************************************************)
PhaseOf(t) ==
  CASE t \in lost -> "lost"
    [] \E i \in DOMAIN collected : collected[i] = [task |-> t, ok |-> TRUE] -> "succeeded"
    [] \E i \in DOMAIN collected : collected[i] = [task |-> t, ok |-> FALSE] -> "failed"
    [] t \in InChannel -> "done"
    [] \E w \in InHand : hand[w] = t /\ worker[w] = "taken" -> "taken"
    [] \E w \in InHand : hand[w] = t /\ worker[w] # "taken" -> "running"
    [] OTHER -> "waiting"

Contract == INSTANCE PoolContract WITH
  phase <- [t \in Tasks |-> PhaseOf(t)],
  over <- collector = "returned",
  NumWorkers <- Cardinality(Workers)

\* Every step of the pool is a step of the contract, or invisible to it.
ImplementsContract == Contract!Spec
=============================================================================
