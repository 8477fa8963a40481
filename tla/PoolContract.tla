---------------------------- MODULE PoolContract ----------------------------
(***************************************************************************)
(* What the worker pool promises the scheduler, without its channels, its  *)
(* polling and its shutdown protocol.  Strategies are taken up in order,   *)
(* at most one per worker at a time, each is probed at most once and its   *)
(* outcome reported at most once; a strategy is given up only by a         *)
(* cancelled run, and an uncancelled run ends only when nothing is under   *)
(* way and either every strategy has been reported or the limit of         *)
(* successful ones has been reached.                                       *)
(***************************************************************************)
EXTENDS Integers, FiniteSets

CONSTANTS NumTasks, NumWorkers, Limit

VARIABLES
  phase,      \* of each strategy
  cancelled,  \* the caller has cancelled the run
  over        \* the run has returned

vars == <<phase, cancelled, over>>

Tasks  == 1..NumTasks
Phases == {"waiting", "taken", "running", "done", "failed", "succeeded", "lost"}

InPhase(set) == {t \in Tasks : phase[t] \in set}
UnderWay     == InPhase({"taken", "running", "done"})

Init ==
  /\ phase = [t \in Tasks |-> "waiting"]
  /\ cancelled = FALSE
  /\ over = FALSE

Cancel ==
  /\ cancelled' = TRUE
  /\ UNCHANGED <<phase, over>>

Move(t, from, to) ==
  /\ phase[t] = from
  /\ phase' = [phase EXCEPT ![t] = to]
  /\ UNCHANGED <<cancelled, over>>

Take(t) ==
  /\ \A u \in 1..(t - 1) : phase[u] # "waiting"
  /\ Cardinality(InPhase({"taken", "running"})) < NumWorkers
  /\ ~over \/ cancelled
  /\ Move(t, "waiting", "taken")

Start(t) == ~cancelled /\ Move(t, "taken", "running")

Finish(t) == ~over /\ Move(t, "running", "done")

Report(t) ==
  /\ ~over
  /\ \/ Move(t, "done", "failed")
     \/ Move(t, "done", "succeeded")

\* a worker of a cancelled run gives its strategy up
Lose(t) ==
  /\ cancelled
  /\ \/ Move(t, "taken", "lost")
     \/ over /\ Move(t, "running", "lost")

LimitReached == Limit > 0 /\ Cardinality(InPhase({"succeeded"})) >= Limit

\* results nobody has read when a cancelled run returns are lost
End ==
  /\ ~over
  /\ cancelled \/ (UnderWay = {} /\ (InPhase({"waiting"}) = {} \/ LimitReached))
  /\ over' = TRUE
  /\ phase' = [t \in Tasks |-> IF phase[t] = "done" THEN "lost" ELSE phase[t]]
  /\ UNCHANGED cancelled

Next ==
  \/ Cancel \/ End
  \/ \E t \in Tasks : Take(t) \/ Start(t) \/ Finish(t) \/ Report(t) \/ Lose(t)

Spec == Init /\ [][Next]_vars
=============================================================================
