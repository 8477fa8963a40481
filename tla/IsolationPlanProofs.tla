------------------------- MODULE IsolationPlanProofs --------------------------
(***************************************************************************)
(* Theorems about IsolationPlan at every width of queue numbers and marks. *)
(***************************************************************************)
EXTENDS IsolationPlan, FiniteSetTheorems, TLAPS

\* A sum of two numbers of the type wraps at most once.
LEMMA WrapsOnce ==
  ASSUME NEW a \in 0..MaxQueue, NEW b \in 0..MaxQueue
  PROVE  /\ WrappingAdd(a, b) \in 0..MaxQueue
         /\ WrappingAdd(a, b) =
              IF a + b <= MaxQueue THEN a + b ELSE a + b - (MaxQueue + 1)
  <1> DEFINE M == MaxQueue + 1
             x == a + b
  <1>1. M \in Nat \ {0} /\ x \in Nat /\ x < M + M
    BY PlanAssumption
  <1> HIDE DEF M, x
  <1>2. x % M \in 0..(M - 1) /\ x = M * (x \div M) + (x % M) /\ x \div M \in Int
    BY <1>1
  <1>3. x \div M \in {0, 1}
    BY <1>1, <1>2
  <1>4. x % M = IF x < M THEN x ELSE x - M
    BY <1>1, <1>2, <1>3
  <1> QED
    BY <1>1, <1>2, <1>4, PlanAssumption DEF WrappingAdd, M, x
-----------------------------------------------------------------------------
(***************************************************************************)
(* Only what was validated is dealt out.                                   *)
(***************************************************************************)

LEMMA PlanInit == Init => PlanInductive
  BY DEF Init, PlanInductive, Assigned

LEMMA PlanStep == PlanInductive /\ [Next]_vars => PlanInductive'
  <1> SUFFICES ASSUME PlanInductive, [Next]_vars PROVE PlanInductive'
    OBVIOUS
  <1> USE DEF PlanInductive, Assigned
  <1>1. CASE Validate
    <2>1. stage' \in {"accepted", "rejected"} /\ (stage' = "accepted" => Valid)
      BY <1>1 DEF Validate
    <2>2. Valid' <=> Valid
      BY <1>1 DEF Validate, Valid, QueuesFit, MarksFit, WorkerFwmark, SaturatingAdd
    <2>3. plan' = <<>>
      BY <1>1 DEF Validate
    <2> QED
      BY <1>1, <2>1, <2>2, <2>3 DEF Validate
  <1>2. CASE GenerateAssignments
    <2>1. Valid' <=> Valid
      BY <1>2 DEF GenerateAssignments, Valid, QueuesFit, MarksFit, WorkerFwmark,
                  SaturatingAdd
    <2>2. plan' = Assignments'
      BY <1>2 DEF GenerateAssignments, Assignments, EffectiveWorkers, WorkerFwmark,
                  SaturatingAdd, WrappingAdd
    <2> QED
      BY <1>2, <2>1, <2>2 DEF GenerateAssignments
  <1>3. CASE UNCHANGED vars
    BY <1>3 DEF vars, Valid, QueuesFit, MarksFit, WorkerFwmark, SaturatingAdd,
                Assignments, EffectiveWorkers, WrappingAdd
  <1> QED
    BY <1>1, <1>2, <1>3 DEF Next, Settled

LEMMA PlanShape ==
  ASSUME PlanInductive, Assigned
  PROVE  /\ EffectiveWorkers \in 1..MaxWorkers
         /\ Workers = 0..(EffectiveWorkers - 1)
         /\ Workers \subseteq 0..MaxQueue
         /\ Cardinality(Workers) = EffectiveWorkers
         /\ \A id \in Workers :
              /\ plan[id].qnum = WrappingAdd(config.queueBase, id)
              /\ plan[id].mark = IF config.mode = "fwmark"
                                 THEN WorkerFwmark(config.markBase, id) ELSE NoMark
  <1>1. config \in Configs /\ config.workers \in 0..MaxWorkers /\ config.workers > 0
    BY DEF PlanInductive, Assigned, Valid, Configs
  <1>2. EffectiveWorkers \in 1..MaxWorkers
    BY <1>1, PlanAssumption DEF PlanInductive, EffectiveWorkers
  <1>3. plan = Assignments
    BY DEF PlanInductive
  <1>4. Workers = 0..(EffectiveWorkers - 1)
    BY <1>3 DEF Workers, Assignments
  <1>5. Cardinality(Workers) = EffectiveWorkers
    BY <1>2, <1>4, FS_Interval, PlanAssumption
  <1>6. Workers \subseteq 0..MaxQueue
    BY <1>2, <1>4, PlanAssumption
  <1> QED
    BY <1>2, <1>3, <1>4, <1>5, <1>6 DEF Assignments

-----------------------------------------------------------------------------
(***************************************************************************)
(* What the plan is good for.                                              *)
(***************************************************************************)

\* Two workers never listen on one NFQUEUE, however many are asked for with
\* --workers: their queue numbers differ although the addition may wrap.
THEOREM PlanQueuesDistinct == Spec => []QueuesDistinct
  <1>1. PlanInductive => QueuesDistinct
    <2> SUFFICES ASSUME PlanInductive, Assigned,
                        NEW i \in Workers, NEW j \in Workers,
                        plan[i].qnum = plan[j].qnum
                 PROVE  i = j
      BY DEF QueuesDistinct
    <2>1. i \in 0..MaxQueue /\ j \in 0..MaxQueue /\ config.queueBase \in 0..MaxQueue
      BY PlanShape DEF PlanInductive, Configs
    <2> DEFINE b == config.queueBase
               wrapped(k) == IF b + k <= MaxQueue THEN b + k ELSE b + k - (MaxQueue + 1)
    <2>2. plan[i].qnum = wrapped(i) /\ plan[j].qnum = wrapped(j)
      <3>1. plan[i].qnum = WrappingAdd(b, i) /\ plan[j].qnum = WrappingAdd(b, j)
        BY PlanShape
      <3> QED
        BY <2>1, <3>1, WrapsOnce
    <2>3. wrapped(i) = wrapped(j)
      BY <2>2
    <2> QED
      BY <2>1, <2>3, PlanAssumption
  <1> QED
    BY <1>1, PlanInit, PlanStep, PTL DEF Spec

\* Where no mark saturates, the chain sends a worker's packets to its queue.
THEOREM PlanMarksSelect == Spec => []MarkSelectsQueue
  <1>1. PlanInductive => MarkSelectsQueue
    <2> SUFFICES ASSUME PlanInductive, Assigned, config.mode = "fwmark",
                        config.markBase + Cardinality(Workers) <= MaxMark,
                        NEW id \in Workers
                 PROVE  QueuesOfMark(plan[id].mark) = {plan[id].qnum}
      BY DEF MarkSelectsQueue, Marked
    <2>1. config.markBase \in 0..MaxMark
      BY DEF PlanInductive, Configs
    <2>2. ASSUME NEW v \in Workers PROVE plan[v].mark = config.markBase + v + 1 /\ v \in Nat
      <3>1. v \in 0..(EffectiveWorkers - 1) /\ EffectiveWorkers \in 1..MaxWorkers
        BY PlanShape
      <3>2. config.markBase + EffectiveWorkers <= MaxMark
        BY PlanShape
      <3>3. plan[v].mark = WorkerFwmark(config.markBase, v)
        BY PlanShape
      <3> QED
        BY <2>1, <3>1, <3>2, <3>3, PlanAssumption DEF WorkerFwmark, SaturatingAdd
    <2>3. ASSUME NEW v \in Workers PROVE plan[v].mark = plan[id].mark <=> v = id
      BY <2>1, <2>2
    <2> QED
      BY <2>3 DEF QueuesOfMark
  <1> QED
    BY <1>1, PlanInit, PlanStep, PTL DEF Spec

\* Validation is enough for what it looks at: with the configured number of
\* workers no queue number wraps and the last mark is not the desync mark.
THEOREM PlanHoldsAsValidated == Spec => []ValidatedPlanHolds
  <1>1. PlanInductive => ValidatedPlanHolds
    <2> SUFFICES ASSUME PlanInductive, Assigned, cliWorkers = 0
                 PROVE  /\ \A id \in Workers : plan[id].qnum = config.queueBase + id
                        /\ config.mode = "fwmark" => ~Bypassed(config.workers - 1)
      BY DEF ValidatedPlanHolds
    <2>1. /\ config.workers \in 0..MaxWorkers /\ config.workers > 0
          /\ config.queueBase \in 0..MaxQueue
          /\ config.queueBase + config.workers - 1 <= MaxQueue
          /\ MarksFit
      BY DEF PlanInductive, Assigned, Configs, Valid, QueuesFit
    <2>2. EffectiveWorkers = config.workers
      BY DEF EffectiveWorkers
    <2>3. ASSUME NEW id \in Workers PROVE plan[id].qnum = config.queueBase + id
      <3>1. id \in 0..(config.workers - 1) /\ id \in 0..MaxQueue
        BY <2>2, PlanShape
      <3>2. config.queueBase + id <= MaxQueue
        BY <2>1, <3>1, PlanAssumption
      <3> QED
        BY <2>1, <3>1, <3>2, WrapsOnce, PlanShape
    <2>4. ASSUME config.mode = "fwmark" PROVE ~Bypassed(config.workers - 1)
      <3>1. config.workers - 1 \in Workers
        BY <2>1, <2>2, PlanShape, PlanAssumption
      <3>2. plan[config.workers - 1].mark = WorkerFwmark(config.markBase, config.workers - 1)
        BY <2>4, <3>1, PlanShape
      <3> QED
        BY <2>1, <2>4, <3>2 DEF MarksFit, Bypassed
    <2> QED
      BY <2>3, <2>4
  <1> QED
    BY <1>1, PlanInit, PlanStep, PTL DEF Spec

\* Numbers stay within their widths: a queue number is reduced, a mark is cut off, and
\* there are as many assignments as workers, at least one.
THEOREM PlanTypeCorrect == Spec => []TypeOK
  <1>1. PlanInductive => TypeOK
    <2> SUFFICES ASSUME PlanInductive PROVE TypeOK
      OBVIOUS
    <2>1. CASE ~Assigned
      BY <2>1 DEF PlanInductive, Assigned, TypeOK
    <2>2. CASE Assigned
      <3>1. /\ EffectiveWorkers \in 1..MaxWorkers /\ Workers = 0..(EffectiveWorkers - 1)
            /\ Workers \subseteq 0..MaxQueue /\ plan = Assignments
        BY <2>2, PlanShape DEF PlanInductive
      <3>2. config.queueBase \in 0..MaxQueue /\ config.markBase \in 0..MaxMark
        BY DEF PlanInductive, Configs
      <3>3. ASSUME NEW id \in Workers
            PROVE  [qnum |-> WrappingAdd(config.queueBase, id),
                    mark |-> IF config.mode = "fwmark"
                             THEN WorkerFwmark(config.markBase, id) ELSE NoMark] \in Assignment
        <4>1. WrappingAdd(config.queueBase, id) \in 0..MaxQueue
          BY <3>1, <3>2, WrapsOnce
        <4>2. id \in Nat
          BY <3>1, PlanAssumption
        <4>3. WorkerFwmark(config.markBase, id) \in 0..NoMark
          BY <3>2, <4>2, PlanAssumption DEF WorkerFwmark, SaturatingAdd, NoMark
        <4>4. NoMark \in 0..NoMark
          BY PlanAssumption DEF NoMark
        <4> QED
          BY <4>1, <4>3, <4>4 DEF Assignment
      <3>4. plan \in [0..(EffectiveWorkers - 1) -> Assignment]
        BY <3>1, <3>3 DEF Assignments
      <3> QED
        BY <2>2, <3>1, <3>4 DEF PlanInductive, Assigned, TypeOK
    <2> QED
      BY <2>1, <2>2
  <1> QED
    BY <1>1, PlanInit, PlanStep, PTL DEF Spec
=============================================================================
