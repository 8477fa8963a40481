---------------------------- MODULE IsolationPlan ----------------------------
(***************************************************************************)
(* How queues and firewall marks are dealt out to the workers: the checks  *)
(* of config.rs (validate, validate_isolation), the --workers override of  *)
(* main.rs and generate_assignments of isolation.rs, with the verdict of   *)
(* the nftables chain the marks are for.  Numbers keep their width: a      *)
(* queue number is a u16 whose addition wraps in a release build, a mark   *)
(* is a u32 whose addition saturates; both widths are parameters.          *)
(***************************************************************************)
EXTENDS Integers, FiniteSets

CONSTANTS
  MaxQueue,    \* u16::MAX
  MaxMark,     \* u32::MAX
  MaxWorkers   \* bound of the model: workers.count and --workers

ASSUME PlanAssumption ==
  /\ MaxQueue \in Nat
  /\ MaxMark \in Nat
  /\ MaxWorkers \in Nat \ {0}
  /\ MaxWorkers <= MaxQueue + 1

VARIABLES
  stage,       \* "loaded", "rejected", "accepted" or "assigned"
  config,      \* what the configuration file says
  cliWorkers,  \* --workers, 0 when it is absent
  plan         \* the assignment of each worker

vars == <<stage, config, cliWorkers, plan>>

Modes   == {"source_port", "fwmark"}
Configs == [workers : 0..MaxWorkers, mode : Modes, queueBase : 0..MaxQueue,
            markBase : 0..MaxMark, desyncMark : 0..MaxMark, sameText : BOOLEAN]

NoMark == MaxMark + 1
Assignment == [qnum : 0..MaxQueue, mark : 0..NoMark]

TypeOK ==
  /\ stage \in {"loaded", "rejected", "accepted", "assigned"}
  /\ config \in Configs
  /\ cliWorkers \in 0..MaxWorkers
  /\ \/ stage # "assigned" /\ plan = <<>>
     \/ stage = "assigned" /\ \E n \in 1..MaxWorkers : plan \in [0..(n - 1) -> Assignment]

\* mark_base and desync_mark are texts: the same text is the same value, but
\* one value has several texts (parse_hex_mark)
Init ==
  /\ stage = "loaded"
  /\ config \in Configs
  /\ config.sameText => config.markBase = config.desyncMark
  /\ cliWorkers \in 0..MaxWorkers
  /\ plan = <<>>

\* mutant of SaturatingAdd: the sum saturates in a narrower type
SaturatingAddNarrow(a, b) == IF a + b > MaxMark \div 2 THEN MaxMark \div 2 ELSE a + b

SaturatingAdd(a, b) == IF a + b > MaxMark THEN MaxMark ELSE a + b

\* mutant of WrappingAdd: the sum is not reduced
UnboundedAdd(a, b) == a + b

\* mutant of WrappingAdd: the sum saturates instead of wrapping
ClampedAdd(a, b) == IF a + b > MaxQueue THEN MaxQueue ELSE a + b

WrappingAdd(a, b)   == (a + b) % (MaxQueue + 1)

WorkerFwmark(base, id) == SaturatingAdd(base, id + 1)

\* mutant of QueuesFit: off by one
QueuesAlmostFit == config.queueBase + config.workers - 2 <= MaxQueue

\* the checks of validate() on the numbers dealt out; workers.count - 1 in
\* validate_isolation is the last worker's id
QueuesFit == config.queueBase + config.workers - 1 <= MaxQueue

MarksFit ==
  /\ ~config.sameText
  /\ config.mode = "fwmark" =>
       WorkerFwmark(config.markBase, config.workers - 1) # config.desyncMark

Valid == config.workers > 0 /\ QueuesFit /\ MarksFit

Validate ==
  /\ stage = "loaded"
  /\ stage' = IF Valid THEN "accepted" ELSE "rejected"
  /\ UNCHANGED <<config, cliWorkers, plan>>

\* main.rs: workers.unwrap_or(cfg.workers.count).max(1); --workers 0 is 1, as a
\* one-worker override
EffectiveWorkers == IF cliWorkers = 0 THEN config.workers ELSE cliWorkers

Assignments ==
  [id \in 0..(EffectiveWorkers - 1) |->
     [qnum |-> WrappingAdd(config.queueBase, id),
      mark |-> IF config.mode = "fwmark"
               THEN WorkerFwmark(config.markBase, id) ELSE NoMark]]

GenerateAssignments ==
  /\ stage = "accepted"
  /\ stage' = "assigned"
  /\ plan' = Assignments
  /\ UNCHANGED <<config, cliWorkers>>

Settled ==
  /\ stage \in {"rejected", "assigned"}
  /\ UNCHANGED vars

Next == Validate \/ GenerateAssignments \/ Settled

Spec == Init /\ [][Next]_vars

-----------------------------------------------------------------------------
(***************************************************************************)
(* The verdict of the nftables chain (render_setup_script) on a packet of  *)
(* a worker's socket: the desync rule comes first and lets the packet past *)
(* nfqws2, then the mark selects a queue.                                  *)
(***************************************************************************)
Workers == DOMAIN plan

QueuesOfMark(m) == {plan[id].qnum : id \in {v \in Workers : plan[v].mark = m}}

Bypassed(id) == plan[id].mark = config.desyncMark

(***************************************************************************)
(* Properties.                                                             *)
(***************************************************************************)

Assigned == stage = "assigned"
Marked   == Assigned /\ config.mode = "fwmark"

\* Why: only what was validated is dealt out, and a plan is what was dealt out.
PlanInductive ==
  /\ stage \in {"loaded", "rejected", "accepted", "assigned"}
  /\ config \in Configs
  /\ cliWorkers \in 0..MaxWorkers
  /\ stage \in {"accepted", "assigned"} => Valid
  /\ plan = IF Assigned THEN Assignments ELSE <<>>

\* Two workers never listen on one NFQUEUE, with --workers beyond what was
\* validated too: at most MaxQueue + 1 workers cannot meet even by wrapping.
QueuesDistinct ==
  Assigned => \A i, j \in Workers : i # j => plan[i].qnum # plan[j].qnum

\* Marks select a worker's own queue, except where their sum saturates.
MarkSelectsQueue ==
  Marked /\ config.markBase + Cardinality(Workers) <= MaxMark =>
    \A id \in Workers : QueuesOfMark(plan[id].mark) = {plan[id].qnum}

\* As validated, with the configured number of workers: no queue number wraps
\* around, and the last worker's packets do not pass as already desynced.
ValidatedPlanHolds ==
  Assigned /\ cliWorkers = 0 =>
    /\ \A id \in Workers : plan[id].qnum = config.queueBase + id
    /\ config.mode = "fwmark" => ~Bypassed(config.workers - 1)

\* src/src/config.rs:692: "worker fwmark range overlaps isolation.desync_mark" is
\* refused, so no worker's packets bypass its nfqws2.
NoWorkerBypassed ==
  Marked /\ cliWorkers = 0 => \A id \in Workers : ~Bypassed(id)
=============================================================================
