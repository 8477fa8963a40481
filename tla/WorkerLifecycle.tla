--------------------------- MODULE WorkerLifecycle ---------------------------
(***************************************************************************)
(* One strategy run of each worker: WorkerRuntime::run_worker_task of      *)
(* src/src/worker.rs with the nfqws2 process manager (src/src/nfqws.rs)    *)
(* and the per-task firewall rules (src/src/firewall.rs).                  *)
(* In source-port isolation a worker binds a socket to a port the kernel   *)
(* picks, starts an nfqws2 on its own NFQUEUE, installs a rule that sends  *)
(* the packets of that port to the queue, probes with the socket, and      *)
(* undoes these.  In fwmark isolation the socket gets the worker's mark    *)
(* and no port, and there is no rule: the map of marks that setup installs *)
(* (IsolationPlan) leads to the queues.                                    *)
(* Workers run side by side and share the ports, the rule chain and the    *)
(* process table; every awaited command may fail.                          *)
(*                                                                         *)
(* A worker's queue is fixed, so a worker stands for its qnum.  All        *)
(* workers probe the same address and port, as the targets of one domain   *)
(* do, so that part of a rule tells no two of them apart.                  *)
(***************************************************************************)
EXTENDS Integers, Sequences, FiniteSets, SequencesExt

CONSTANTS
  Workers,
  Ports,      \* the ephemeral ports
  Begins,     \* pairs of ports of which the first begins the second, as 4201 begins 42010
  MaxRuns     \* bound of the model: strategy runs of all workers together

NoPort == 0

ASSUME LifecycleAssumption ==
  /\ IsFiniteSet(Workers)
  /\ MaxRuns \in Nat
  /\ NoPort \notin Ports
  /\ Begins \subseteq Ports \X Ports
  /\ \A p, q \in Ports : <<p, q>> \in Begins => <<q, p>> \notin Begins

VARIABLES
  manager,    \* who keeps the rules of the tasks; "none" in fwmark isolation
  begun,      \* how many strategy runs have begun
  step,       \* where each worker is in run_worker_task
  run,        \* the number of its strategy run, 0 between runs
  socket,     \* the port of its open socket, NoPort once it is dropped
  port,       \* the port its rule names: assigned when the socket was prepared
  result,     \* what its run has to report so far
  rules,      \* the rules of the chain, in order
  procs,      \* the nfqws2 processes alive, each named by worker and run
  notRemoved, \* history: runs whose rule removal failed or found nothing
  notStopped  \* history: runs whose nfqws2 could not be confirmed dead

history == <<notRemoved, notStopped>>
vars == <<manager, begun, step, run, socket, port, result, rules, procs, history>>

Managers == {"nft", "iptables", "none"}

perTaskRule == manager # "none"

Steps == {"idle", "spawn", "grace", "install", "probe", "remove", "stop",
          "terminating", "killing"}
\* what the outcome does to the strategy's score: a success, a strategy failure and a
\* timeout move it ("verdict"), an infrastructure failure and a cancellation leave it
\* alone (scheduler.rs finalize_results, BayesianState::update)
Outcomes == {"verdict", "neutral"}
Rules == [port : Ports, queue : Workers]
Runs  == Workers \X (1..MaxRuns)

TypeOK ==
  /\ manager \in Managers
  /\ begun \in 0..MaxRuns
  /\ step \in [Workers -> Steps]
  /\ run \in [Workers -> 0..MaxRuns]
  /\ socket \in [Workers -> Ports \cup {NoPort}]
  /\ port \in [Workers -> Ports \cup {NoPort}]
  /\ result \in [Workers -> Outcomes]
  /\ rules \in Seq(Rules)
  /\ procs \subseteq Runs
  /\ notRemoved \subseteq Runs
  /\ notStopped \subseteq Runs

Init ==
  /\ manager \in Managers
  /\ begun = 0
  /\ step = [w \in Workers |-> "idle"]
  /\ run = [w \in Workers |-> 0]
  /\ socket = [w \in Workers |-> NoPort]
  /\ port = [w \in Workers |-> NoPort]
  /\ result = [w \in Workers |-> "neutral"]
  /\ rules = <<>>
  /\ procs = {}
  /\ notRemoved = {} /\ notStopped = {}

Run(w)   == <<w, run[w]>>
Alive(w) == Run(w) \in procs

\* the runs are numbered in the order they begin
BeginRun(w) ==
  /\ begun < MaxRuns
  /\ begun' = begun + 1
  /\ run' = [run EXCEPT ![w] = begun + 1]

Goto(w, from, to) ==
  /\ step[w] = from
  /\ step' = [step EXCEPT ![w] = to]

Report(w, outcome) == result' = [result EXCEPT ![w] = outcome]
DropSocket(w)      == socket' = [socket EXCEPT ![w] = NoPort]

\* run_worker_task returns: the socket, if it is still open, is dropped with the rest
ReturnFrom(w, from) ==
  /\ Goto(w, from, "idle")
  /\ run' = [run EXCEPT ![w] = 0]
  /\ port' = [port EXCEPT ![w] = NoPort]
  /\ Report(w, "neutral")
  /\ DropSocket(w)

-----------------------------------------------------------------------------
(***************************************************************************)
(* The environment.                                                        *)
(***************************************************************************)

\* an nfqws2 may crash at any time, and dies of SIGTERM or SIGKILL some time
\* after it is sent
ProcessDies ==
  \E p \in procs :
    /\ procs' = procs \ {p}
    /\ UNCHANGED <<begun, step, run, socket, port, result, rules, history>>

-----------------------------------------------------------------------------
(***************************************************************************)
(* Setting up.                                                             *)
(***************************************************************************)

\* mutant of PrepareSocket: the port is read before the socket is bound
PrepareSocketUnbound(w) ==
  /\ perTaskRule
  /\ Goto(w, "idle", "spawn")
  /\ BeginRun(w)
  /\ \E p \in Ports :
       /\ \A v \in Workers : socket[v] # p
       /\ socket' = [socket EXCEPT ![w] = p]
  /\ Report(w, "neutral")
  /\ UNCHANGED <<port, rules, procs, history>>

\* mutant of PrepareSocket: the port is reserved by binding a socket and closing it
PrepareSocketReserved(w) ==
  /\ perTaskRule
  /\ Goto(w, "idle", "spawn")
  /\ BeginRun(w)
  /\ \E p \in Ports :
       /\ socket' = [socket EXCEPT ![w] = p]
       /\ port' = [port EXCEPT ![w] = p]
  /\ Report(w, "neutral")
  /\ UNCHANGED <<rules, procs, history>>

\* prepare_transport: bind to port 0; the kernel gives a port no socket has
PrepareSocket(w) ==
  /\ perTaskRule
  /\ Goto(w, "idle", "spawn")
  /\ BeginRun(w)
  /\ \E p \in Ports :
       /\ \A v \in Workers : socket[v] # p
       /\ socket' = [socket EXCEPT ![w] = p]
       /\ port' = [port EXCEPT ![w] = p]
  /\ Report(w, "neutral")
  /\ UNCHANGED <<rules, procs, history>>

\* prepare_transport_fwmark: the socket is not bound, its port is reported as 0
PrepareMarked(w) ==
  /\ ~perTaskRule
  /\ Goto(w, "idle", "spawn")
  /\ BeginRun(w)
  /\ Report(w, "neutral")
  /\ UNCHANGED <<socket, port, rules, procs, history>>

PrepareFails(w) ==
  /\ step[w] = "idle"
  /\ begun < MaxRuns
  /\ begun' = begun + 1
  /\ UNCHANGED <<step, run, socket, port, result, rules, procs, history>>

SpawnNfqws(w) ==
  /\ Goto(w, "spawn", "grace")
  /\ procs' = procs \cup {Run(w)}
  /\ UNCHANGED <<begun, run, socket, port, result, rules, history>>

SpawnFails(w) ==
  /\ ReturnFrom(w, "spawn")
  /\ UNCHANGED <<begun, rules, procs, history>>

\* try_wait after the grace period: alive, exited early, or an I/O error that
\* leaves the child to itself
GraceOver(w) ==
  /\ Alive(w)
  /\ Goto(w, "grace", IF perTaskRule THEN "install" ELSE "probe")
  /\ UNCHANGED <<begun, run, socket, port, result, rules, procs, history>>

ExitedEarly(w) ==
  /\ ~Alive(w)
  /\ ReturnFrom(w, "grace")
  /\ UNCHANGED <<begun, rules, procs, history>>

GraceWaitFails(w) ==
  /\ ReturnFrom(w, "grace")
  /\ notStopped' = notStopped \cup {Run(w)}
  /\ UNCHANGED <<begun, rules, procs, notRemoved>>

\* nft add rule and iptables -A append to the chain
InstallRule(w) ==
  /\ Goto(w, "install", "probe")
  /\ rules' = Append(rules, [port |-> port[w], queue |-> w])
  /\ UNCHANGED <<begun, run, socket, port, result, procs, history>>

\* mutant of InstallFails: the process is left running
InstallFailsUnstopped(w) ==
  /\ ReturnFrom(w, "install")
  /\ UNCHANGED <<begun, rules, procs, history>>

\* mutant of InstallFails: a setup failure is blamed on the strategy
InstallFailsBlamed(w) ==
  /\ Goto(w, "install", "stop")
  /\ Report(w, "verdict")
  /\ UNCHANGED <<begun, run, socket, port, rules, procs, history>>

\* the process is stopped; the socket lives until run_worker_task returns
InstallFails(w) ==
  /\ Goto(w, "install", "stop")
  /\ Report(w, "neutral")
  /\ UNCHANGED <<begun, run, socket, port, rules, procs, history>>

-----------------------------------------------------------------------------
(***************************************************************************)
(* Probing and cleaning up.                                                *)
(***************************************************************************)

\* mutant of EndProbe: a cancelled probe skips the removal of its rule
EndProbeUnremoved(w) ==
  /\ \/ Goto(w, "probe", "remove") /\ Report(w, "verdict")
     \/ Goto(w, "probe", "stop") /\ Report(w, "neutral")
  /\ DropSocket(w)
  /\ UNCHANGED <<begun, run, port, rules, procs, history>>

\* probe_with_prepared_socket consumes the socket; the total timeout drops it
EndProbe(w) ==
  /\ Goto(w, "probe", IF perTaskRule THEN "remove" ELSE "stop")
  /\ \E outcome \in Outcomes : Report(w, outcome)
  /\ DropSocket(w)
  /\ UNCHANGED <<begun, run, port, rules, procs, history>>

\* the rule the removal deletes, 0 for none: iptables -D the first equal one, nft
\* the first line find_nft_rule_handle accepts.  It looks for its texts anywhere in
\* the line, so it accepts a rule of a port that only begins with the digits of its
\* own, and any qnum when the digits of its own occur elsewhere.  nft lists and deletes
\* in two commands; a rule that is still there then has the same rules of its own
\* behind it, so the deletion stands for both.
SamePort(w) == {i \in DOMAIN rules : rules[i].port = port[w]}
Equal(w)    == {i \in SamePort(w) : rules[i].queue = w}
Longer(w)   == {i \in DOMAIN rules : <<port[w], rules[i].port>> \in Begins}

Matching(w) ==
  IF manager = "nft" THEN SamePort(w) \cup Longer(w) \cup {0} ELSE Equal(w) \cup {0}

FirstMatches(w) ==
  {i \in Matching(w) :
     IF i = 0 THEN Equal(w) = {} ELSE \A j \in Equal(w) : i <= j}

\* mutant of RemoveRule: every rule of the port is deleted
RemoveRulesOfPort(w) ==
  /\ Goto(w, "remove", "stop")
  /\ rules' = SelectSeq(rules, LAMBDA r : r.port # port[w])
  /\ UNCHANGED <<begun, run, socket, port, result, procs, history>>

RemoveRule(w) ==
  /\ Goto(w, "remove", "stop")
  /\ \E i \in FirstMatches(w) :
       /\ rules' = IF i = 0 THEN rules ELSE RemoveAt(rules, i)
       /\ notRemoved' = IF i = 0 THEN notRemoved \cup {Run(w)} ELSE notRemoved
  /\ UNCHANGED <<begun, run, socket, port, result, procs, notStopped>>

\* a failed removal is logged and the outcome stays
RemoveFails(w) ==
  /\ Goto(w, "remove", "stop")
  /\ notRemoved' = notRemoved \cup {Run(w)}
  /\ UNCHANGED <<begun, run, socket, port, result, rules, procs, notStopped>>

\* stop: try_wait, then kill -TERM
StopAlive(w) ==
  /\ Alive(w)
  /\ Goto(w, "stop", "terminating")
  /\ UNCHANGED <<begun, run, socket, port, result, rules, procs, history>>

\* wait() returned, or try_wait found the process gone: run_worker_task returns
StopDone(w) ==
  /\ ~Alive(w)
  /\ \E from \in {"stop", "terminating", "killing"} : ReturnFrom(w, from)
  /\ UNCHANGED <<begun, rules, procs, history>>

\* stop_timeout_ms is over: SIGKILL and wait again
TermTimeout(w) ==
  /\ Goto(w, "terminating", "killing")
  /\ UNCHANGED <<begun, run, socket, port, result, rules, procs, history>>

\* an I/O error of try_wait or wait, or the second timeout: StopFailed
StopFails(w) ==
  /\ \E from \in {"stop", "terminating", "killing"} : ReturnFrom(w, from)
  /\ notStopped' = notStopped \cup {Run(w)}
  /\ UNCHANGED <<begun, rules, procs, notRemoved>>

Proceed(w) ==
  \/ SpawnNfqws(w) \/ SpawnFails(w)
  \/ GraceOver(w) \/ ExitedEarly(w) \/ GraceWaitFails(w)
  \/ InstallRule(w) \/ InstallFails(w)
  \/ EndProbe(w)
  \/ RemoveRule(w) \/ RemoveFails(w)
  \/ StopAlive(w) \/ StopDone(w) \/ TermTimeout(w) \/ StopFails(w)

Finished ==
  /\ begun = MaxRuns
  /\ \A w \in Workers : step[w] = "idle"
  /\ UNCHANGED vars

Next ==
  \/ /\ ProcessDies \/ \E w \in Workers : \/ PrepareSocket(w) \/ PrepareMarked(w)
                                       \/ PrepareFails(w) \/ Proceed(w)
     /\ UNCHANGED manager
  \/ Finished

Spec == Init /\ [][Next]_vars

-----------------------------------------------------------------------------
(***************************************************************************)
(* Properties.                                                             *)
(***************************************************************************)

RuleDue(w) == perTaskRule /\ step[w] \in {"probe", "remove"}

\* the queue the kernel sends w's packets to: the first rule of its port decides
RoutedTo(w) == rules[CHOOSE i \in SamePort(w) : \A j \in SamePort(w) : i <= j].queue

\* the newest rule for w's port is its own: the rule it installed for this run
OwnsNewest(w) == \E i \in Equal(w) : \A j \in SamePort(w) : j <= i

\* While a worker probes from a port of its own, the rule it installed for that port
\* is in the chain: no other worker's cleanup takes it away, as long as a removal
\* finds the rule it looks for and no other, as iptables' does.
ProbeHasRule ==
  \A w \in Workers : perTaskRule /\ step[w] = "probe" =>
    /\ socket[w] = port[w]
    /\ manager = "iptables" => OwnsNewest(w)

\* What nft's loose matching can do to a probe: its rule is only ever taken by a
\* removal of a worker that had the same port before it and whose own rule has been
\* taken - which takes three workers given one port in turn - or by one whose port is
\* the beginning of the probe's, digit for digit, and whose own rules, if any are left,
\* are newer than the probe's.
ProbeKeepsRule ==
  [][\A w \in Workers :
       step[w] = "probe" /\ step'[w] = "probe" /\ OwnsNewest(w) /\ ~OwnsNewest(w)' =>
         \E v \in Workers \ {w} :
           /\ manager = "nft"
           /\ step[v] = "remove" /\ step'[v] = "stop"
           /\ \/ port[v] = port[w] /\ Equal(v) = {}
              \/ /\ <<port[v], port[w]>> \in Begins
                 /\ \A i \in SamePort(w), j \in Equal(v) : i < j]_vars

\* Every path out of a strategy run removes one rule if it installed one: the chain
\* holds one for each removal that failed or, its rule taken by a loose match of
\* another worker, found nothing, and one for each probe.
RulesAccounted ==
  Len(rules) = Cardinality(notRemoved) + Cardinality({w \in Workers : RuleDue(w)})

\* Every path out of a strategy run stops its nfqws2: one that outlives its run
\* is one whose stop or whose wait failed.
ProcessesAccounted ==
  \A p \in procs :
    \/ p = Run(p[1]) /\ step[p[1]] # "spawn"
    \/ p \in notStopped

\* A run that failed in its setup says nothing about its strategy: it gets a verdict
\* on it only out of a probe, with a rule that leads the packets of
\* its socket to its nfqws2 unless a loose match took it
\* (src/docs/async_worker_lifecycle.md:17).
VerdictNeedsSetup ==
  [][\A w \in Workers :
       result'[w] = "verdict" /\ result[w] # "verdict" =>
         step[w] = "probe" /\ (manager = "iptables" => OwnsNewest(w))]_vars

\* src/README.md:15: "NFQUEUE isolation per active task": the packets of a probe
\* go to the queue of its worker.
ProbeReachesOwnQueue ==
  perTaskRule => \A w \in Workers : step[w] = "probe" => RoutedTo(w) = w
=============================================================================
