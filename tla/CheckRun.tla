------------------------------ MODULE CheckRun ------------------------------
(***************************************************************************)
(* The check command (src/main.rs) over several invocations, one after the *)
(* other: baseline, firewall set-up, strategy graph and state file loaded, *)
(* the pool, the scores, the state file rewritten in place, clean-up.      *)
(* A signal cancels the run, a kill ends the process between any two       *)
(* steps, and most steps can fail with an early return.                    *)
(*                                                                         *)
(* What outlives the process is kept apart from what dies with it: the nft *)
(* table, the rules, the nfqws2 processes and the state file stay.         *)
(*                                                                         *)
(* The pool is WorkerPool's matter: here a worker takes any strategy left, *)
(* tries it against every target, and reports it. A worker's run is        *)
(* WorkerLifecycle's matter: here a run is set up and later undone.        *)
(***************************************************************************)
EXTENDS Naturals, FiniteSets, Sequences

CONSTANTS Strategies,   \* ids of the strategy graph
          Workers,      \* worker tasks of the pool
          Attempts,     \* targets per strategy (domains times test_count)
          Configs,      \* the configurations considered, a subset of Configurations
          MaxChecks     \* bound: invocations of the command

(* The firewall manager, the state file's extension, [firewall].cleanup_on_* *)
Configurations == [backend : {"nft", "vmap", "iptables"}, format : {"yaml", "json"},
                   atStart : BOOLEAN, atExit : BOOLEAN]

ASSUME CheckAssumption ==
  /\ IsFiniteSet(Strategies) /\ IsFiniteSet(Workers)
  /\ Attempts \in Nat \ {0}      \* test_count = 0 and an empty base_domains are refused
  /\ Configs \subseteq Configurations
  /\ MaxChecks \in Nat

VARIABLES
  config,      \* its configuration
  checks,      \* invocations so far; the current one's number
  phase,       \* where the current invocation is; "off" between invocations
  ending,      \* how the last invocation ended
  cancelled,   \* its shutdown token
  baseline,    \* what its baseline probe said
  posteriors,  \* its BayesianState
  todo,        \* strategies no worker has taken
  job,         \* what each worker does
  results,     \* attempts of the strategies the pool has reported
  table,       \* kernel: the nft table exists
  rules,       \* kernel: rules, by the invocation and worker they belong to
  procs,       \* nfqws2 processes, likewise
  file,        \* the state file
  saved,       \* history: what completed saves have reported, per strategy
  everTorn,    \* history: a write of the state file was cut short
  unclean      \* history: a removal, a stop or a clean-up of this invocation failed

Memory  == <<baseline, posteriors, todo, job, results>>
process == <<phase, ending, cancelled, Memory>>
control == <<config, checks, phase, ending, cancelled, baseline, posteriors>>
kernel  == <<table, rules, procs>>
history == <<saved, everTorn, unclean>>
vars    == <<config, checks, process, kernel, file, history>>

-----------------------------------------------------------------------------
(* A posterior counts what was added to alpha and to beta; a timeout's 0.7  *)
(* and another failure's 1.0 are both one loss. tests is their sum.         *)
Posterior == [wins : Nat, losses : Nat]
Untested  == [s \in Strategies |-> [wins |-> 0, losses |-> 0]]

Outcomes == {"success", "failure", "infra", "cancelled"}
Idle == [stage |-> "idle"]
Jobs == {Idle} \cup [stage : {"between", "probing", "doomed"},
                     strategy : Strategies,
                     attempts : UNION {[1 .. n -> Outcomes] : n \in 0 .. Attempts}]

Phases == {"off", "baseline", "setup", "graph", "load", "pool", "join",
           "save", "write", "cleanup", "exit"}
Endings == {"none", "ok", "skipped", "error", "killed"}

(* A state file is absent, readable, or cut so that it does not parse. base *)
(* says that a YAML file still has its keys other than the posteriors.      *)
Absent == [kind |-> "absent", base |-> FALSE, posteriors |-> Untested]
Readable(base, p) == [kind |-> "readable", base |-> base, posteriors |-> p]
Torn == [kind |-> "torn", base |-> FALSE, posteriors |-> Untested]

(* What a write that does not finish can leave. JSON cut short never parses *)
(* (the text ends with the brace it starts with); YAML may, as what is left *)
(* of it: no base keys, or not all entries, or nothing at all.              *)
CutShort(base, p) ==
  {Torn} \cup
  IF config.format = "json" THEN {}
  ELSE {Readable(b /\ base, [s \in Strategies |-> IF s \in kept THEN p[s] ELSE Untested[s]]) :
          b \in BOOLEAN, kept \in SUBSET Strategies}

TypeOK ==
  /\ config \in Configs
  /\ checks \in 0 .. MaxChecks
  /\ phase \in Phases /\ ending \in Endings
  /\ cancelled \in BOOLEAN
  /\ baseline \in {"none", "reachable", "unreachable", "infra", "cancelled"}
  /\ posteriors \in [Strategies -> Posterior]
  /\ todo \subseteq Strategies
  /\ job \in [Workers -> Jobs]
  /\ results \in [Strategies -> {<<>>} \cup [1 .. Attempts -> Outcomes]]
  /\ table \in BOOLEAN
  /\ rules \subseteq (1 .. MaxChecks) \X Workers
  /\ procs \subseteq (1 .. MaxChecks) \X Workers
  /\ file \in [kind : {"absent", "readable", "torn"}, base : BOOLEAN,
               posteriors : [Strategies -> Posterior]]
  /\ saved \in [Strategies -> Posterior]
  /\ everTorn \in BOOLEAN /\ unclean \in BOOLEAN

Init ==
  /\ config \in Configs
  /\ checks = 0
  /\ phase = "off" /\ ending = "none"
  /\ cancelled = FALSE
  /\ baseline = "none"
  /\ posteriors = Untested
  /\ todo = {}
  /\ job = [w \in Workers |-> Idle]
  /\ results = [s \in Strategies |-> <<>>]
  /\ table = FALSE /\ rules = {} /\ procs = {}
  /\ file \in {Absent} \cup (IF config.format = "yaml" THEN {Readable(TRUE, Untested)} ELSE {})
  /\ saved = Untested
  /\ everTorn = FALSE /\ unclean = FALSE

-----------------------------------------------------------------------------
(* The process ends and its memory goes: tasks are dropped with the runtime,*)
(* what they left in the kernel stays (no child is spawned kill_on_drop).   *)
End(how) ==
  /\ phase' = "off"
  /\ ending' = how
  /\ baseline' = "none"
  /\ posteriors' = Untested
  /\ todo' = {}
  /\ job' = [w \in Workers |-> Idle]
  /\ results' = [s \in Strategies |-> <<>>]

StartCheck ==
  /\ phase = "off" /\ checks < MaxChecks
  /\ checks' = checks + 1
  /\ phase' = "baseline"
  /\ ending' = "none"
  /\ cancelled' = FALSE
  /\ todo' = Strategies
  /\ unclean' = FALSE
  /\ UNCHANGED <<config, baseline, posteriors, job, results, kernel, file, saved, everTorn>>

(* Ctrl-C or SIGTERM; a further signal finds the token cancelled.           *)
Cancel ==
  /\ phase # "off" /\ ~cancelled
  /\ cancelled' = TRUE
  /\ UNCHANGED <<config, checks, phase, ending, Memory, kernel, file, history>>

(* SIGKILL or a crash. A write in progress stays as far as it got.          *)
Kill ==
  /\ phase # "off"
  /\ End("killed")
  /\ everTorn' = (everTorn \/ phase = "write")
  /\ IF phase = "write" THEN file' \in CutShort(file.base, posteriors) ELSE file' = file
  /\ UNCHANGED <<config, checks, cancelled, kernel, saved, unclean>>

SkipsStrategies(b) == b \in {"infra", "cancelled"}

RunBaseline ==
  /\ phase = "baseline"
  /\ \E b \in {"reachable", "unreachable", "infra"} \cup
              (IF cancelled THEN {"cancelled"} ELSE {}) :
       IF SkipsStrategies(b) THEN End("skipped")
       ELSE /\ baseline' = b
            /\ phase' = "setup"
            /\ UNCHANGED <<ending, posteriors, todo, job, results>>
  /\ UNCHANGED <<config, checks, cancelled, kernel, file, history>>

(* No nfqws2 binary, a missing library path or a payload refused.           *)
ValidationFails ==
  /\ phase = "setup"
  /\ End("error")
  /\ UNCHANGED <<config, checks, cancelled, kernel, file, history>>

(* cleanup_on_start may fail, and nobody looks.                             *)
StartDeletes == IF config.atStart THEN BOOLEAN ELSE {FALSE}

(* nft: every command's failure is ignored, so the table may be missing     *)
(* afterwards. vmap: a failed script ends the command. iptables: nothing.   *)
SetupFirewall ==
  /\ phase = "setup"
  /\ \/ /\ config.backend = "iptables"
        /\ phase' = "graph"
        /\ UNCHANGED <<ending, Memory, table, rules>>
     \/ /\ config.backend = "nft"
        /\ phase' = "graph"
        /\ \E deleted \in StartDeletes, made \in BOOLEAN :
             /\ table' = (made \/ (table /\ ~deleted))
             /\ rules' = IF deleted THEN {} ELSE rules
        /\ UNCHANGED <<ending, Memory>>
     \/ /\ config.backend = "vmap"
        /\ table' = TRUE
        /\ phase' = "graph"
        /\ UNCHANGED <<ending, Memory, rules>>
     \/ /\ config.backend = "vmap"
        /\ \E deleted \in StartDeletes : table' = (table /\ ~deleted)
        /\ End("error")
        /\ UNCHANGED rules
  /\ UNCHANGED <<config, checks, cancelled, procs, file, history>>

LoadGraph ==
  /\ phase = "graph"
  /\ \/ phase' = "load" /\ UNCHANGED <<ending, Memory>>
     \/ End("error")
  /\ UNCHANGED <<config, checks, cancelled, kernel, file, history>>

(* A mutant: what does not parse is taken for an empty state, as save does. *)
LoadStateOrDefault ==
  /\ phase = "load"
  /\ posteriors' = file.posteriors
  /\ phase' = "pool"
  /\ UNCHANGED <<config, checks, ending, cancelled, baseline, todo, job, results, kernel, file,
                 history>>

(* A file that does not parse ends the command, with the table in place.    *)
LoadState ==
  /\ phase = "load"
  /\ \/ /\ file # Torn
        /\ posteriors' = file.posteriors
        /\ phase' = "pool"
        /\ UNCHANGED <<ending, baseline, todo, job, results>>
     \/ End("error")                             \* unparsable or unreadable
  /\ UNCHANGED <<config, checks, cancelled, kernel, file, history>>

-----------------------------------------------------------------------------
(* The pool. Once run() has returned ("save" and later) a worker whose      *)
(* handle timed out is detached and goes on until the process ends.         *)
Running == phase \in {"pool", "join", "save", "write", "cleanup", "exit"}
Busy(w) == job[w] # Idle

TakeStrategy(w) ==
  /\ phase = "pool" /\ ~cancelled /\ ~Busy(w)
  /\ \E s \in todo :
       /\ todo' = todo \ {s}
       /\ job' = [job EXCEPT ![w] = [stage |-> "between", strategy |-> s, attempts |-> <<>>]]
  /\ UNCHANGED <<control, results, kernel, file, history>>

(* A mutant: a rule whose table is missing counts as installed.             *)
BeginAttemptAnyway(w) ==
  /\ Running /\ Busy(w) /\ job[w].stage = "between"
  /\ Len(job[w].attempts) < Attempts
  /\ rules' = IF config.backend = "vmap" THEN rules ELSE rules \cup {<<checks, w>>}
  /\ procs' = procs \cup {<<checks, w>>}
  /\ job' = [job EXCEPT ![w].stage = IF cancelled THEN "doomed" ELSE "probing"]
  /\ UNCHANGED <<control, todo, results, table, file, history>>

(* Socket, nfqws2 and rule in place. A cancelled token does not keep the    *)
(* worker from the next target: it sets up, and the probe returns at once.  *)
BeginAttempt(w) ==
  /\ Running /\ Busy(w) /\ job[w].stage = "between"
  /\ Len(job[w].attempts) < Attempts
  /\ config.backend = "nft" => table
  /\ rules' = IF config.backend = "vmap" THEN rules ELSE rules \cup {<<checks, w>>}
  /\ procs' = procs \cup {<<checks, w>>}
  /\ job' = [job EXCEPT ![w].stage = IF cancelled THEN "doomed" ELSE "probing"]
  /\ UNCHANGED <<control, todo, results, table, file, history>>

Attempted(w, outcome) ==
  job' = [job EXCEPT ![w].stage = "between", ![w].attempts = Append(@, outcome)]

(* A mutant: a target is tried again after an infrastructure failure,       *)
(* without an end.                                                          *)
AttemptNotSetUpRepeats(w) ==
  /\ Running /\ Busy(w) /\ job[w].stage = "between"
  /\ Attempted(w, "infra")
  /\ UNCHANGED <<control, todo, results, kernel, file, history>>

(* bind, nfqws2 or the rule failed. A process that was started is stopped   *)
(* again, unless its stop fails or try_wait did.                            *)
AttemptNotSetUp(w) ==
  /\ Running /\ Busy(w) /\ job[w].stage = "between"
  /\ Len(job[w].attempts) < Attempts
  /\ Attempted(w, "infra")
  /\ \/ UNCHANGED <<procs, unclean>>
     \/ procs' = procs \cup {<<checks, w>>} /\ unclean' = TRUE
  /\ UNCHANGED <<control, todo, results, table, rules, file, saved, everTorn>>

(* The probe's outcome; then the rule is removed and nfqws2 stopped, each   *)
(* of which may fail without an effect on the outcome.                      *)
EndAttempt(w) ==
  /\ Running /\ Busy(w) /\ job[w].stage \in {"probing", "doomed"}
  /\ \E outcome \in IF job[w].stage = "doomed" THEN {"cancelled"}
                    ELSE {"success", "failure", "infra"} \cup
                         (IF cancelled THEN {"cancelled"} ELSE {}) :
       Attempted(w, outcome)
  /\ \E removed \in BOOLEAN, stopped \in BOOLEAN :
       /\ rules' = IF removed THEN rules \ {<<checks, w>>} ELSE rules
       /\ procs' = IF stopped THEN procs \ {<<checks, w>>} ELSE procs
       /\ unclean' = (unclean \/ ~removed \/ ~stopped)
  /\ UNCHANGED <<control, todo, results, table, file, saved, everTorn>>

(* Every target is tried, also after a failure. The result reaches the      *)
(* collector while it still reads, and is lost afterwards.                  *)
ReportStrategy(w) ==
  /\ Running /\ Busy(w) /\ job[w].stage = "between"
  /\ Len(job[w].attempts) = Attempts
  /\ job' = [job EXCEPT ![w] = Idle]
  /\ results' = IF phase = "pool" THEN [results EXCEPT ![job[w].strategy] = job[w].attempts]
                                  ELSE results
  /\ UNCHANGED <<control, todo, kernel, file, history>>

(* A mutant: the last attempt decides.                                      *)
LastResult(attempts) == attempts[Len(attempts)]

(* run_strategy_tests: the first attempt that is no success, else the last. *)
Result(attempts) ==
  LET failures == {i \in DOMAIN attempts : attempts[i] # "success"}
  IN  IF failures = {} THEN attempts[Len(attempts)]
      ELSE attempts[CHOOSE i \in failures : \A k \in failures : i <= k]

(* Without a cancellation every worker has exited when the results end; the *)
(* success limit may have stopped them before all strategies were taken.    *)
AllReported ==
  /\ phase = "pool" /\ ~cancelled
  /\ \A w \in Workers : ~Busy(w)
  /\ todo = {} \/ \E s \in Strategies : results[s] # <<>> /\ Result(results[s]) = "success"
  /\ phase' = "join"
  /\ UNCHANGED <<config, checks, ending, cancelled, Memory, kernel, file, history>>

(* With one, collecting ends with the workers or with the drain's timeout.  *)
DrainEnds ==
  /\ phase = "pool" /\ cancelled
  /\ phase' = "join"
  /\ UNCHANGED <<config, checks, ending, cancelled, Memory, kernel, file, history>>

-----------------------------------------------------------------------------
(* should_update_strategy_score, and BayesianState::update.                 *)
Update(p, result) ==
  [wins   |-> p.wins + (IF result = "success" THEN 1 ELSE 0),
   losses |-> p.losses + (IF result = "failure" THEN 1 ELSE 0)]

(* run() returns: the workers have exited, or the join's timeouts expired.  *)
(* finalize_results scores every reported strategy.                         *)
FinalizeResults ==
  /\ phase = "join"
  /\ phase' = "save"
  /\ posteriors' = [s \in Strategies |->
                      IF results[s] = <<>> THEN posteriors[s]
                      ELSE Update(posteriors[s], Result(results[s]))]
  /\ UNCHANGED <<config, checks, ending, cancelled, baseline, todo, job, results, kernel, file,
                 history>>

(* The directory is made and, for YAML, the file read again.                *)
BeginSave ==
  /\ phase = "save"
  /\ \/ phase' = "write" /\ UNCHANGED <<ending, Memory>>
     \/ End("error")
  /\ UNCHANGED <<config, checks, cancelled, kernel, file, history>>

(* What the saved state should have learnt of a strategy, from its attempts:*)
(* a win if every target answered, a loss if the first that did not was the *)
(* strategy's fault.                                                        *)
Learnt(attempts) ==
  [wins   |-> IF attempts # <<>> /\ \A i \in DOMAIN attempts : attempts[i] = "success"
                THEN 1 ELSE 0,
   losses |-> IF \E i \in DOMAIN attempts :
                   /\ attempts[i] = "failure"
                   /\ \A k \in 1 .. (i - 1) : attempts[k] = "success" THEN 1 ELSE 0]

EndSave ==
  /\ phase = "write"
  /\ phase' = "cleanup"
  /\ file' = Readable(file.base, posteriors)
  /\ saved' = [s \in Strategies |->
                 [wins   |-> saved[s].wins + Learnt(results[s]).wins,
                  losses |-> saved[s].losses + Learnt(results[s]).losses]]
  /\ UNCHANGED <<config, checks, ending, cancelled, Memory, kernel, everTorn, unclean>>

(* A full disk, say: the write ends early, and so does the command.         *)
WriteFails ==
  /\ phase = "write"
  /\ file' \in CutShort(file.base, posteriors)
  /\ everTorn' = TRUE
  /\ End("error")
  /\ UNCHANGED <<config, checks, cancelled, kernel, saved, unclean>>

(* cleanup_all with cleanup_on_exit. nft's failure is ignored.              *)
CleanUp ==
  /\ phase = "cleanup"
  /\ phase' = "exit"
  /\ IF config.atExit /\ config.backend # "iptables"
     THEN \/ table' = FALSE /\ rules' = {} /\ UNCHANGED unclean
          \/ table /\ unclean' = TRUE /\ UNCHANGED <<table, rules>>
     ELSE UNCHANGED <<table, rules, unclean>>
  /\ UNCHANGED <<config, checks, ending, cancelled, Memory, procs, file, saved, everTorn>>

(* The report is printed and main returns.                                  *)
Exit ==
  /\ phase = "exit"
  /\ End("ok")
  /\ UNCHANGED <<config, checks, cancelled, kernel, file, history>>

(* The cleanup subcommand, between invocations.                             *)
CleanupCommand ==
  /\ phase = "off" /\ table /\ config.backend # "iptables"
  /\ table' = FALSE /\ rules' = {}
  /\ UNCHANGED <<config, checks, process, procs, file, history>>

Work(w) == TakeStrategy(w) \/ BeginAttempt(w) \/ AttemptNotSetUp(w) \/ EndAttempt(w)
           \/ ReportStrategy(w)

Main == RunBaseline \/ ValidationFails \/ SetupFirewall \/ LoadGraph \/ LoadState
        \/ AllReported \/ DrainEnds \/ FinalizeResults \/ BeginSave \/ EndSave \/ WriteFails
        \/ CleanUp \/ Exit

Next == StartCheck \/ Cancel \/ Kill \/ Main \/ CleanupCommand \/ \E w \in Workers : Work(w)

Spec == Init /\ [][Next]_vars

-----------------------------------------------------------------------------
(* Over any number of invocations, and whatever ended each of them, the     *)
(* state file holds exactly what completed saves reported: nothing is       *)
(* counted twice, lost, or learnt from an attempt that infrastructure or a  *)
(* signal spoilt - unless a write was once cut short.                       *)
SavedAsReported ==
  ~everTorn => file.posteriors = saved

(* Nobody recovers from a state file that does not parse: every later       *)
(* invocation ends before its pool starts, so save's fallback to an empty   *)
(* mapping is never reached and the file stays as it is.                    *)
TornFileStopsChecks == file = Torn => ~Running

(* An invocation that ended regularly and saw no failing command leaves     *)
(* nothing behind: with nft no table and no rule, though detached workers   *)
(* go on during the clean-up; and unless it was cancelled, no rule and no   *)
(* process of its own with any backend.                                     *)
RegularEndLeavesNothing ==
  phase = "off" /\ ending = "ok" /\ ~unclean =>
    /\ config.atExit /\ config.backend # "iptables" => ~table /\ rules = {}
    /\ ~cancelled => \A w \in Workers : <<checks, w>> \notin rules \cup procs

(* README.md: a full check should not punish the scores if the baseline     *)
(* cannot connect or times out. The code runs the strategies all the same   *)
(* (the failure is a TargetFailure) and counts their failures.              *)
UnreachableNotPunished ==
  baseline = "unreachable" /\ phase = "cleanup" =>
    \A s \in Strategies : Learnt(results[s]).losses = 0
=============================================================================
