---------------------------- MODULE CheckRunProofs ----------------------------
(***************************************************************************)
(* Theorems about the check command, for every configuration, number of    *)
(* invocations and set of strategies and workers.                          *)
(***************************************************************************)
EXTENDS CheckRun, FiniteSetTheorems, SequenceTheorems, TLAPS

\* A readable file is not a cut one, whatever it says.
LEMMA ReadableIsNotTorn ==
  ASSUME NEW base, NEW p
  PROVE  Readable(base, p) # Torn
  BY DEF Readable, Torn

\* A worker's step changes neither the phase nor the state file.
LEMMA WorkKeepsFile ==
  ASSUME NEW w \in Workers, Work(w)
  PROVE  UNCHANGED <<phase, file>>
  <1>1. CASE TakeStrategy(w)
    BY <1>1 DEF TakeStrategy, control
  <1>2. CASE BeginAttempt(w)
    BY <1>2 DEF BeginAttempt, control
  <1>3. CASE AttemptNotSetUp(w)
    BY <1>3 DEF AttemptNotSetUp, control
  <1>4. CASE EndAttempt(w)
    BY <1>4 DEF EndAttempt, control
  <1>5. CASE ReportStrategy(w)
    BY <1>5 DEF ReportStrategy, control
  <1> QED
    BY <1>1, <1>2, <1>3, <1>4, <1>5 DEF Work

\* A step of main leaves an invocation that runs with a file that parses.
LEMMA MainKeepsOutTorn ==
  ASSUME TornFileStopsChecks, Main
  PROVE  TornFileStopsChecks'
  <1> USE DEF TornFileStopsChecks, Running, End
  <1>1. CASE RunBaseline
    BY <1>1 DEF RunBaseline
  <1>2. CASE ValidationFails
    BY <1>2 DEF ValidationFails
  <1>3. CASE SetupFirewall
    <2>1. phase' \in {"graph", "off"}
      BY <1>3 DEF SetupFirewall
    <2> QED
      BY <2>1
  <1>4. CASE LoadGraph
    BY <1>4 DEF LoadGraph
  <1>5. CASE LoadState
    <2>1. CASE file # Torn
      BY <1>5, <2>1 DEF LoadState, Torn
    <2>2. CASE phase' = "off"
      BY <2>2
    <2> QED
      BY <1>5, <2>1, <2>2 DEF LoadState
  <1>6. CASE AllReported
    BY <1>6 DEF AllReported, Torn
  <1>7. CASE DrainEnds
    BY <1>7 DEF DrainEnds, Torn
  <1>8. CASE FinalizeResults
    BY <1>8 DEF FinalizeResults, Torn
  <1>9. CASE BeginSave
    BY <1>9 DEF BeginSave, Torn
  <1>10. CASE EndSave
    <2>1. file' = Readable(file.base, posteriors)
      BY <1>10 DEF EndSave
    <2>2. file' # Torn'
      BY <2>1, ReadableIsNotTorn DEF Readable, Torn
    <2> QED
      BY <2>2
  <1>11. CASE WriteFails
    BY <1>11 DEF WriteFails
  <1>12. CASE CleanUp
    BY <1>12 DEF CleanUp, Torn
  <1>13. CASE Exit
    BY <1>13 DEF Exit
  <1> QED
    BY <1>1, <1>2, <1>3, <1>4, <1>5, <1>6, <1>7, <1>8, <1>9, <1>10, <1>11, <1>12, <1>13
       DEF Main

\* An invocation that gets as far as its pool has a state file that parses, in
\* every later step too: LoadState refuses a cut one, and only a write that
\* ends the process cuts it. So save never meets a file that does not parse.
THEOREM TornFileIsRefused == Spec => []TornFileStopsChecks
  <1>1. Init => TornFileStopsChecks
    BY DEF Init, TornFileStopsChecks, Running
  <1>2. TornFileStopsChecks /\ [Next]_vars => TornFileStopsChecks'
    <2> SUFFICES ASSUME TornFileStopsChecks, [Next]_vars
                 PROVE  TornFileStopsChecks'
      OBVIOUS
    <2>1. CASE StartCheck
      BY <2>1 DEF StartCheck, TornFileStopsChecks, Running
    <2>2. CASE Cancel
      BY <2>2 DEF Cancel, TornFileStopsChecks, Running, Torn
    <2>3. CASE Kill
      BY <2>3 DEF Kill, End, TornFileStopsChecks, Running
    <2>4. CASE Main
      BY <2>4, MainKeepsOutTorn
    <2>5. CASE CleanupCommand
      BY <2>5 DEF CleanupCommand, process, TornFileStopsChecks, Running
    <2>6. ASSUME NEW w \in Workers, Work(w)
          PROVE  TornFileStopsChecks'
      BY <2>6, WorkKeepsFile DEF TornFileStopsChecks, Running, Torn
    <2>7. CASE UNCHANGED vars
      BY <2>7 DEF vars, process, TornFileStopsChecks, Running, Torn
    <2> QED
      BY <2>1, <2>2, <2>3, <2>4, <2>5, <2>6, <2>7 DEF Next
  <1> QED
    BY <1>1, <1>2, PTL DEF Spec

-----------------------------------------------------------------------------
(***************************************************************************)
(* Type correctness.  A worker that probes has a target left to report on, *)
(* and what is in the kernel belongs to an invocation that has begun.      *)
(***************************************************************************)

Files == [kind : {"absent", "readable", "torn"}, base : BOOLEAN,
          posteriors : [Strategies -> Posterior]]

CheckInv ==
  /\ TypeOK
  /\ \A w \in Workers : job[w].stage \in {"probing", "doomed"} =>
                        job[w] # Idle /\ Len(job[w].attempts) < Attempts
  /\ phase # "off" => checks >= 1
  /\ rules \cup procs \subseteq (1 .. checks) \X Workers

LEMMA FilesTyped ==
  /\ Untested \in [Strategies -> Posterior]
  /\ Absent \in Files /\ Torn \in Files
  /\ \A base \in BOOLEAN, p \in [Strategies -> Posterior] :
       Readable(base, p) \in Files /\ CutShort(base, p) \subseteq Files
  <1>1. Untested \in [Strategies -> Posterior]
    BY DEF Untested, Posterior
  <1>2. \A base \in BOOLEAN, p \in [Strategies -> Posterior] : Readable(base, p) \in Files
    BY DEF Readable, Files
  <1>3. Absent \in Files /\ Torn \in Files
    BY <1>1 DEF Absent, Torn, Files
  <1>4. ASSUME NEW base \in BOOLEAN, NEW p \in [Strategies -> Posterior],
               NEW f \in CutShort(base, p)
        PROVE  f \in Files
    <2>1. CASE f = Torn
      BY <1>3, <2>1
    <2>2. CASE f # Torn
      <3>1. PICK b \in BOOLEAN, kept \in SUBSET Strategies :
              f = Readable(b /\ base, [s \in Strategies |-> IF s \in kept THEN p[s] ELSE Untested[s]])
        BY <1>4, <2>2 DEF CutShort
      <3>2. [s \in Strategies |-> IF s \in kept THEN p[s] ELSE Untested[s]]
              \in [Strategies -> Posterior]
        BY <1>1
      <3>3. (b /\ base) \in BOOLEAN
        OBVIOUS
      <3> QED
        BY <1>2, <3>1, <3>2, <3>3
    <2> QED
      BY <2>1, <2>2
  <1> QED
    BY <1>1, <1>2, <1>3, <1>4

\* the attempts of a busy worker
LEMMA BusyJob ==
  ASSUME NEW j \in Jobs, j # Idle
  PROVE  /\ j.stage \in {"between", "probing", "doomed"} /\ j.strategy \in Strategies
         /\ j = [stage |-> j.stage, strategy |-> j.strategy, attempts |-> j.attempts]
         /\ j.attempts \in Seq(Outcomes) /\ Len(j.attempts) \in 0 .. Attempts
         /\ j.attempts \in [1 .. Len(j.attempts) -> Outcomes]
  <1> DEFINE lists == UNION {[1 .. n -> Outcomes] : n \in 0 .. Attempts}
  <1>1. j \in [stage : {"between", "probing", "doomed"}, strategy : Strategies, attempts : lists]
    BY DEF Jobs
  <1>2. j.attempts \in lists
    BY <1>1
  <1>3. PICK n \in 0 .. Attempts : j.attempts \in [1 .. n -> Outcomes]
    BY <1>2
  <1>4. n \in Nat
    BY CheckAssumption
  <1> HIDE DEF lists
  <1>5. j.attempts \in Seq(Outcomes) /\ Len(j.attempts) = n
    BY <1>3, <1>4
  <1> QED
    BY <1>1, <1>3, <1>5

LEMMA JobMade ==
  ASSUME NEW stage \in {"between", "probing", "doomed"}, NEW s \in Strategies,
         NEW a \in Seq(Outcomes), Len(a) <= Attempts
  PROVE  [stage |-> stage, strategy |-> s, attempts |-> a] \in Jobs
  <1>1. a \in [1 .. Len(a) -> Outcomes] /\ Len(a) \in 0 .. Attempts
    BY LenProperties, CheckAssumption
  <1>2. a \in UNION {[1 .. n -> Outcomes] : n \in 0 .. Attempts}
    BY <1>1
  <1> QED
    BY <1>2 DEF Jobs

LEMMA CheckInvInit == Init => CheckInv
  <1> SUFFICES ASSUME Init PROVE CheckInv
    OBVIOUS
  <1>1. job \in [Workers -> Jobs] /\ \A w \in Workers : job[w].stage = "idle"
    BY DEF Init, Jobs, Idle
  <1>2. file \in Files /\ saved \in [Strategies -> Posterior]
        /\ posteriors \in [Strategies -> Posterior]
    BY FilesTyped DEF Init
  <1>3. results \in [Strategies -> {<<>>} \cup [1 .. Attempts -> Outcomes]]
    BY DEF Init
  <1>4. checks \in 0 .. MaxChecks
    BY CheckAssumption DEF Init
  <1> QED
    BY <1>1, <1>2, <1>3, <1>4 DEF Init, CheckInv, TypeOK, Files, Phases, Endings

\* what a process leaves when it ends is typed
LEMMA EndTyped ==
  ASSUME CheckInv, NEW how \in Endings, End(how), UNCHANGED <<config, checks>>,
         cancelled' \in BOOLEAN, table' \in BOOLEAN, rules' \subseteq rules, procs' = procs,
         file' \in Files, saved' = saved, everTorn' \in BOOLEAN, unclean' = unclean
  PROVE  CheckInv'
  <1>1. job' \in [Workers -> Jobs] /\ \A w \in Workers : job'[w].stage = "idle"
    BY DEF End, Jobs, Idle
  <1>2. posteriors' \in [Strategies -> Posterior]
    BY FilesTyped DEF End
  <1>3. results' \in [Strategies -> {<<>>} \cup [1 .. Attempts -> Outcomes]]
    BY DEF End
  <1> QED
    BY <1>1, <1>2, <1>3 DEF CheckInv, TypeOK, End, Files, Phases

\* a step of main that keeps the jobs, the results and the kernel's processes
LEMMA MainTyped ==
  ASSUME CheckInv, UNCHANGED <<config, checks, cancelled, todo, job, results, procs, everTorn>>,
         phase # "off", phase' \in Phases, ending' = ending,
         baseline' \in {"none", "reachable", "unreachable", "infra", "cancelled"},
         posteriors' \in [Strategies -> Posterior], table' \in BOOLEAN, rules' \subseteq rules,
         file' \in Files, saved' \in [Strategies -> Posterior], unclean' \in BOOLEAN
  PROVE  CheckInv'
  BY DEF CheckInv, TypeOK, Files

LEMMA CheckInvMain ==
  ASSUME CheckInv, Main
  PROVE  CheckInv'
  <1> USE DEF Memory, kernel, history
  <1>1. /\ TypeOK /\ file \in Files /\ {"ok", "skipped", "error"} \subseteq Endings
        /\ config \in Configurations
    BY CheckAssumption DEF CheckInv, TypeOK, Files, Endings
  <1>2. CASE RunBaseline
    <2>1. CASE End("skipped")
      BY <1>1, <1>2, <2>1, EndTyped DEF RunBaseline, TypeOK
    <2>2. CASE ~End("skipped")
      <3>1. /\ baseline' \in {"reachable", "unreachable", "infra", "cancelled"}
            /\ phase' = "setup"
        BY <1>2, <2>2 DEF RunBaseline
      <3>2. phase # "off" /\ UNCHANGED <<ending, posteriors, todo, job, results>>
        BY <1>2, <2>2 DEF RunBaseline
      <3> QED
        BY <1>1, <1>2, <3>1, <3>2, MainTyped DEF RunBaseline, TypeOK, Phases
    <2> QED
      BY <2>1, <2>2
  <1>3. CASE ValidationFails
    BY <1>1, <1>3, EndTyped DEF ValidationFails, TypeOK
  <1>4. CASE SetupFirewall
    <2>1. CASE End("error")
      <3>1. table' \in BOOLEAN /\ rules' \subseteq rules
        BY <1>1, <1>4, <2>1 DEF SetupFirewall, TypeOK
      <3> QED
        BY <1>1, <1>4, <2>1, <3>1, EndTyped DEF SetupFirewall, TypeOK
    <2>2. CASE ~End("error")
      <3>1. table' \in BOOLEAN /\ rules' \subseteq rules /\ phase' = "graph" /\ phase # "off"
        BY <1>1, <1>4, <2>2 DEF SetupFirewall, TypeOK
      <3>2. UNCHANGED <<ending, baseline, posteriors, todo, job, results>>
        BY <1>4, <2>2 DEF SetupFirewall
      <3> QED
        BY <1>1, <1>4, <3>1, <3>2, MainTyped DEF SetupFirewall, TypeOK, Phases
    <2> QED
      BY <2>1, <2>2
  <1>5. CASE LoadGraph
    <2>1. CASE End("error")
      BY <1>1, <1>5, <2>1, EndTyped DEF LoadGraph, TypeOK
    <2>2. CASE ~End("error")
      BY <1>1, <1>5, <2>2, MainTyped DEF LoadGraph, TypeOK, Phases
    <2> QED
      BY <2>1, <2>2
  <1>6. CASE LoadState
    <2>1. CASE End("error")
      BY <1>1, <1>6, <2>1, EndTyped DEF LoadState, TypeOK
    <2>2. CASE ~End("error")
      BY <1>1, <1>6, <2>2, MainTyped DEF LoadState, TypeOK, Phases, Files
    <2> QED
      BY <2>1, <2>2
  <1>7. CASE AllReported \/ DrainEnds
    BY <1>1, <1>7, MainTyped DEF AllReported, DrainEnds, TypeOK, Phases
  <1>8. CASE FinalizeResults
    <2>1. posteriors' \in [Strategies -> Posterior]
      <3>1. \A s \in Strategies : posteriors[s] \in Posterior
                                 /\ Update(posteriors[s], Result(results[s])) \in Posterior
        BY <1>1 DEF TypeOK, Update, Posterior
      <3> QED
        BY <1>8, <3>1 DEF FinalizeResults
    <2> QED
      BY <1>1, <1>8, <2>1, MainTyped DEF FinalizeResults, TypeOK, Phases
  <1>9. CASE BeginSave
    <2>1. CASE End("error")
      BY <1>1, <1>9, <2>1, EndTyped DEF BeginSave, TypeOK
    <2>2. CASE ~End("error")
      BY <1>1, <1>9, <2>2, MainTyped DEF BeginSave, TypeOK, Phases
    <2> QED
      BY <2>1, <2>2
  <1>10. CASE EndSave
    <2>1. file' \in Files
      BY <1>1, <1>10, FilesTyped DEF EndSave, TypeOK, Files
    <2>2. saved' \in [Strategies -> Posterior]
      <3>1. \A s \in Strategies : saved[s].wins \in Nat /\ saved[s].losses \in Nat
        BY <1>1 DEF TypeOK, Posterior
      <3>2. \A s \in Strategies :
              Learnt(results[s]).wins \in Nat /\ Learnt(results[s]).losses \in Nat
        BY DEF Learnt
      <3> QED
        BY <1>10, <3>1, <3>2 DEF EndSave, Posterior
    <2> QED
      BY <1>1, <1>10, <2>1, <2>2, MainTyped DEF EndSave, TypeOK, Phases
  <1>11. CASE WriteFails
    <2>1. file' \in Files
      BY <1>1, <1>11, FilesTyped DEF WriteFails, TypeOK, Files
    <2> QED
      BY <1>1, <1>11, <2>1, EndTyped DEF WriteFails, TypeOK
  <1>12. CASE CleanUp
    <2>1. table' \in BOOLEAN /\ rules' \subseteq rules /\ unclean' \in BOOLEAN
      BY <1>1, <1>12 DEF CleanUp, TypeOK
    <2> QED
      BY <1>1, <1>12, <2>1, MainTyped DEF CleanUp, TypeOK, Phases
  <1>13. CASE Exit
    BY <1>1, <1>13, EndTyped DEF Exit, TypeOK
  <1> QED
    BY <1>2, <1>3, <1>4, <1>5, <1>6, <1>7, <1>8, <1>9, <1>10, <1>11, <1>12, <1>13 DEF Main

\* a worker's step puts a job in the place of its job
LEMMA WorkTyped ==
  ASSUME CheckInv, NEW w \in Workers, Running, NEW j \in Jobs, job' = [job EXCEPT ![w] = j],
         j.stage \in {"probing", "doomed"} => j # Idle /\ Len(j.attempts) < Attempts,
         UNCHANGED <<config, checks, phase, ending, cancelled, baseline, posteriors, table, file,
                     saved, everTorn>>,
         todo' \subseteq todo, unclean' \in BOOLEAN,
         results' \in [Strategies -> {<<>>} \cup [1 .. Attempts -> Outcomes]],
         rules' \subseteq rules \cup {<<checks, w>>}, procs' \subseteq procs \cup {<<checks, w>>}
  PROVE  CheckInv'
  <1>1. checks \in 1 .. MaxChecks /\ checks \in 1 .. checks
    BY CheckAssumption DEF CheckInv, TypeOK, Running
  <1>2. /\ rules' \cup procs' \subseteq (1 .. checks) \X Workers
        /\ rules' \subseteq (1 .. MaxChecks) \X Workers
        /\ procs' \subseteq (1 .. MaxChecks) \X Workers
    BY <1>1 DEF CheckInv, TypeOK
  <1>3. job' \in [Workers -> Jobs]
    BY DEF CheckInv, TypeOK
  <1>4. TypeOK'
    BY <1>2, <1>3 DEF CheckInv, TypeOK
  <1>5. \A v \in Workers : job'[v] = IF v = w THEN j ELSE job[v]
    BY DEF CheckInv, TypeOK
  <1> QED
    BY <1>2, <1>4, <1>5 DEF CheckInv

LEMMA JobChanged ==
  ASSUME NEW r, NEW stage, NEW a,
         r = [stage |-> r.stage, strategy |-> r.strategy, attempts |-> r.attempts]
  PROVE  [r EXCEPT !.stage = stage, !.attempts = a]
           = [stage |-> stage, strategy |-> r.strategy, attempts |-> a]
  <1> DEFINE q == [r EXCEPT !.stage = stage]
             p == [r EXCEPT !.stage = stage, !.attempts = a]
  <1>1. q = [stage |-> stage, strategy |-> r.strategy, attempts |-> r.attempts]
    OBVIOUS
  <1>2. p = [q EXCEPT !.attempts = a]
    OBVIOUS
  <1> HIDE DEF q
  <1>3. [q EXCEPT !.attempts = a] = [stage |-> stage, strategy |-> r.strategy, attempts |-> a]
    BY <1>1
  <1> QED
    BY <1>2, <1>3

\* the job an attempt leaves: the same strategy, one outcome more
LEMMA AttemptedJob ==
  ASSUME CheckInv, NEW w \in Workers, NEW outcome \in Outcomes, Busy(w),
         Len(job[w].attempts) < Attempts, Attempted(w, outcome)
  PROVE  \E j \in Jobs : j.stage = "between" /\ job' = [job EXCEPT ![w] = j]
  <1> DEFINE a == Append(job[w].attempts, outcome)
             j == [stage |-> "between", strategy |-> job[w].strategy, attempts |-> a]
  <1>1. job[w] \in Jobs /\ job[w] # Idle
    BY DEF CheckInv, TypeOK, Busy
  <1>2. /\ job[w].strategy \in Strategies /\ job[w].attempts \in Seq(Outcomes)
        /\ Len(job[w].attempts) \in 0 .. Attempts
        /\ job[w] = [stage |-> job[w].stage, strategy |-> job[w].strategy,
                     attempts |-> job[w].attempts]
    BY <1>1, BusyJob
  <1>3. a \in Seq(Outcomes) /\ Len(a) <= Attempts
    BY <1>2, CheckAssumption
  <1>4. job' = [job EXCEPT ![w] = j]
    <2> HIDE DEF a
    <2>1. job' = [job EXCEPT ![w].stage = "between", ![w].attempts = a]
      BY DEF Attempted, a
    <2>2. [job[w] EXCEPT !.stage = "between", !.attempts = a] = j
      BY <1>2, JobChanged
    <2> QED
      BY <2>1, <2>2
  <1> HIDE DEF a
  <1>5. j \in Jobs
    BY <1>2, <1>3, JobMade
  <1> QED
    BY <1>4, <1>5

LEMMA CheckInvWork ==
  ASSUME CheckInv, NEW w \in Workers, Work(w)
  PROVE  CheckInv'
  <1> USE DEF control, kernel, history
  <1>1. TypeOK /\ Attempts \in Nat \ {0} /\ job[w] \in Jobs
    BY CheckAssumption DEF CheckInv, TypeOK
  <1>2. CASE TakeStrategy(w)
    <2>1. PICK s \in todo :
            /\ todo' = todo \ {s}
            /\ job' = [job EXCEPT ![w] = [stage |-> "between", strategy |-> s, attempts |-> <<>>]]
      BY <1>2 DEF TakeStrategy
    <2>2. s \in Strategies /\ <<>> \in Seq(Outcomes) /\ Len(<<>>) <= Attempts
      BY <1>1 DEF TypeOK
    <2>3. [stage |-> "between", strategy |-> s, attempts |-> <<>>] \in Jobs
      BY <2>2, JobMade
    <2>4. Running
      BY <1>2 DEF TakeStrategy, Running
    <2> QED
      BY <1>1, <1>2, <2>1, <2>3, <2>4, WorkTyped DEF TakeStrategy, TypeOK
  <1>3. CASE BeginAttempt(w)
    <2> DEFINE stage == IF cancelled THEN "doomed" ELSE "probing"
               j == [stage |-> stage, strategy |-> job[w].strategy, attempts |-> job[w].attempts]
    <2>1. job[w] # Idle /\ Len(job[w].attempts) < Attempts
      BY <1>3 DEF BeginAttempt, Busy
    <2>2. /\ job[w].strategy \in Strategies /\ job[w].attempts \in Seq(Outcomes)
          /\ job[w] = [stage |-> job[w].stage, strategy |-> job[w].strategy,
                       attempts |-> job[w].attempts]
      BY <1>1, <2>1, BusyJob
    <2>3. j \in Jobs
      BY <1>1, <2>1, <2>2, JobMade
    <2>4. job' = [job EXCEPT ![w] = j]
      <3>1. [job[w] EXCEPT !.stage = stage] = j
        BY <2>2
      <3>2. job' = [job EXCEPT ![w].stage = stage]
        BY <1>3 DEF BeginAttempt
      <3> QED
        BY <3>1, <3>2
    <2>5. j # Idle /\ j.attempts = job[w].attempts /\ j.stage \in {"probing", "doomed"}
      <3>1. j.stage \in {"probing", "doomed"} /\ Idle.stage = "idle"
        BY DEF Idle
      <3> QED
        BY <3>1
    <2> HIDE DEF j
    <2> QED
      BY <1>1, <1>3, <2>1, <2>3, <2>4, <2>5, WorkTyped DEF BeginAttempt, TypeOK
  <1>4. CASE AttemptNotSetUp(w)
    <2>1. PICK j \in Jobs : j.stage = "between" /\ job' = [job EXCEPT ![w] = j]
      BY <1>4, AttemptedJob DEF AttemptNotSetUp, Outcomes
    <2> QED
      BY <1>1, <1>4, <2>1, WorkTyped DEF AttemptNotSetUp, TypeOK
  <1>5. CASE EndAttempt(w)
    <2>1. Len(job[w].attempts) < Attempts /\ Busy(w)
      BY <1>5 DEF EndAttempt, CheckInv, Busy
    <2>2. \E outcome \in Outcomes : Attempted(w, outcome)
      BY <1>5 DEF EndAttempt, Outcomes
    <2>3. PICK j \in Jobs : j.stage = "between" /\ job' = [job EXCEPT ![w] = j]
      BY <2>1, <2>2, AttemptedJob
    <2>4. rules' \subseteq rules /\ procs' \subseteq procs /\ unclean' \in BOOLEAN
      BY <1>1, <1>5 DEF EndAttempt, TypeOK
    <2> QED
      BY <1>1, <1>5, <2>3, <2>4, WorkTyped DEF EndAttempt, TypeOK
  <1>6. CASE ReportStrategy(w)
    <2>1. job[w] # Idle /\ Len(job[w].attempts) = Attempts
      BY <1>6 DEF ReportStrategy, Busy
    <2>2. job[w].strategy \in Strategies /\ job[w].attempts \in [1 .. Attempts -> Outcomes]
      BY <1>1, <2>1, BusyJob
    <2>3. results' \in [Strategies -> {<<>>} \cup [1 .. Attempts -> Outcomes]]
      BY <1>1, <1>6, <2>2 DEF ReportStrategy, TypeOK
    <2>4. Idle \in Jobs /\ Idle.stage = "idle"
      BY DEF Jobs, Idle
    <2> HIDE DEF Idle
    <2> QED
      BY <1>1, <1>6, <2>3, <2>4, WorkTyped DEF ReportStrategy, TypeOK
  <1> QED
    BY <1>2, <1>3, <1>4, <1>5, <1>6 DEF Work

LEMMA CheckInvStep == CheckInv /\ [Next]_vars => CheckInv'
  <1> SUFFICES ASSUME CheckInv, [Next]_vars PROVE CheckInv'
    OBVIOUS
  <1> USE DEF process, Memory, kernel, history
  <1>1. TypeOK /\ file \in Files
    BY DEF CheckInv, TypeOK, Files
  <1>2. CASE StartCheck
    <2>1. checks' \in 0 .. MaxChecks /\ checks' >= 1 /\ 1 .. checks \subseteq 1 .. checks'
      BY <1>1, <1>2, CheckAssumption DEF StartCheck, TypeOK
    <2>2. rules' \cup procs' \subseteq (1 .. checks') \X Workers
      BY <1>2, <2>1 DEF StartCheck, CheckInv
    <2>3. TypeOK'
      BY <1>1, <1>2, <2>1 DEF StartCheck, TypeOK, Phases, Endings
    <2> QED
      BY <1>2, <2>1, <2>2, <2>3 DEF StartCheck, CheckInv
  <1>3. CASE Cancel
    BY <1>1, <1>3 DEF Cancel, CheckInv, TypeOK
  <1>4. CASE Kill
    <2>1. file' \in Files /\ everTorn' \in BOOLEAN
      BY <1>1, <1>4, FilesTyped DEF Kill, TypeOK, Files
    <2>2. "killed" \in Endings
      BY DEF Endings
    <2> QED
      BY <1>1, <1>4, <2>1, <2>2, EndTyped DEF Kill, TypeOK
  <1>5. CASE Main
    BY <1>5, CheckInvMain
  <1>6. CASE CleanupCommand
    BY <1>1, <1>6 DEF CleanupCommand, CheckInv, TypeOK
  <1>7. CASE \E w \in Workers : Work(w)
    BY <1>7, CheckInvWork
  <1>8. CASE UNCHANGED vars
    BY <1>1, <1>8 DEF vars, CheckInv, TypeOK
  <1> QED
    BY <1>2, <1>3, <1>4, <1>5, <1>6, <1>7, <1>8 DEF Next

LEMMA CheckInvariant == Spec => []CheckInv
  BY CheckInvInit, CheckInvStep, PTL DEF Spec

\* Whatever fails, is cancelled or is killed, and over any number of invocations, every
\* variable keeps its type: a reported strategy has an outcome for each of its targets.
THEOREM CheckTypeCorrect == Spec => []TypeOK
  <1>1. CheckInv => TypeOK
    BY DEF CheckInv
  <1> QED
    BY <1>1, CheckInvariant, PTL

-----------------------------------------------------------------------------
(***************************************************************************)
(* The state file.  What the scores learn from a result is what the        *)
(* attempts show: the first that is no success settles the strategy.       *)
(***************************************************************************)

\* There is a first failure: were each preceded by another, the numbers of those before
\* them would be different for all of them, and there are too few.
LEMMA FirstExists ==
  ASSUME NEW n \in Nat, NEW S \in SUBSET (1 .. n), S # {}
  PROVE  \E m \in S : \A k \in S : m <= k
  <1> SUFFICES ASSUME \A m \in S : \E k \in S : k < m PROVE FALSE
    OBVIOUS
  <1>0. S \subseteq Int /\ IsFiniteSet(1 .. n)
    BY FS_Interval
  <1>1. IsFiniteSet(S) /\ Cardinality(S) \in Nat /\ Cardinality(S) # 0
    BY <1>0, FS_Subset, FS_CardinalityType, FS_EmptySet
  <1> DEFINE below(m) == {k \in S : k < m}
             f == [m \in S |-> Cardinality(below(m))]
  <1>2. ASSUME NEW m \in S
        PROVE  /\ Cardinality(below(m)) \in 1 .. (Cardinality(S) - 1)
               /\ IsFiniteSet(below(m))
    <2>1. below(m) \in SUBSET S /\ below(m) # {} /\ below(m) # S
      OBVIOUS
    <2> HIDE DEF below
    <2>2. IsFiniteSet(below(m)) /\ Cardinality(below(m)) <= Cardinality(S)
          /\ Cardinality(below(m)) # Cardinality(S)
      BY <1>1, <2>1, FS_Subset
    <2>3. Cardinality(below(m)) \in Nat /\ Cardinality(below(m)) # 0
      BY <2>1, <2>2, FS_CardinalityType, FS_EmptySet
    <2> QED
      BY <1>1, <2>2, <2>3
  <1>3. ASSUME NEW a \in S, NEW b \in S, a < b
        PROVE  Cardinality(below(a)) # Cardinality(below(b))
    <2>1. \A k \in S : k \in Int
      BY <1>0
    <2>2. a \in below(b) /\ a \notin below(a) /\ \A k \in below(a) : k \in below(b)
      BY <1>3, <2>1
    <2>3. below(a) \in SUBSET below(b) /\ below(a) # below(b)
      BY <2>2
    <2> HIDE DEF below
    <2> QED
      BY <1>2, <2>3, FS_Subset
  <1>4. f \in [S -> 1 .. (Cardinality(S) - 1)]
    BY <1>2
  <1>5. IsFiniteSet(1 .. (Cardinality(S) - 1))
        /\ Cardinality(1 .. (Cardinality(S) - 1)) < Cardinality(S)
    <2> DEFINE c == Cardinality(S) - 1
    <2>1. c \in Int /\ c >= 0
      BY <1>1
    <2> HIDE DEF c
    <2>2. IsFiniteSet(1 .. c) /\ Cardinality(1 .. c) = IF 1 > c THEN 0 ELSE c - 1 + 1
      BY <2>1, FS_Interval
    <2>3. Cardinality(1 .. c) = c
      BY <2>1, <2>2
    <2> QED
      BY <1>1, <2>2, <2>3 DEF c
  <1> HIDE DEF below
  <1>6. \A a, b \in S : f[a] = f[b] => a = b
    BY <1>3
  <1> HIDE DEF f
  <1>7. \E a, b \in S : a # b /\ f[a] = f[b]
    BY <1>1, <1>4, <1>5, FS_PigeonHole
  <1> QED
    BY <1>6, <1>7

Counted(p, attempts) == [wins   |-> p.wins + Learnt(attempts).wins,
                         losses |-> p.losses + Learnt(attempts).losses]

LEMMA ScoredAsLearnt ==
  ASSUME NEW p \in Posterior, NEW a \in [1 .. Attempts -> Outcomes]
  PROVE  Update(p, Result(a)) = Counted(p, a)
  <1> DEFINE failures == {i \in DOMAIN a : a[i] # "success"}
  <1>1. Attempts \in Nat \ {0} /\ DOMAIN a = 1 .. Attempts /\ a # <<>>
        /\ Len(a) = Attempts /\ p.wins \in Nat /\ p.losses \in Nat
    BY CheckAssumption DEF Posterior
  <1>2. CASE failures = {}
    <2>1. \A i \in 1 .. Attempts : a[i] = "success"
      BY <1>1, <1>2
    <2>2. Result(a) = a[Attempts] /\ a[Attempts] = "success"
      BY <1>1, <1>2, <2>1 DEF Result
    <2>3. Learnt(a) = [wins |-> 1, losses |-> 0]
      BY <1>1, <2>1 DEF Learnt
    <2> QED
      BY <1>1, <2>2, <2>3 DEF Update, Counted
  <1>3. CASE failures # {}
    <2>1. \E i \in failures : \A k \in failures : i <= k
      BY <1>1, <1>3, FirstExists
    <2> DEFINE first == CHOOSE i \in failures : \A k \in failures : i <= k
    <2>2. first \in failures /\ \A k \in failures : first <= k
      BY <2>1
    <2>3. Result(a) = a[first]
      BY <1>3 DEF Result
    <2> HIDE DEF first
    <2>4. /\ first \in 1 .. Attempts /\ a[first] # "success"
          /\ \A k \in 1 .. Attempts : a[k] # "success" => first <= k
      BY <1>1, <2>2
    <2>5. \A k \in 1 .. (first - 1) : a[k] = "success"
      BY <1>1, <2>4
    <2>6. ASSUME NEW i \in 1 .. Attempts, a[i] = "failure",
                 \A k \in 1 .. (i - 1) : a[k] = "success"
          PROVE  i = first
      <3>1. first <= i /\ ~(first \in 1 .. (i - 1))
        BY <2>4, <2>6
      <3> QED
        BY <1>1, <2>4, <3>1
    <2>7. (\E i \in DOMAIN a : /\ a[i] = "failure"
                              /\ \A k \in 1 .. (i - 1) : a[k] = "success")
            <=> a[first] = "failure"
      BY <1>1, <2>4, <2>5, <2>6
    <2>8. ~(a # <<>> /\ \A i \in DOMAIN a : a[i] = "success")
      BY <1>1, <2>4
    <2>9. Learnt(a) = [wins |-> 0, losses |-> IF a[first] = "failure" THEN 1 ELSE 0]
      BY <2>7, <2>8 DEF Learnt
    <2> QED
      BY <1>1, <2>3, <2>4, <2>9 DEF Update, Counted
  <1> QED
    BY <1>2, <1>3

\* a strategy that was not reported teaches nothing
LEMMA NothingLearnt ==
  ASSUME NEW p \in Posterior
  PROVE  Counted(p, <<>>) = p
  <1>1. Learnt(<<>>) = [wins |-> 0, losses |-> 0]
    BY DEF Learnt
  <1> QED
    BY <1>1 DEF Counted, Posterior

(***************************************************************************)
(* From loading to finalize_results the posteriors are the file's; from    *)
(* there to the write they are the file's with the results counted, and    *)
(* the results are no longer written to.                                   *)
(***************************************************************************)
SavedInv ==
  /\ SavedAsReported
  /\ phase \in {"pool", "join"} => posteriors = file.posteriors
  /\ phase \in {"save", "write"} =>
       posteriors = [s \in Strategies |-> Counted(file.posteriors[s], results[s])]

LEMMA SavedInvMain ==
  ASSUME CheckInv, SavedInv, Main
  PROVE  SavedInv'
  <1> USE DEF Memory, kernel, history, SavedInv, SavedAsReported
  <1>1. TypeOK
    BY DEF CheckInv
  <1>2. CASE RunBaseline \/ ValidationFails \/ SetupFirewall \/ LoadGraph
    BY <1>2 DEF RunBaseline, ValidationFails, SetupFirewall, LoadGraph, End
  <1>3. CASE LoadState
    BY <1>3 DEF LoadState, End
  <1>4. CASE AllReported \/ DrainEnds
    BY <1>4 DEF AllReported, DrainEnds
  <1>5. CASE FinalizeResults
    <2>1. \A s \in Strategies :
            /\ posteriors[s] \in Posterior /\ posteriors = file.posteriors
            /\ results[s] = <<>> \/ results[s] \in [1 .. Attempts -> Outcomes]
      BY <1>1, <1>5 DEF FinalizeResults, TypeOK
    <2>2. \A s \in Strategies :
            (IF results[s] = <<>> THEN posteriors[s] ELSE Update(posteriors[s], Result(results[s])))
              = Counted(file.posteriors[s], results[s])
      BY <2>1, ScoredAsLearnt, NothingLearnt
    <2>3. posteriors' = [s \in Strategies |-> Counted(file.posteriors[s], results[s])]
      BY <1>5, <2>2 DEF FinalizeResults
    <2> QED
      BY <1>5, <2>3 DEF FinalizeResults
  <1>6. CASE BeginSave
    BY <1>6 DEF BeginSave, End
  <1>7. CASE EndSave
    <2>1. file'.posteriors = posteriors
      BY <1>7 DEF EndSave, Readable
    <2>2. ~everTorn =>
            saved' = [s \in Strategies |-> Counted(file.posteriors[s], results[s])]
      BY <1>7 DEF EndSave, Counted
    <2> QED
      BY <1>7, <2>1, <2>2 DEF EndSave
  <1>8. CASE WriteFails
    BY <1>8 DEF WriteFails, End
  <1>9. CASE CleanUp \/ Exit
    BY <1>9 DEF CleanUp, Exit, End
  <1> QED
    BY <1>2, <1>3, <1>4, <1>5, <1>6, <1>7, <1>8, <1>9 DEF Main

LEMMA SavedInvWork ==
  ASSUME SavedInv, NEW w \in Workers, Work(w)
  PROVE  SavedInv'
  <1> USE DEF control, kernel, history
  <1>1. /\ UNCHANGED <<phase, posteriors, file, saved, everTorn>>
        /\ phase # "pool" => results' = results
    BY DEF Work, TakeStrategy, BeginAttempt, AttemptNotSetUp, EndAttempt, ReportStrategy
  <1> QED
    BY <1>1 DEF SavedInv, SavedAsReported

LEMMA SavedInvStep == CheckInv /\ SavedInv /\ [Next]_vars => SavedInv'
  <1> SUFFICES ASSUME CheckInv, SavedInv, [Next]_vars PROVE SavedInv'
    OBVIOUS
  <1> USE DEF process, Memory, kernel, history
  <1>1. CASE StartCheck \/ Cancel \/ CleanupCommand \/ UNCHANGED vars
    BY <1>1 DEF StartCheck, Cancel, CleanupCommand, vars, SavedInv, SavedAsReported
  <1>2. CASE Kill
    BY <1>2 DEF Kill, End, SavedInv, SavedAsReported
  <1> QED
    BY <1>1, <1>2, SavedInvMain, SavedInvWork DEF Next

\* Whatever is cancelled or killed, the state file counts each reported strategy once and
\* for what its attempts show, unless a write was cut short.
THEOREM FileHoldsWhatWasReported == Spec => []SavedAsReported
  <1>1. Init => SavedInv
    BY DEF Init, SavedInv, SavedAsReported, Absent, Readable
  <1>2. SavedInv => SavedAsReported
    BY DEF SavedInv
  <1> QED
    BY <1>1, <1>2, SavedInvStep, CheckInvariant, PTL DEF Spec

-----------------------------------------------------------------------------
(***************************************************************************)
(* What is left behind.  While nothing has failed, a rule or a process of  *)
(* this invocation belongs to a worker that probes; uncancelled, the       *)
(* workers are idle once the pool has ended; and after a clean-up no       *)
(* worker can add a rule: with nft there is no table to add it to, with    *)
(* the verdict map no worker ever adds one.                                *)
(***************************************************************************)
LeftInv ==
  /\ phase # "off" /\ ~unclean =>
       \A w \in Workers : <<checks, w>> \in rules \cup procs =>
                           job[w].stage \in {"probing", "doomed"}
  /\ phase \in {"join", "save", "write", "cleanup", "exit"} /\ ~cancelled =>
       \A w \in Workers : ~Busy(w)
  /\ phase = "exit" /\ ~unclean /\ config.atExit /\ config.backend # "iptables" =>
       ~table /\ rules = {}
  /\ RegularEndLeavesNothing

LEMMA LeftInvMain ==
  ASSUME CheckInv, LeftInv, Main
  PROVE  LeftInv'
  <1> USE DEF Memory, kernel, history, LeftInv, Busy
  <1>1. CASE End("error") \/ End("skipped")
    BY <1>1 DEF End, RegularEndLeavesNothing
  <1>2. ASSUME ~End("error"), ~End("skipped"),
               RunBaseline \/ SetupFirewall \/ LoadGraph \/ LoadState
        PROVE  LeftInv'
    <2>1. /\ phase' \in {"setup", "graph", "load", "pool"} /\ phase # "off"
          /\ rules' \subseteq rules /\ UNCHANGED <<checks, procs, job, unclean>>
      BY <1>2 DEF RunBaseline, SetupFirewall, LoadGraph, LoadState, CheckInv, TypeOK
    <2> QED
      BY <2>1 DEF RegularEndLeavesNothing
  <1>3. CASE AllReported
    BY <1>3 DEF AllReported, RegularEndLeavesNothing
  <1>4. CASE DrainEnds
    BY <1>4 DEF DrainEnds, RegularEndLeavesNothing
  <1>5. ASSUME ~End("error"), FinalizeResults \/ BeginSave \/ EndSave
        PROVE  LeftInv'
    <2>1. /\ phase \in {"join", "save", "write"} /\ phase' \in {"save", "write", "cleanup"}
          /\ UNCHANGED <<checks, cancelled, rules, procs, job, unclean>>
      BY <1>5 DEF FinalizeResults, BeginSave, EndSave
    <2> QED
      BY <2>1 DEF RegularEndLeavesNothing
  <1>6. CASE CleanUp
    <2>1. /\ phase = "cleanup" /\ phase' = "exit"
          /\ UNCHANGED <<config, checks, cancelled, procs, job>>
          /\ ~unclean' => ~unclean /\ rules' \subseteq rules
          /\ ~unclean' /\ config.atExit /\ config.backend # "iptables" =>
               ~table' /\ rules' = {}
      BY <1>6 DEF CleanUp
    <2> QED
      BY <2>1 DEF RegularEndLeavesNothing
  <1>7. CASE Exit
    <2>1. /\ phase = "exit" /\ phase' = "off"
          /\ UNCHANGED <<config, checks, cancelled, table, rules, procs, unclean>>
      BY <1>7 DEF Exit, End
    <2>2. ~unclean /\ ~cancelled => \A w \in Workers : <<checks, w>> \notin rules \cup procs
      BY <2>1 DEF Idle
    <2> QED
      BY <2>1, <2>2 DEF RegularEndLeavesNothing
  <1>8. ValidationFails => End("error")
    BY DEF ValidationFails
  <1>9. WriteFails => End("error")
    BY DEF WriteFails
  <1> QED
    BY <1>1, <1>2, <1>3, <1>4, <1>5, <1>6, <1>7, <1>8, <1>9 DEF Main

LEMMA LeftInvWork ==
  ASSUME CheckInv, LeftInv, NEW w \in Workers, Work(w)
  PROVE  LeftInv'
  <1> USE DEF control, kernel, history
  <1>1. TypeOK /\ config \in Configurations
    BY CheckAssumption DEF CheckInv, TypeOK
  <1>2. /\ UNCHANGED <<config, checks, phase, cancelled, table>> /\ phase # "off"
        /\ \A v \in Workers \ {w} : /\ job'[v] = job[v]
                                    /\ <<checks, v>> \in rules' \cup procs' =>
                                         <<checks, v>> \in rules \cup procs
        /\ unclean => unclean'
    BY <1>1 DEF Work, TakeStrategy, BeginAttempt, AttemptNotSetUp, EndAttempt, ReportStrategy,
                Attempted, Running, TypeOK
  <1>3. ~unclean' /\ <<checks, w>> \in rules' \cup procs' => job'[w].stage \in {"probing", "doomed"}
    <2>1. CASE TakeStrategy(w)
      BY <1>1, <1>2, <2>1 DEF TakeStrategy, LeftInv, Busy, Idle
    <2>2. CASE BeginAttempt(w)
      <3>1. job'[w].stage = IF cancelled THEN "doomed" ELSE "probing"
        <4>1. job[w] = [stage |-> job[w].stage, strategy |-> job[w].strategy,
                        attempts |-> job[w].attempts]
          BY <1>1, <2>2, BusyJob DEF BeginAttempt, Busy, TypeOK
        <4> QED
          BY <1>1, <2>2, <4>1 DEF BeginAttempt, TypeOK
      <3> QED
        BY <3>1
    <2>3. CASE AttemptNotSetUp(w)
      BY <1>2, <2>3 DEF AttemptNotSetUp, LeftInv
    <2>4. CASE EndAttempt(w)
      BY <2>4 DEF EndAttempt
    <2>5. CASE ReportStrategy(w)
      BY <1>2, <2>5 DEF ReportStrategy, LeftInv
    <2> QED
      BY <1>2, <2>1, <2>2, <2>3, <2>4, <2>5 DEF Work
  <1>4. phase \in {"join", "save", "write", "cleanup", "exit"} => Busy(w)
    BY DEF Work, TakeStrategy, BeginAttempt, AttemptNotSetUp, EndAttempt, ReportStrategy
  <1>5. ~unclean' /\ phase = "exit" /\ config.atExit /\ config.backend # "iptables" =>
          ~table' /\ rules' = {}
    <2>1. rules = {} /\ ~table /\ config.backend # "iptables" => rules' = {}
      BY <1>1 DEF Work, TakeStrategy, BeginAttempt, AttemptNotSetUp, EndAttempt, ReportStrategy,
                  Configurations
    <2> QED
      BY <1>2, <2>1 DEF LeftInv
  <1>6. RegularEndLeavesNothing'
    BY <1>2 DEF RegularEndLeavesNothing
  <1> QED
    BY <1>2, <1>3, <1>4, <1>5, <1>6 DEF LeftInv

LEMMA LeftInvStep == CheckInv /\ LeftInv /\ [Next]_vars => LeftInv'
  <1> SUFFICES ASSUME CheckInv, LeftInv, [Next]_vars PROVE LeftInv'
    OBVIOUS
  <1> USE DEF process, Memory, kernel, history
  <1>1. CASE StartCheck
    <2>1. \A w \in Workers : <<checks', w>> \notin rules' \cup procs'
      <3>1. checks \in Nat /\ checks' = checks + 1 /\ UNCHANGED <<rules, procs>>
        BY <1>1, CheckAssumption DEF StartCheck, CheckInv, TypeOK
      <3> QED
        BY <3>1 DEF CheckInv
    <2> QED
      BY <1>1, <2>1 DEF StartCheck, LeftInv, RegularEndLeavesNothing
  <1>2. CASE Cancel
    BY <1>2 DEF Cancel, LeftInv, RegularEndLeavesNothing
  <1>3. CASE Kill
    BY <1>3 DEF Kill, End, LeftInv, RegularEndLeavesNothing
  <1>4. CASE CleanupCommand
    BY <1>4 DEF CleanupCommand, LeftInv, RegularEndLeavesNothing
  <1>5. CASE UNCHANGED vars
    BY <1>5 DEF vars, LeftInv, RegularEndLeavesNothing, Busy
  <1> QED
    BY <1>1, <1>2, <1>3, <1>4, <1>5, LeftInvMain, LeftInvWork DEF Next

\* A check that ends regularly and saw no command fail leaves no table and no rule of nft
\* behind although detached workers go on during the clean-up, and uncancelled none of its
\* rules and processes with any firewall manager.
THEOREM RegularEndIsClean == Spec => []RegularEndLeavesNothing
  <1>1. Init => LeftInv
    BY DEF Init, LeftInv, RegularEndLeavesNothing
  <1>2. LeftInv => RegularEndLeavesNothing
    BY DEF LeftInv
  <1> QED
    BY <1>1, <1>2, LeftInvStep, CheckInvariant, PTL DEF Spec
=============================================================================
