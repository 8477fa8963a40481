------------------------ MODULE WorkerLifecycleProofs ------------------------
(***************************************************************************)
(* Theorems about WorkerLifecycle for every finite set of workers, every   *)
(* set of ports, any number of strategy runs and every manager of rules.   *)
(***************************************************************************)
EXTENDS WorkerLifecycle, FiniteSetTheorems, SequenceTheorems, TLAPS

-----------------------------------------------------------------------------
(***************************************************************************)
(* Sequences: what is left when one element is removed.                    *)
(***************************************************************************)

LEMMA RemoveAtElements ==
  ASSUME NEW S, NEW s \in Seq(S), NEW i \in 1..Len(s)
  PROVE  /\ RemoveAt(s, i) \in Seq(S)
         /\ Len(RemoveAt(s, i)) = Len(s) - 1
         /\ \A j \in 1..(Len(s) - 1) :
              RemoveAt(s, i)[j] = IF j < i THEN s[j] ELSE s[j + 1]
  <1> DEFINE front == SubSeq(s, 1, i - 1)
             back  == SubSeq(s, i + 1, Len(s))
  <1>1. /\ front \in Seq(S) /\ Len(front) = i - 1
        /\ \A j \in 1..(i - 1) : front[j] = s[j]
    BY SubSeqProperties
  <1>2. /\ back \in Seq(S) /\ Len(back) = Len(s) - i
        /\ \A j \in 1..(Len(s) - i) : back[j] = s[i + j]
    BY SubSeqProperties
  <1> HIDE DEF front, back
  <1>3. /\ front \o back \in Seq(S)
        /\ Len(front \o back) = Len(front) + Len(back)
        /\ \A j \in 1..(Len(front) + Len(back)) :
             (front \o back)[j] = IF j <= Len(front) THEN front[j] ELSE back[j - Len(front)]
    BY <1>1, <1>2, ConcatProperties
  <1>4. Len(front \o back) = Len(s) - 1
    BY <1>1, <1>2, <1>3
  <1>5. \A j \in 1..(Len(s) - 1) :
          (front \o back)[j] = IF j < i THEN s[j] ELSE s[j + 1]
    BY <1>1, <1>2, <1>3
  <1> QED
    BY <1>3, <1>4, <1>5 DEF RemoveAt, front, back

-----------------------------------------------------------------------------
(***************************************************************************)
(* The types, and what the variables of a run say of one another.          *)
(***************************************************************************)

\* a worker between runs has nothing of a run left, its runs are numbered, the
\* socket a run holds is the one its rule names, and no two runs hold one
RunsOK ==
  /\ \A w \in Workers : step[w] = "idle" => run[w] = 0
  /\ \A w \in Workers : step[w] # "idle" => run[w] \in 1..begun
  /\ \A w \in Workers : socket[w] # NoPort => port[w] = socket[w]
  /\ \A w \in Workers : perTaskRule /\ step[w] \in {"spawn", "grace", "install", "probe"} =>
                          socket[w] # NoPort
  /\ \A w \in Workers : step[w] \in {"install", "remove"} => perTaskRule
  /\ \A v, w \in Workers : v # w => socket[v] = NoPort \/ socket[v] # socket[w]

LifeInv == TypeOK /\ RunsOK

LEMMA LifeInit == Init => LifeInv
  <1> SUFFICES ASSUME Init PROVE LifeInv
    OBVIOUS
  <1>1. /\ step \in [Workers -> Steps]
        /\ run \in [Workers -> 0..MaxRuns]
        /\ socket \in [Workers -> Ports \cup {NoPort}]
        /\ port \in [Workers -> Ports \cup {NoPort}]
        /\ result \in [Workers -> Outcomes]
        /\ begun \in 0..MaxRuns
    BY LifecycleAssumption DEF Init, Steps, Outcomes
  <1>2. rules \in Seq(Rules)
    BY DEF Init
  <1> QED
    BY <1>1, <1>2 DEF Init, LifeInv, TypeOK, RunsOK

\* setting up
LEMMA LifePrepare ==
  ASSUME LifeInv, NEW w \in Workers, UNCHANGED manager,
         PrepareSocket(w) \/ PrepareMarked(w) \/ PrepareFails(w)
  PROVE  LifeInv'
  <1>1. begun < MaxRuns => begun + 1 \in 1..MaxRuns
    BY LifecycleAssumption DEF LifeInv, TypeOK
  <1>2. CASE PrepareSocket(w)
    <2>1. PICK p \in Ports :
            /\ \A v \in Workers : socket[v] # p
            /\ socket' = [socket EXCEPT ![w] = p]
            /\ port' = [port EXCEPT ![w] = p]
      BY <1>2 DEF PrepareSocket
    <2>2. TypeOK'
      BY <1>1, <1>2, <2>1 DEF PrepareSocket, Goto, BeginRun, Report, LifeInv, TypeOK,
         history, Steps, Outcomes
    <2>3. RunsOK'
      BY <1>1, <1>2, <2>1, LifecycleAssumption DEF PrepareSocket, Goto, BeginRun, Report,
         LifeInv, TypeOK, RunsOK, perTaskRule
    <2> QED
      BY <2>2, <2>3 DEF LifeInv
  <1>3. CASE PrepareMarked(w)
    <2>1. TypeOK'
      BY <1>1, <1>3 DEF PrepareMarked, Goto, BeginRun, Report, LifeInv, TypeOK, history,
         Steps, Outcomes
    <2>2. RunsOK'
      BY <1>1, <1>3 DEF PrepareMarked, Goto, BeginRun, Report, LifeInv, TypeOK, RunsOK,
         perTaskRule
    <2> QED
      BY <2>1, <2>2 DEF LifeInv
  <1>4. CASE PrepareFails(w)
    BY <1>1, <1>4 DEF PrepareFails, LifeInv, TypeOK, RunsOK, perTaskRule, history
  <1> QED
    BY <1>2, <1>3, <1>4

\* a run that returns leaves nothing of it to its worker
LEMMA LifeReturn ==
  ASSUME LifeInv, NEW w \in Workers, UNCHANGED <<manager, begun, rules>>,
         NEW from \in Steps \ {"idle"}, ReturnFrom(w, from),
         procs' \subseteq Runs, notRemoved' \subseteq Runs, notStopped' \subseteq Runs
  PROVE  LifeInv'
  <1>1. TypeOK'
    BY LifecycleAssumption DEF ReturnFrom, Goto, Report, DropSocket, LifeInv, TypeOK, Steps,
       Outcomes
  <1>2. RunsOK'
    BY DEF ReturnFrom, Goto, Report, DropSocket, LifeInv, TypeOK, RunsOK, perTaskRule, NoPort
  <1> QED
    BY <1>1, <1>2 DEF LifeInv

LEMMA RunTyped ==
  ASSUME LifeInv, NEW w \in Workers, step[w] # "idle"
  PROVE  Run(w) \in Runs /\ run[w] \in 1..begun
  BY LifecycleAssumption DEF LifeInv, TypeOK, RunsOK, Run, Runs

\* a step of a run that keeps the socket, the chain and the number of runs
LEMMA LifeMove ==
  ASSUME LifeInv, NEW w \in Workers,
         UNCHANGED <<manager, begun, run, socket, port, result, rules>>,
         NEW from \in Steps \ {"idle"}, NEW to \in Steps \ {"idle"}, Goto(w, from, to),
         to \in {"install", "remove"} => perTaskRule,
         to \in {"spawn", "grace", "install", "probe"} =>
           from \in {"spawn", "grace", "install", "probe"},
         procs' \subseteq Runs, notRemoved' \subseteq Runs, notStopped' \subseteq Runs
  PROVE  LifeInv'
  <1>1. TypeOK'
    BY DEF Goto, LifeInv, TypeOK
  <1>2. RunsOK'
    BY DEF Goto, LifeInv, TypeOK, RunsOK, perTaskRule
  <1> QED
    BY <1>1, <1>2 DEF LifeInv

LEMMA LifeInstall ==
  ASSUME LifeInv, NEW w \in Workers, UNCHANGED manager, InstallRule(w)
  PROVE  LifeInv'
  <1>1. port[w] \in Ports
    BY DEF InstallRule, Goto, LifeInv, TypeOK, RunsOK, perTaskRule
  <1>2. rules' \in Seq(Rules)
    BY <1>1 DEF InstallRule, LifeInv, TypeOK, Rules
  <1>3. TypeOK'
    BY <1>2 DEF InstallRule, Goto, LifeInv, TypeOK, history, Steps
  <1>4. RunsOK'
    BY DEF InstallRule, Goto, LifeInv, TypeOK, RunsOK, perTaskRule
  <1> QED
    BY <1>3, <1>4 DEF LifeInv

LEMMA LifeEndProbe ==
  ASSUME LifeInv, NEW w \in Workers, UNCHANGED manager, EndProbe(w)
  PROVE  LifeInv'
  <1>1. TypeOK'
    BY DEF EndProbe, Goto, Report, DropSocket, LifeInv, TypeOK, history, Steps
  <1>2. RunsOK'
    BY DEF EndProbe, Goto, DropSocket, LifeInv, TypeOK, RunsOK, perTaskRule
  <1> QED
    BY <1>1, <1>2 DEF LifeInv

\* what the removal does to the chain: nothing, or one rule less that matches
LEMMA Removed ==
  ASSUME LifeInv, NEW w \in Workers, RemoveRule(w)
  PROVE  \/ rules' = rules /\ notRemoved' = notRemoved \cup {Run(w)}
         \/ \E i \in SamePort(w) \cup Longer(w) :
              /\ i \in FirstMatches(w) /\ i \in 1..Len(rules)
              /\ rules' = RemoveAt(rules, i)
              /\ notRemoved' = notRemoved
  <1>1. PICK i \in FirstMatches(w) :
          /\ rules' = IF i = 0 THEN rules ELSE RemoveAt(rules, i)
          /\ notRemoved' = IF i = 0 THEN notRemoved \cup {Run(w)} ELSE notRemoved
    BY DEF RemoveRule
  <1>2. DOMAIN rules = 1..Len(rules)
    BY DEF LifeInv, TypeOK
  <1>3. i # 0 => i \in SamePort(w) \cup Longer(w) /\ i \in 1..Len(rules)
    BY <1>2 DEF FirstMatches, Matching, Equal, SamePort, Longer
  <1> QED
    BY <1>1, <1>3

LEMMA LifeRemove ==
  ASSUME LifeInv, NEW w \in Workers, UNCHANGED manager, RemoveRule(w)
  PROVE  LifeInv'
  <1>1. rules' \in Seq(Rules)
    BY Removed, RemoveAtElements DEF LifeInv, TypeOK
  <1>2. notRemoved' \subseteq Runs
    BY Removed, RunTyped DEF RemoveRule, Goto, LifeInv, TypeOK
  <1>3. TypeOK'
    BY <1>1, <1>2 DEF RemoveRule, Goto, LifeInv, TypeOK, Steps
  <1>4. RunsOK'
    BY DEF RemoveRule, Goto, LifeInv, TypeOK, RunsOK, perTaskRule
  <1> QED
    BY <1>3, <1>4 DEF LifeInv

LEMMA LifeProceed ==
  ASSUME LifeInv, NEW w \in Workers, UNCHANGED manager, Proceed(w)
  PROVE  LifeInv'
  <1> USE DEF history
  <1>0. procs \subseteq Runs /\ notRemoved \subseteq Runs /\ notStopped \subseteq Runs
    BY DEF LifeInv, TypeOK
  <1>1. CASE SpawnNfqws(w)
    <2>1. Run(w) \in Runs
      BY <1>1, RunTyped DEF SpawnNfqws, Goto
    <2> QED
      BY <1>0, <1>1, <2>1, LifeMove DEF SpawnNfqws, Steps
  <1>2. CASE SpawnFails(w)
    BY <1>0, <1>2, LifeReturn DEF SpawnFails, Steps
  <1>3. CASE GraceOver(w)
    <2>1. TypeOK'
      BY <1>3 DEF GraceOver, Goto, LifeInv, TypeOK, Steps
    <2>2. RunsOK'
      BY <1>3 DEF GraceOver, Goto, LifeInv, TypeOK, RunsOK, perTaskRule
    <2> QED
      BY <2>1, <2>2 DEF LifeInv
  <1>4. CASE ExitedEarly(w)
    BY <1>0, <1>4, LifeReturn DEF ExitedEarly, Steps
  <1>5. CASE GraceWaitFails(w)
    <2>1. Run(w) \in Runs
      BY <1>5, RunTyped DEF GraceWaitFails, ReturnFrom, Goto
    <2> QED
      BY <1>0, <1>5, <2>1, LifeReturn DEF GraceWaitFails, Steps
  <1>6. CASE InstallRule(w)
    BY <1>6, LifeInstall
  <1>7. CASE InstallFails(w)
    <2>1. TypeOK'
      BY <1>7 DEF InstallFails, Goto, Report, LifeInv, TypeOK, Steps, Outcomes
    <2>2. RunsOK'
      BY <1>7 DEF InstallFails, Goto, LifeInv, TypeOK, RunsOK, perTaskRule
    <2> QED
      BY <2>1, <2>2 DEF LifeInv
  <1>8. CASE EndProbe(w)
    BY <1>8, LifeEndProbe
  <1>9. CASE RemoveRule(w)
    BY <1>9, LifeRemove
  <1>10. CASE RemoveFails(w)
    <2>1. Run(w) \in Runs
      BY <1>10, RunTyped DEF RemoveFails, Goto
    <2> QED
      BY <1>0, <1>10, <2>1, LifeMove DEF RemoveFails, Steps
  <1>11. CASE StopAlive(w)
    BY <1>0, <1>11, LifeMove DEF StopAlive, Steps
  <1>12. CASE StopDone(w)
    <2>1. PICK from \in {"stop", "terminating", "killing"} : ReturnFrom(w, from)
      BY <1>12 DEF StopDone
    <2>2. from \in Steps \ {"idle"}
      BY DEF Steps
    <2> QED
      BY <1>0, <1>12, <2>1, <2>2, LifeReturn DEF StopDone
  <1>13. CASE TermTimeout(w)
    BY <1>0, <1>13, LifeMove DEF TermTimeout, Steps
  <1>14. CASE StopFails(w)
    <2>1. PICK from \in {"stop", "terminating", "killing"} : ReturnFrom(w, from)
      BY <1>14 DEF StopFails
    <2>2. from \in Steps \ {"idle"}
      BY DEF Steps
    <2>3. Run(w) \in Runs
      BY <2>1, RunTyped DEF ReturnFrom, Goto
    <2> QED
      BY <1>0, <1>14, <2>1, <2>2, <2>3, LifeReturn DEF StopFails
  <1> QED
    BY <1>1, <1>2, <1>3, <1>4, <1>5, <1>6, <1>7, <1>8, <1>9, <1>10, <1>11, <1>12, <1>13,
       <1>14 DEF Proceed

LEMMA LifeStep == LifeInv /\ [Next]_vars => LifeInv'
  <1> SUFFICES ASSUME LifeInv, [Next]_vars PROVE LifeInv'
    OBVIOUS
  <1>1. CASE ProcessDies /\ UNCHANGED manager
    BY <1>1 DEF ProcessDies, LifeInv, TypeOK, RunsOK, perTaskRule, history
  <1>2. ASSUME NEW w \in Workers, UNCHANGED manager,
               PrepareSocket(w) \/ PrepareMarked(w) \/ PrepareFails(w)
        PROVE  LifeInv'
    BY <1>2, LifePrepare
  <1>3. ASSUME NEW w \in Workers, UNCHANGED manager, Proceed(w)
        PROVE  LifeInv'
    BY <1>3, LifeProceed
  <1>4. CASE UNCHANGED vars
    BY <1>4 DEF vars, history, LifeInv, TypeOK, RunsOK, perTaskRule
  <1> QED
    BY <1>1, <1>2, <1>3, <1>4 DEF Next, Finished

LEMMA LifeInvariant == Spec => []LifeInv
  BY LifeInit, LifeStep, PTL DEF Spec

\* Every worker and every run of it keep their types: sockets and rules name ports of
\* the kernel, and what is left over belongs to runs that began.
THEOREM LifecycleTypeCorrect == Spec => []TypeOK
  <1>1. LifeInv => TypeOK
    BY DEF LifeInv
  <1> QED
    BY <1>1, LifeInvariant, PTL

-----------------------------------------------------------------------------
(***************************************************************************)
(* Processes.                                                              *)
(***************************************************************************)

LEMMA ProcessesStep == LifeInv /\ ProcessesAccounted /\ [Next]_vars => ProcessesAccounted'
  <1> SUFFICES ASSUME LifeInv, ProcessesAccounted, [Next]_vars,
                      NEW p \in procs'
               PROVE  \/ p = Run(p[1])' /\ step'[p[1]] # "spawn"
                      \/ p \in notStopped'
    BY DEF ProcessesAccounted
  <1> USE DEF history
  <1>1. CASE p \in notStopped
    <2>1. notStopped \subseteq notStopped'
      BY DEF Next, Finished, vars, ProcessDies, PrepareSocket, PrepareMarked, PrepareFails,
         Proceed, SpawnNfqws, SpawnFails, GraceOver, ExitedEarly, GraceWaitFails, InstallRule,
         InstallFails, EndProbe, RemoveRule, RemoveFails, StopAlive, StopDone, TermTimeout,
         StopFails
    <2> QED
      BY <1>1, <2>1
  <1>2. CASE p \in procs /\ p \notin notStopped
    <2>0. /\ p[1] \in Workers /\ p[2] \in 1..MaxRuns
          /\ p = Run(p[1]) /\ step[p[1]] # "spawn"
          /\ run[p[1]] # 0 /\ step[p[1]] # "idle"
      BY <1>2, LifecycleAssumption DEF ProcessesAccounted, LifeInv, TypeOK, Runs, Run, RunsOK
    <2> DEFINE w == p[1]
    <2>1. SUFFICES \/ run'[w] = run[w] /\ step'[w] # "spawn"
                   \/ p \in notStopped'
      BY <2>0 DEF Run
    <2>2. CASE ProcessDies
      BY <2>0, <2>2 DEF ProcessDies
    <2>3. ASSUME NEW v \in Workers,
                 PrepareSocket(v) \/ PrepareMarked(v) \/ PrepareFails(v)
          PROVE  run'[w] = run[w] /\ step'[w] # "spawn"
      BY <2>0, <2>3 DEF PrepareSocket, PrepareMarked, PrepareFails, Goto, BeginRun, LifeInv,
         TypeOK
    <2>4. ASSUME NEW v \in Workers \ {w}, Proceed(v)
          PROVE  run'[w] = run[w] /\ step'[w] # "spawn"
      BY <2>0, <2>4 DEF Proceed, SpawnNfqws, SpawnFails, GraceOver, ExitedEarly,
         GraceWaitFails, InstallRule, InstallFails, EndProbe, RemoveRule, RemoveFails,
         StopAlive, StopDone, TermTimeout, StopFails, ReturnFrom, Goto, LifeInv, TypeOK
    <2>5. ASSUME Proceed(w)
          PROVE  \/ run'[w] = run[w] /\ step'[w] # "spawn"
                 \/ p \in notStopped'
      <3>1. Alive(w) /\ w \in Workers /\ step[w] # "spawn"
        BY <1>2, <2>0 DEF Alive
      <3> QED
        BY <2>0, <2>5, <3>1 DEF Proceed, SpawnNfqws, SpawnFails, GraceOver, ExitedEarly,
           GraceWaitFails, InstallRule, InstallFails, EndProbe, RemoveRule, RemoveFails,
           StopAlive, StopDone, TermTimeout, StopFails, ReturnFrom, Goto, LifeInv, TypeOK
    <2>6. CASE UNCHANGED vars
      BY <2>0, <2>6 DEF vars
    <2> QED
      BY <2>0, <2>2, <2>3, <2>4, <2>5, <2>6 DEF Next, Finished
  <1>3. CASE p \notin procs
    <2>1. PICK w \in Workers : SpawnNfqws(w)
      BY <1>3 DEF Next, Finished, vars, ProcessDies, PrepareSocket, PrepareMarked,
         PrepareFails, Proceed, SpawnFails, GraceOver, ExitedEarly, GraceWaitFails,
         InstallRule, InstallFails, EndProbe, RemoveRule, RemoveFails, StopAlive, StopDone,
         TermTimeout, StopFails
    <2>2. p = Run(w)
      BY <1>3, <2>1 DEF SpawnNfqws
    <2> QED
      BY <2>1, <2>2 DEF SpawnNfqws, Goto, Run, LifeInv, TypeOK
  <1> QED
    BY <1>1, <1>2, <1>3

\* An nfqws2 that outlives its strategy run is one whose stop or whose wait failed.
THEOREM ProcessesAccountedFor == Spec => []ProcessesAccounted
  <1>1. Init => ProcessesAccounted
    BY DEF Init, ProcessesAccounted
  <1> QED
    BY <1>1, LifeInvariant, ProcessesStep, PTL DEF Spec

-----------------------------------------------------------------------------
(***************************************************************************)
(* The rule of a probe.  Only the worker that holds a port appends rules   *)
(* for it, so its own is the newest; a removal takes a rule no newer than  *)
(* the one it looks for, if that is there.                                 *)
(***************************************************************************)

\* one rule less, and the newest of a port is still there and still the newest
LEMMA NewestSurvives ==
  ASSUME LifeInv, NEW w \in Workers, OwnsNewest(w), UNCHANGED port,
         NEW i \in 1..Len(rules), rules' = RemoveAt(rules, i),
         i \notin SamePort(w) \/ \E k \in SamePort(w) : i < k
  PROVE  OwnsNewest(w)'
  <1>0. rules \in Seq(Rules) /\ DOMAIN rules = 1..Len(rules)
    BY DEF LifeInv, TypeOK
  <1>1. PICK k \in Equal(w) : \A j \in SamePort(w) : j <= k
    BY DEF OwnsNewest
  <1>2. k \in 1..Len(rules) /\ i # k
    BY <1>0, <1>1 DEF Equal, SamePort
  <1>3. /\ rules' \in Seq(Rules) /\ DOMAIN rules' = 1..(Len(rules) - 1)
        /\ \A j \in 1..(Len(rules) - 1) : rules'[j] = IF j < i THEN rules[j] ELSE rules[j + 1]
    BY <1>0, RemoveAtElements
  <1> DEFINE m == IF k < i THEN k ELSE k - 1
  <1>4. m \in 1..(Len(rules) - 1) /\ rules'[m] = rules[k]
    BY <1>0, <1>2, <1>3
  <1>5. m \in Equal(w)'
    BY <1>1, <1>3, <1>4 DEF Equal, SamePort
  <1>6. ASSUME NEW j \in SamePort(w)' PROVE j <= m
    <2>1. j \in 1..(Len(rules) - 1) /\ rules'[j].port = port[w]
      BY <1>3 DEF SamePort
    <2>2. IF j < i THEN j \in SamePort(w) ELSE j + 1 \in SamePort(w)
      BY <1>0, <1>3, <2>1 DEF SamePort
    <2> QED
      BY <1>0, <1>1, <1>2, <2>1, <2>2
  <1> QED
    BY <1>5, <1>6 DEF OwnsNewest

\* v removes a rule, and has lost its own of the same port, or has a port that begins
\* w's and its own rules, if any, behind those of w's port
Robs(v, w) ==
  /\ manager = "nft"
  /\ step[v] = "remove" /\ step'[v] = "stop"
  /\ \/ port[v] = port[w] /\ Equal(v) = {}
     \/ /\ <<port[v], port[w]>> \in Begins
        /\ \A i \in SamePort(w), j \in Equal(v) : i < j

\* no other step of another worker takes the rule of a probe
LEMMA OthersKeepNewest ==
  ASSUME LifeInv, NEW w \in Workers, step[w] = "probe", OwnsNewest(w),
         NEW v \in Workers \ {w}, Proceed(v), ~Robs(v, w)
  PROVE  OwnsNewest(w)'
  <1>0. rules \in Seq(Rules) /\ DOMAIN rules = 1..Len(rules)
    BY DEF LifeInv, TypeOK
  <1>1. CASE InstallRule(v)
    <2>1. port[v] # port[w] /\ UNCHANGED port
      <3>1. perTaskRule /\ step[v] = "install" /\ UNCHANGED port
        BY <1>1 DEF InstallRule, Goto, LifeInv, RunsOK
      <3> QED
        BY <3>1 DEF LifeInv, RunsOK
    <2>2. /\ Len(rules') = Len(rules) + 1 /\ DOMAIN rules' = 1..(Len(rules) + 1)
          /\ \A j \in 1..Len(rules) : rules'[j] = rules[j]
          /\ rules'[Len(rules) + 1].port = port[v]
      BY <1>0, <1>1 DEF InstallRule
    <2>3. SamePort(w)' = SamePort(w)
      BY <1>0, <2>1, <2>2 DEF SamePort
    <2>4. Equal(w)' = Equal(w)
      BY <1>0, <2>2, <2>3 DEF Equal, SamePort
    <2> QED
      BY <2>3, <2>4 DEF OwnsNewest
  <1>2. CASE RemoveRule(v)
    <2>1. UNCHANGED port /\ step[v] = "remove"
      BY <1>2 DEF RemoveRule, Goto
    <2>2. CASE rules' = rules
      BY <2>1, <2>2 DEF OwnsNewest, Equal, SamePort
    <2>3. ASSUME NEW i \in SamePort(v) \cup Longer(v), i \in FirstMatches(v),
                 i \in 1..Len(rules), rules' = RemoveAt(rules, i)
          PROVE  OwnsNewest(w)'
      <3>0. /\ step'[v] = "stop"
            /\ manager # "nft" => i \in Equal(v)
            /\ \A e \in Equal(v) : i <= e
        BY <1>0, <1>2, <2>3 DEF RemoveRule, Goto, LifeInv, TypeOK, FirstMatches, Matching
      <3>1. CASE i \notin SamePort(w)
        BY <2>1, <2>3, <3>1, NewestSurvives
      <3>2. PICK k \in Equal(w) : \A j \in SamePort(w) : j <= k
        BY DEF OwnsNewest
      <3>3. k \in SamePort(w) /\ k \in 1..Len(rules)
        BY <1>0, <3>2 DEF Equal, SamePort
      <3>4. CASE i \in SamePort(w) /\ port[v] = port[w]
        <4>1. Equal(v) # {}
          BY <2>1, <3>0, <3>4 DEF Robs
        <4>2. PICK e \in Equal(v) : i <= e
          BY <3>0, <4>1
        <4>3. e <= k /\ e # k /\ e \in 1..Len(rules)
          BY <1>0, <3>2, <3>4, <4>2 DEF Equal, SamePort
        <4>4. i < k
          BY <2>3, <3>3, <4>2, <4>3
        <4> QED
          BY <2>1, <2>3, <3>3, <4>4, NewestSurvives
      <3>5. CASE i \in SamePort(w) /\ port[v] # port[w]
        <4>1. manager = "nft" /\ <<port[v], port[w]>> \in Begins
          BY <2>3, <3>0, <3>5 DEF SamePort, Longer, Equal
        <4>2. PICK l \in SamePort(w), e \in Equal(v) : ~(l < e)
          BY <2>1, <3>0, <4>1 DEF Robs
        <4>3. /\ l \in 1..Len(rules) /\ e \in 1..Len(rules)
              /\ i <= e /\ e <= l /\ l <= k /\ i # e
          BY <1>0, <3>0, <3>2, <3>5, <4>2 DEF Equal, SamePort
        <4>4. i < k
          BY <2>3, <3>3, <4>3
        <4> QED
          BY <2>1, <2>3, <3>3, <4>4, NewestSurvives
      <3> QED
        BY <3>1, <3>4, <3>5
    <2> QED
      BY <1>2, <2>2, <2>3, Removed
  <1>3. CASE ~InstallRule(v) /\ ~RemoveRule(v)
    <2>1. rules' = rules /\ port'[w] = port[w]
      BY <1>3 DEF Proceed, SpawnNfqws, SpawnFails, GraceOver, ExitedEarly, GraceWaitFails,
         InstallFails, EndProbe, RemoveFails, StopAlive, StopDone, TermTimeout, StopFails,
         ReturnFrom, LifeInv, TypeOK
    <2> QED
      BY <2>1 DEF OwnsNewest, Equal, SamePort
  <1> QED
    BY <1>1, <1>2, <1>3

\* a probe that goes on keeps its rule, unless a robbed worker takes it
LEMMA NewestStep ==
  ASSUME LifeInv, [Next]_vars, NEW w \in Workers, OwnsNewest(w),
         step[w] = "probe", step'[w] = "probe",
         \A v \in Workers \ {w} : ~Robs(v, w)
  PROVE  OwnsNewest(w)'
  <1>1. CASE ProcessDies \/ UNCHANGED vars
    BY <1>1 DEF ProcessDies, vars, OwnsNewest, Equal, SamePort
  <1>2. ASSUME NEW v \in Workers, PrepareSocket(v) \/ PrepareMarked(v) \/ PrepareFails(v)
        PROVE  OwnsNewest(w)'
    <2>1. rules' = rules /\ port'[w] = port[w]
      BY <1>2 DEF PrepareSocket, PrepareMarked, PrepareFails, Goto, LifeInv, TypeOK
    <2> QED
      BY <2>1 DEF OwnsNewest, Equal, SamePort
  <1>3. ASSUME NEW v \in Workers, Proceed(v)
        PROVE  OwnsNewest(w)'
    <2>1. v # w
      BY <1>3 DEF Proceed, SpawnNfqws, SpawnFails, GraceOver, ExitedEarly, GraceWaitFails,
         InstallRule, InstallFails, EndProbe, RemoveRule, RemoveFails, StopAlive, StopDone,
         TermTimeout, StopFails, ReturnFrom, Goto, LifeInv, TypeOK
    <2> QED
      BY <1>3, <2>1, OthersKeepNewest
  <1> QED
    BY <1>1, <1>2, <1>3 DEF Next, Finished

LEMMA HasRuleStep == LifeInv /\ ProbeHasRule /\ [Next]_vars => ProbeHasRule'
  <1> SUFFICES ASSUME LifeInv, ProbeHasRule, [Next]_vars,
                      NEW w \in Workers, perTaskRule', step'[w] = "probe"
               PROVE  /\ socket'[w] = port'[w]
                      /\ manager' = "iptables" => OwnsNewest(w)'
    BY DEF ProbeHasRule
  <1>0. LifeInv' /\ UNCHANGED manager /\ perTaskRule
    BY LifeStep DEF Next, Finished, vars, perTaskRule
  <1>1. socket'[w] = port'[w]
    BY <1>0 DEF LifeInv, RunsOK
  <1>2. CASE step[w] = "probe"
    <2>1. manager = "iptables" => OwnsNewest(w)
      BY <1>0, <1>2 DEF ProbeHasRule
    <2>2. manager = "iptables" => \A v \in Workers \ {w} : ~Robs(v, w)
      BY DEF Robs
    <2> QED
      BY <1>0, <1>1, <1>2, <2>1, <2>2, NewestStep
  <1>3. CASE step[w] # "probe"
    <2>1. InstallRule(w)
      <3>1. PICK v \in Workers : Proceed(v)
        BY <1>3 DEF Next, Finished, vars, ProcessDies, PrepareSocket, PrepareMarked,
           PrepareFails, Goto, LifeInv, TypeOK
      <3>2. PICK from \in Steps, to \in Steps : Goto(v, from, to)
        BY <3>1 DEF Proceed, SpawnNfqws, SpawnFails, GraceOver, ExitedEarly, GraceWaitFails,
           InstallRule, InstallFails, EndProbe, RemoveRule, RemoveFails, StopAlive, StopDone,
           TermTimeout, StopFails, ReturnFrom, Steps
      <3>3. v = w /\ step' = [step EXCEPT ![w] = "probe"] /\ step'[w] = "probe"
        BY <1>3, <3>2 DEF Goto, LifeInv, TypeOK
      <3> QED
        BY <1>0, <1>3, <3>1, <3>3 DEF Proceed, SpawnNfqws, SpawnFails, GraceOver, ExitedEarly,
           GraceWaitFails, InstallFails, EndProbe, RemoveRule, RemoveFails, StopAlive,
           StopDone, TermTimeout, StopFails, ReturnFrom, Goto, LifeInv, TypeOK
    <2>2. /\ Len(rules) \in Nat
          /\ DOMAIN rules' = 1..(Len(rules) + 1) /\ UNCHANGED port
          /\ rules'[Len(rules) + 1] = [port |-> port[w], queue |-> w]
      BY <2>1 DEF InstallRule, LifeInv, TypeOK
    <2>3. Len(rules) + 1 \in Equal(w)'
      BY <2>2 DEF Equal, SamePort
    <2>4. \A j \in SamePort(w)' : j <= Len(rules) + 1
      BY <2>2 DEF SamePort
    <2> QED
      BY <1>1, <2>3, <2>4 DEF OwnsNewest
  <1> QED
    BY <1>2, <1>3

\* While a worker probes, the rule it installed for its port is in the chain, for any
\* number of workers, unless nft matches a rule loosely.
THEOREM ProbesHaveRules == Spec => []ProbeHasRule
  <1>1. Init => ProbeHasRule
    BY DEF Init, ProbeHasRule
  <1> QED
    BY <1>1, LifeInvariant, HasRuleStep, PTL DEF Spec

\* Even then its rule is only taken by a removal of a worker that has lost its own
\* rule of the same port, or whose port begins the probe's and whose own rules, if any
\* are left, are newer than the probe's.
THEOREM ProbesKeepRules == Spec => ProbeKeepsRule
  <1>1. LifeInv /\ [Next]_vars =>
          [\A w \in Workers :
             step[w] = "probe" /\ step'[w] = "probe" /\ OwnsNewest(w) /\ ~OwnsNewest(w)' =>
               \E v \in Workers \ {w} :
                 /\ manager = "nft"
                 /\ step[v] = "remove" /\ step'[v] = "stop"
                 /\ \/ port[v] = port[w] /\ Equal(v) = {}
                    \/ /\ <<port[v], port[w]>> \in Begins
                       /\ \A i \in SamePort(w), j \in Equal(v) : i < j]_vars
    <2> SUFFICES ASSUME LifeInv, [Next]_vars, NEW w \in Workers,
                        step[w] = "probe", step'[w] = "probe", OwnsNewest(w), ~OwnsNewest(w)'
                 PROVE  \E v \in Workers \ {w} : Robs(v, w)
      BY DEF Robs
    <2> QED
      BY NewestStep
  <1> QED
    BY <1>1, LifeInvariant, PTL DEF Spec, ProbeKeepsRule

\* A run speaks about its strategy only after a probe, with its rule in the chain
\* unless a loose match took it.
THEOREM VerdictsNeedSetup == Spec => VerdictNeedsSetup
  <1>1. LifeInv /\ ProbeHasRule /\ [Next]_vars =>
          [\A w \in Workers :
             result'[w] = "verdict" /\ result[w] # "verdict" =>
               step[w] = "probe" /\ (manager = "iptables" => OwnsNewest(w))]_vars
    <2> SUFFICES ASSUME LifeInv, ProbeHasRule, [Next]_vars, NEW w \in Workers,
                        result'[w] = "verdict", result[w] # "verdict"
                 PROVE  step[w] = "probe" /\ (manager = "iptables" => OwnsNewest(w))
      OBVIOUS
    <2>1. EndProbe(w)
      <3>1. result' # result
        OBVIOUS
      <3>2. ~ProcessDies /\ ~UNCHANGED vars
        BY <3>1 DEF ProcessDies, vars
      <3>3. PICK v \in Workers :
              PrepareSocket(v) \/ PrepareMarked(v) \/ PrepareFails(v) \/ Proceed(v)
        BY <3>2, Zenon DEF Next, Finished
      <3>4. ASSUME Report(v, "neutral") PROVE FALSE
        BY <3>4 DEF Report, LifeInv, TypeOK
      <3>5. ~PrepareSocket(v) /\ ~PrepareMarked(v) /\ ~PrepareFails(v)
        BY <3>1, <3>4 DEF PrepareSocket, PrepareMarked, PrepareFails
      <3>6. /\ ~SpawnNfqws(v) /\ ~GraceOver(v) /\ ~InstallRule(v) /\ ~RemoveRule(v)
            /\ ~RemoveFails(v) /\ ~StopAlive(v) /\ ~TermTimeout(v)
        BY <3>1 DEF SpawnNfqws, GraceOver, InstallRule, RemoveRule, RemoveFails, StopAlive,
           TermTimeout
      <3>7. /\ ~SpawnFails(v) /\ ~ExitedEarly(v) /\ ~GraceWaitFails(v)
            /\ ~InstallFails(v) /\ ~StopDone(v) /\ ~StopFails(v)
        BY <3>4 DEF SpawnFails, ExitedEarly, GraceWaitFails, InstallFails, StopDone, StopFails,
           ReturnFrom
      <3>8. EndProbe(v)
        BY <3>3, <3>5, <3>6, <3>7 DEF Proceed
      <3> QED
        BY <3>8 DEF EndProbe, Report, LifeInv, TypeOK
    <2> QED
      BY <2>1 DEF EndProbe, Goto, ProbeHasRule, perTaskRule
  <1> QED
    BY <1>1, LifeInvariant, ProbesHaveRules, PTL DEF Spec, VerdictNeedsSetup

-----------------------------------------------------------------------------
(***************************************************************************)
(* Rules left over.  Each change of the chain or of the failed removals    *)
(* goes with one worker that begins or ends to owe a removal.              *)
(***************************************************************************)

DueNow == {w \in Workers : RuleDue(w)}

\* a run fails to remove its rule once: it is not among those that failed before
RemovalsFresh ==
  /\ \A p \in notRemoved : p[2] <= begun
  /\ \A w \in Workers : step[w] \in {"spawn", "grace", "install", "probe", "remove"} =>
                          Run(w) \notin notRemoved

RulesInv == RulesAccounted /\ RemovalsFresh

LEMMA Finiteness == LifeInv => IsFiniteSet(DueNow) /\ IsFiniteSet(notRemoved)
  <1> SUFFICES ASSUME LifeInv PROVE IsFiniteSet(DueNow) /\ IsFiniteSet(notRemoved)
    OBVIOUS
  <1>1. IsFiniteSet(DueNow)
    BY LifecycleAssumption, FS_Subset DEF DueNow
  <1>2. IsFiniteSet(1..MaxRuns)
    BY LifecycleAssumption, FS_Interval
  <1>3. IsFiniteSet(Runs)
    BY <1>2, LifecycleAssumption, FS_Product DEF Runs
  <1>4. notRemoved \subseteq Runs
    BY DEF LifeInv, TypeOK
  <1> QED
    BY <1>1, <1>3, <1>4, FS_Subset

\* a step that leaves alone the chain, the failed removals and who owes one
LEMMA RulesKept ==
  ASSUME RulesAccounted, UNCHANGED <<rules, notRemoved>>, DueNow' = DueNow
  PROVE  RulesAccounted'
  BY DEF RulesAccounted, DueNow

LEMMA RulesInstall ==
  ASSUME LifeInv, RulesAccounted, NEW w \in Workers, UNCHANGED manager, InstallRule(w)
  PROVE  RulesAccounted'
  <1>1. Len(rules') = Len(rules) + 1 /\ Len(rules) \in Nat
    BY DEF InstallRule, LifeInv, TypeOK
  <1>2. w \notin DueNow /\ DueNow' = DueNow \cup {w}
    BY DEF InstallRule, Goto, DueNow, RuleDue, perTaskRule, LifeInv, TypeOK, RunsOK
  <1>3. Cardinality(DueNow') = Cardinality(DueNow) + 1 /\ Cardinality(DueNow) \in Nat
    BY <1>2, Finiteness, FS_AddElement, FS_CardinalityType
  <1>4. UNCHANGED notRemoved /\ Cardinality(notRemoved) \in Nat
    BY Finiteness, FS_CardinalityType DEF InstallRule, history
  <1> QED
    BY <1>1, <1>3, <1>4 DEF RulesAccounted, DueNow

LEMMA RulesRemove ==
  ASSUME LifeInv, RulesInv, NEW w \in Workers, UNCHANGED manager,
         RemoveRule(w) \/ RemoveFails(w)
  PROVE  RulesAccounted'
  <1>1. w \in DueNow /\ DueNow' = DueNow \ {w} /\ Run(w) \notin notRemoved
    BY DEF RemoveRule, RemoveFails, Goto, DueNow, RuleDue, perTaskRule, LifeInv, TypeOK,
       RunsOK, RulesInv, RemovalsFresh
  <1>2. Cardinality(DueNow') = Cardinality(DueNow) - 1 /\ Cardinality(DueNow) \in Nat
    BY <1>1, Finiteness, FS_RemoveElement, FS_CardinalityType
  <1>3. /\ Cardinality(notRemoved \cup {Run(w)}) = Cardinality(notRemoved) + 1
        /\ Cardinality(notRemoved) \in Nat
    BY <1>1, Finiteness, FS_AddElement, FS_CardinalityType
  <1>4. \/ rules' = rules /\ notRemoved' = notRemoved \cup {Run(w)}
        \/ Len(rules') = Len(rules) - 1 /\ notRemoved' = notRemoved
    BY Removed, RemoveAtElements DEF RemoveFails, LifeInv, TypeOK
  <1>5. Len(rules) \in Nat
    BY DEF LifeInv, TypeOK
  <1>6. Len(rules) = Cardinality(notRemoved) + Cardinality(DueNow)
    BY DEF RulesInv, RulesAccounted, DueNow
  <1>7. Len(rules') = Cardinality(notRemoved') + Cardinality(DueNow')
    <2>1. CASE rules' = rules /\ notRemoved' = notRemoved \cup {Run(w)}
      <3>1. Len(rules') = Len(rules) /\ Cardinality(notRemoved') = Cardinality(notRemoved) + 1
        BY <1>3, <2>1
      <3> QED
        BY <1>2, <1>3, <1>5, <1>6, <3>1
    <2>2. CASE Len(rules') = Len(rules) - 1 /\ notRemoved' = notRemoved
      <3>1. Cardinality(notRemoved') = Cardinality(notRemoved)
        BY <2>2
      <3> QED
        BY <1>2, <1>3, <1>5, <1>6, <2>2, <3>1
    <2> QED
      BY <1>4, <2>1, <2>2
  <1> QED
    BY <1>7 DEF RulesAccounted, DueNow

LEMMA RulesStep == LifeInv /\ RulesAccounted /\ RemovalsFresh /\ [Next]_vars => RulesAccounted'
  <1> SUFFICES ASSUME LifeInv, RulesAccounted, RemovalsFresh, [Next]_vars PROVE RulesAccounted'
    OBVIOUS
  <1>1. CASE (ProcessDies /\ UNCHANGED manager) \/ UNCHANGED vars
    BY <1>1, RulesKept DEF ProcessDies, vars, history, DueNow, RuleDue, perTaskRule
  <1>2. ASSUME NEW w \in Workers, UNCHANGED manager,
               PrepareSocket(w) \/ PrepareMarked(w) \/ PrepareFails(w)
        PROVE  RulesAccounted'
    BY <1>2, RulesKept DEF PrepareSocket, PrepareMarked, PrepareFails, Goto, history, DueNow,
       RuleDue, perTaskRule, LifeInv, TypeOK
  <1>3. ASSUME NEW w \in Workers, UNCHANGED manager, Proceed(w)
        PROVE  RulesAccounted'
    <2>1. CASE InstallRule(w)
      BY <1>3, <2>1, RulesInstall
    <2>2. CASE RemoveRule(w) \/ RemoveFails(w)
      BY <1>3, <2>2, RulesRemove DEF RulesInv
    <2>3. CASE ~InstallRule(w) /\ ~RemoveRule(w) /\ ~RemoveFails(w)
      <3>1. UNCHANGED <<rules, notRemoved>>
        BY <1>3, <2>3 DEF Proceed, SpawnNfqws, SpawnFails, GraceOver, ExitedEarly,
           GraceWaitFails, InstallFails, EndProbe, StopAlive, StopDone, TermTimeout,
           StopFails, history
      <3>2. DueNow' = DueNow
        BY <1>3, <2>3 DEF Proceed, SpawnNfqws, SpawnFails, GraceOver, ExitedEarly,
           GraceWaitFails, InstallFails, EndProbe, StopAlive, StopDone, TermTimeout,
           StopFails, ReturnFrom, Goto, DueNow, RuleDue, perTaskRule, LifeInv, TypeOK
      <3> QED
        BY <3>1, <3>2, RulesKept
    <2> QED
      BY <2>1, <2>2, <2>3
  <1> QED
    BY <1>1, <1>2, <1>3 DEF Next, Finished

LEMMA FreshStep == LifeInv /\ RemovalsFresh /\ [Next]_vars => RemovalsFresh'
  <1> SUFFICES ASSUME LifeInv, RemovalsFresh, [Next]_vars PROVE RemovalsFresh'
    OBVIOUS
  <1> USE DEF history
  <1>0. begun \in Nat /\ \A p \in notRemoved : p \in Runs /\ p[2] \in Nat /\ p[2] <= begun
    BY LifecycleAssumption DEF LifeInv, TypeOK, Runs, RemovalsFresh
  <1>1. CASE ProcessDies \/ UNCHANGED vars
    BY <1>1 DEF ProcessDies, vars, RemovalsFresh, Run
  <1>2. ASSUME NEW w \in Workers, PrepareSocket(w) \/ PrepareMarked(w)
        PROVE  RemovalsFresh'
    <2>1. /\ begun' = begun + 1 /\ run' = [run EXCEPT ![w] = begun + 1]
          /\ step' = [step EXCEPT ![w] = "spawn"] /\ UNCHANGED notRemoved
      BY <1>2 DEF PrepareSocket, PrepareMarked, Goto, BeginRun
    <2>2. <<w, begun + 1>> \notin notRemoved
      BY <1>0
    <2>3. ASSUME NEW v \in Workers,
                 step'[v] \in {"spawn", "grace", "install", "probe", "remove"}
          PROVE  Run(v)' \notin notRemoved'
      BY <2>1, <2>2, <2>3 DEF RemovalsFresh, Run, LifeInv, TypeOK
    <2> QED
      BY <1>0, <2>1, <2>3 DEF RemovalsFresh
  <1>3. ASSUME NEW w \in Workers, PrepareFails(w)
        PROVE  RemovalsFresh'
    BY <1>0, <1>3 DEF PrepareFails, RemovalsFresh, Run
  <1>4. ASSUME NEW w \in Workers, Proceed(w)
        PROVE  RemovalsFresh'
    <2>1. run[w] <= begun /\ UNCHANGED begun /\ \A v \in Workers : v # w => Run(v)' = Run(v)
      BY <1>4, <1>0 DEF Proceed, SpawnNfqws, SpawnFails, GraceOver, ExitedEarly,
         GraceWaitFails, InstallRule, InstallFails, EndProbe, RemoveRule, RemoveFails,
         StopAlive, StopDone, TermTimeout, StopFails, ReturnFrom, Goto, Run, LifeInv, TypeOK,
         RunsOK
    <2>2. \A v \in Workers : v # w => step'[v] = step[v]
      BY <1>4 DEF Proceed, SpawnNfqws, SpawnFails, GraceOver, ExitedEarly, GraceWaitFails,
         InstallRule, InstallFails, EndProbe, RemoveRule, RemoveFails, StopAlive, StopDone,
         TermTimeout, StopFails, ReturnFrom, Goto, LifeInv, TypeOK
    <2>3. CASE RemoveRule(w) \/ RemoveFails(w)
      <3>1. notRemoved' \subseteq notRemoved \cup {Run(w)} /\ step'[w] = "stop"
        BY <2>3, Removed DEF RemoveRule, RemoveFails, Goto, LifeInv, TypeOK
      <3>2. \A p \in notRemoved' : p[2] <= begun'
        BY <1>0, <2>1, <3>1 DEF Run
      <3>3. ASSUME NEW v \in Workers,
                   step'[v] \in {"spawn", "grace", "install", "probe", "remove"}
            PROVE  Run(v)' \notin notRemoved'
        <4>1. v # w /\ Run(v)' = Run(v) /\ Run(v) # Run(w)
          BY <2>1, <3>1, <3>3 DEF Run
        <4>2. Run(v) \notin notRemoved
          BY <2>2, <3>3, <4>1 DEF RemovalsFresh
        <4> QED
          BY <3>1, <4>1, <4>2
      <3> QED
        BY <3>2, <3>3 DEF RemovalsFresh
    <2>4. CASE ~RemoveRule(w) /\ ~RemoveFails(w)
      <3>1. UNCHANGED notRemoved
        BY <1>4, <2>4 DEF Proceed, SpawnNfqws, SpawnFails, GraceOver, ExitedEarly,
           GraceWaitFails, InstallRule, InstallFails, EndProbe, StopAlive, StopDone,
           TermTimeout, StopFails
      <3>2. step'[w] \in {"spawn", "grace", "install", "probe", "remove"} =>
              /\ step[w] \in {"spawn", "grace", "install", "probe", "remove"}
              /\ Run(w)' = Run(w)
        BY <1>4, <2>4 DEF Proceed, SpawnNfqws, SpawnFails, GraceOver, ExitedEarly,
           GraceWaitFails, InstallRule, InstallFails, EndProbe, StopAlive, StopDone,
           TermTimeout, StopFails, ReturnFrom, Goto, Run, LifeInv, TypeOK
      <3> QED
        BY <2>1, <2>2, <3>1, <3>2 DEF RemovalsFresh
    <2> QED
      BY <2>3, <2>4
  <1> QED
    BY <1>1, <1>2, <1>3, <1>4 DEF Next, Finished

\* The chain holds one rule for each removal that failed or found nothing and one for
\* each run that has not come to its removal yet.
THEOREM RulesAccountedFor == Spec => []RulesAccounted
  <1>1. Init => RulesInv
    <2> SUFFICES ASSUME Init PROVE RulesInv
      OBVIOUS
    <2>1. DueNow = {} /\ notRemoved = {} /\ rules = <<>>
      BY DEF Init, DueNow, RuleDue
    <2>2. RulesAccounted
      BY <2>1, FS_EmptySet DEF RulesAccounted, DueNow
    <2> QED
      BY <2>1, <2>2 DEF RulesInv, RemovalsFresh
  <1>2. LifeInv /\ RulesInv /\ [Next]_vars => RulesInv'
    BY RulesStep, FreshStep DEF RulesInv
  <1>3. RulesInv => RulesAccounted
    BY DEF RulesInv
  <1> QED
    BY <1>1, <1>2, <1>3, LifeInvariant, PTL DEF Spec
=============================================================================
