-------------------------- MODULE CheckPlanProofs ---------------------------
(***************************************************************************)
(* Theorems about CheckPlan for all plans, catalogs and configurations.    *)
(***************************************************************************)
EXTENDS CheckPlan, StrategySelectionProofs, FunctionTheorems

-----------------------------------------------------------------------------
(***************************************************************************)
(* Orders.                                                                 *)
(***************************************************************************)
\* R is a strict total order on S
IsOrder(R, S) ==
  /\ \A p \in S : <<p, p>> \notin R
  /\ \A p, q, r \in S : <<p, q>> \in R /\ <<q, r>> \in R => <<p, r>> \in R
  /\ \A p, q \in S : p # q => <<p, q>> \in R \/ <<q, p>> \in R

Below(R, S, p) == {q \in S : <<q, p>> \in R}

\* In a finite order every place is taken, by one element.
LEMMA Ranking ==
  ASSUME NEW S, NEW R, IsFiniteSet(S), IsOrder(R, S)
  PROVE  /\ Cardinality(S) \in Nat
         /\ \A p \in S : Cardinality(Below(R, S, p)) \in 0 .. Cardinality(S) - 1
         /\ \A p, q \in S : <<p, q>> \in R =>
              Cardinality(Below(R, S, p)) < Cardinality(Below(R, S, q))
         /\ \A i \in 1 .. Cardinality(S) : \E p \in S : Cardinality(Below(R, S, p)) = i - 1
  <1> DEFINE n == Cardinality(S)
             rank(p) == Cardinality(Below(R, S, p))
  <1>1. n \in Nat
    BY FS_CardinalityType
  <1>2. ASSUME NEW p \in S
        PROVE  IsFiniteSet(Below(R, S, p)) /\ rank(p) \in 0 .. n - 1
    <2>1. Below(R, S, p) \in SUBSET S /\ Below(R, S, p) # S
      BY DEF Below, IsOrder
    <2>2. IsFiniteSet(Below(R, S, p)) /\ rank(p) <= n /\ rank(p) # n
      BY <2>1, FS_Subset
    <2>3. rank(p) \in Nat
      BY <2>2, FS_CardinalityType
    <2> QED
      BY <1>1, <2>2, <2>3
  <1>3. ASSUME NEW p \in S, NEW q \in S, <<p, q>> \in R
        PROVE  rank(p) < rank(q)
    <2>1. Below(R, S, p) \in SUBSET Below(R, S, q)
      BY <1>3 DEF Below, IsOrder
    <2>2. p \in Below(R, S, q) /\ p \notin Below(R, S, p)
      BY <1>3 DEF Below, IsOrder
    <2>3. IsFiniteSet(Below(R, S, q)) /\ rank(p) \in Nat /\ rank(q) \in Nat
      BY <1>1, <1>2
    <2>4. rank(p) <= rank(q) /\ rank(p) # rank(q)
      BY <2>1, <2>2, <2>3, FS_Subset
    <2> QED
      BY <2>3, <2>4
  <1>4. ASSUME NEW i \in 1 .. n, \A p \in S : rank(p) # i - 1
        PROVE  FALSE
    <2> DEFINE T == (0 .. n - 1) \ {i - 1}
               f == [p \in S |-> rank(p)]
    <2> HIDE DEF n
    <2>1. IsFiniteSet(0 .. n - 1) /\ Cardinality(0 .. n - 1) = n /\ i - 1 \in 0 .. n - 1
      <3>1. n - 1 \in Int /\ ~(0 > n - 1) /\ (n - 1) - 0 + 1 = n /\ 0 \in Int
        BY <1>1
      <3>2. IsFiniteSet(0 .. (n - 1)) /\ Cardinality(0 .. (n - 1)) = (n - 1) - 0 + 1
        BY <3>1, FS_Interval
      <3> QED
        BY <1>1, <3>1, <3>2
    <2>2. IsFiniteSet(T) /\ Cardinality(T) = n - 1
      BY <2>1, FS_RemoveElement
    <2>3. f \in [S -> T]
      BY <1>2, <1>4
    <2> HIDE DEF T
    <2>4. PICK p, q \in S : p # q /\ f[p] = f[q]
      <3> HIDE DEF f
      <3> QED
        BY <1>1, <2>2, <2>3, FS_PigeonHole DEF n
    <2>5. rank(p) = rank(q)
      BY <2>4
    <2>6. rank(p) < rank(q) \/ rank(q) < rank(p)
      BY <1>3, <2>4 DEF IsOrder
    <2>7. rank(p) \in Nat /\ rank(q) \in Nat
      BY <1>1, <1>2
    <2> QED
      BY <2>5, <2>6, <2>7
  <1> QED
    BY <1>1, <1>2, <1>3, <1>4

-----------------------------------------------------------------------------
ProtocolNames == {"http", "tls", "quic"}

LEMMA ProtocolList ==
  /\ Len(Registry!Protocols) = 3 /\ Registry!Protocols \in Seq(ProtocolNames)
  /\ DOMAIN Registry!Protocols = 1 .. 3 /\ Range(Registry!Protocols) = ProtocolNames
  /\ \A i, j \in 1 .. 3 : Registry!Protocols[i] = Registry!Protocols[j] => i = j
  BY DEF Registry!Protocols, ProtocolNames, Range

\* PayloadRegistry counts as the other modules do.
LEMMA Counting ==
  ASSUME NEW S
  PROVE  /\ Registry!Cardinality(S) = Cardinality(S) /\ Registry!IsFiniteSet(S) = IsFiniteSet(S)
         /\ Registry!Range(S) = Range(S) /\ Registry!IsInjective(S) = IsInjective(S)
  <1>1. Registry!Cardinality(S) = Cardinality(S)
    BY DEF Registry!Cardinality, Cardinality
  <1>2. Registry!IsFiniteSet(S) = IsFiniteSet(S)
    BY DEF Registry!IsFiniteSet, IsFiniteSet
  <1>3. Registry!Range(S) = Range(S)
    BY DEF Registry!Range, Range
  <1>4. Registry!IsInjective(S) = IsInjective(S)
    BY DEF Registry!IsInjective, IsInjective
  <1> QED
    BY <1>1, <1>2, <1>3, <1>4

LEMMA GreatestExists ==
  ASSUME NEW n \in Nat, NEW S \in SUBSET (0 .. n), S # {}
  PROVE  \E i \in S : \A j \in S : j <= i
  <1> DEFINE R == {r \in S \X S : r[1] < r[2]}
  <1>1. IsFiniteSet(S) /\ Cardinality(S) \in Nat /\ Cardinality(S) # 0 /\ S \subseteq Int
    <2>1. IsFiniteSet(0 .. n)
      BY FS_Interval
    <2>2. IsFiniteSet(S)
      BY <2>1, FS_Subset
    <2>3. S \subseteq Int
      OBVIOUS
    <2> QED
      BY <2>2, <2>3, FS_CardinalityType, FS_EmptySet
  <1>2. IsOrder(R, S)
    BY <1>1 DEF IsOrder
  <1> HIDE DEF R
  <1>3. PICK p \in S : Cardinality(Below(R, S, p)) = Cardinality(S) - 1
    <2>1. Cardinality(S) \in 1 .. Cardinality(S)
      BY <1>1
    <2>2. \A i \in 1 .. Cardinality(S) : \E p \in S : Cardinality(Below(R, S, p)) = i - 1
      BY <1>1, <1>2, Ranking
    <2> QED
      BY <2>1, <2>2
  <1>4. ASSUME NEW q \in S, p < q PROVE FALSE
    <2>1. <<p, q>> \in R
      BY <1>4 DEF R
    <2>2. /\ Cardinality(Below(R, S, p)) < Cardinality(Below(R, S, q))
          /\ Cardinality(Below(R, S, q)) \in 0 .. Cardinality(S) - 1
      BY <1>1, <1>2, <2>1, Ranking
    <2> QED
      BY <1>1, <1>3, <2>2
  <1> QED
    BY <1>1, <1>4

LEMMA PlanTyped ==
  ASSUME PlanInit
  PROVE  PlanOK(plan) /\ payloads = plan.payloads
  BY PlanAssumption DEF PlanInit

LEMMA ConfigTyped ==
  ASSUME Registry!PayloadConfigOK(payloads), NEW p \in ProtocolNames
  PROVE  LET c == payloads.protocol[p]
         IN  /\ c.builtin \in Seq(Names) /\ c.files \in Seq(Files)
             /\ c.aliases \in [DOMAIN c.aliases -> Files]
             /\ DOMAIN c.aliases \subseteq Names /\ IsFiniteSet(DOMAIN c.aliases)
  BY ProtocolList, Counting DEF Registry!PayloadConfigOK

-----------------------------------------------------------------------------
(***************************************************************************)
(* The registry of payloads.                                               *)
(***************************************************************************)
\* the configuration of the i-th protocol, and what the registry has of it
Config(i) == payloads.protocol[Registry!Protocols[i]]
PushedOf(i) == Registry!Defs(Registry!Protocols[i], Config(i))

LEMMA DefsAre ==
  ASSUME NEW p, NEW c, NEW d
  PROVE  d \in Registry!Defs(p, c) <=>
           \/ \E a \in Range(c.builtin) : d = [protocol |-> p, alias |-> a, path |-> NoFile]
           \/ \E a \in Registry!Loaded(c) :
                d = [protocol |-> p, alias |-> a, path |-> Registry!PathOf(c, a)]
  BY Counting DEF Registry!Defs

LEMMA LoadedAre ==
  ASSUME NEW c, NEW a
  PROVE  a \in Registry!Loaded(c) <=>
           /\ payloads.autoLoad
           /\ a \in DOMAIN c.aliases \/ \E f \in Range(c.files) : a = Cleaned[Stem[f]]
  BY Counting DEF Registry!Loaded

LEMMA KeysAre ==
  ASSUME NEW c, NEW a
  PROVE  a \in Registry!Keys(c) <=>
           a \in DOMAIN c.aliases \/ \E f \in Range(c.files) : a = Stem[f]
  BY Counting DEF Registry!Keys

\* The path under an alias is one of the files configured.
LEMMA PathTyped ==
  ASSUME Registry!PayloadConfigOK(payloads), NEW p \in ProtocolNames,
         NEW a \in Registry!Loaded(payloads.protocol[p])
  PROVE  LET c == payloads.protocol[p]
             path == Registry!PathOf(c, a)
         IN  /\ a \in Names /\ path \in Files /\ path \in Registry!Configured(p)
  <1> DEFINE c == payloads.protocol[p]
  <1>1. /\ c.files \in Seq(Files) /\ c.aliases \in [DOMAIN c.aliases -> Files]
        /\ DOMAIN c.aliases \subseteq Names
    BY ConfigTyped
  <1>2. Registry!Configured(p) = Range(c.files) \cup Range(c.aliases)
    BY Counting DEF Registry!Configured
  <1> HIDE DEF c
  <1>3. CASE a \in DOMAIN c.aliases
    BY <1>1, <1>2, <1>3 DEF Registry!PathOf, Range, c
  <1>4. CASE a \notin DOMAIN c.aliases
    <2> DEFINE named == {i \in DOMAIN c.files : Cleaned[Stem[c.files[i]]] = a}
    <2>1. PICK f \in Range(c.files) : a = Cleaned[Stem[f]]
      BY <1>4, LoadedAre DEF c
    <2>2. named \subseteq 1 .. Len(c.files) /\ named # {} /\ Len(c.files) \in Nat
      BY <2>1, <1>1 DEF Range
    <2>3. PICK i \in named : \A j \in named : j <= i
      <3> HIDE DEF named
      <3>1. named \in SUBSET (0 .. Len(c.files))
        BY <2>2
      <3> QED
        BY <2>2, <3>1, GreatestExists
    <2>4. /\ Registry!PathOf(c, a) = c.files[CHOOSE k \in named : \A j \in named : j <= k]
      BY <1>4 DEF Registry!PathOf
    <2>5. (CHOOSE k \in named : \A j \in named : j <= k) \in DOMAIN c.files
      BY <2>3
    <2>6. Registry!PathOf(c, a) \in Range(c.files)
      <3> HIDE DEF named
      <3> QED
        BY <2>4, <2>5 DEF Range
    <2>7. Range(c.files) \subseteq Files
      BY <1>1 DEF Range
    <2> QED
      BY <2>1, <2>6, <2>7, <1>2, PlanAssumption DEF c
  <1> QED
    BY <1>3, <1>4

\* When every file has a name of its own, it is the path under that name.
LEMMA PathOfFile ==
  ASSUME Registry!PayloadConfigOK(payloads), NEW p \in ProtocolNames,
         LET c == payloads.protocol[p]
         IN  /\ Cardinality(Registry!Keys(c)) = Registry!FileCount(c)
             /\ \A f \in Range(c.files) : Cleaned[Stem[f]] = Stem[f],
         NEW f \in Range(payloads.protocol[p].files)
  PROVE  LET c == payloads.protocol[p]
         IN  Stem[f] \notin DOMAIN c.aliases /\ Registry!PathOf(c, Stem[f]) = f
  <1> DEFINE c == payloads.protocol[p]
             n == Len(c.files)
             A == DOMAIN c.aliases
             stem(i) == Stem[c.files[i]]
  <1>1. /\ c.files \in Seq(Files) /\ DOMAIN c.files = 1 .. n /\ n \in Nat /\ IsFiniteSet(A)
    BY ConfigTyped
  <1>2. PICK k \in 1 .. n : c.files[k] = f
    BY <1>1 DEF Range
  <1>3. Cardinality(Registry!Keys(c)) = n + Cardinality(A) /\ Cardinality(A) \in Nat
    BY <1>1, Counting, FS_CardinalityType DEF Registry!FileCount
  \* leaving out one file that shares its name leaves too few names
  <1>4. ASSUME NEW i \in 1 .. n, stem(i) \in A \/ \E j \in 1 .. n \ {i} : stem(j) = stem(i)
        PROVE  FALSE
    <2> DEFINE rest == (1 .. n) \ {i}
               names == {stem(j) : j \in rest}
               g == [j \in rest |-> stem(j)]
    <2>1. IsFiniteSet(rest) /\ Cardinality(rest) = n - 1
      <3>1. IsFiniteSet(1 .. n) /\ Cardinality(1 .. n) = n
        BY <1>1, FS_Interval
      <3> HIDE DEF n, A, stem
      <3> QED
        BY <3>1, <1>4, FS_RemoveElement
    <2>2. IsFiniteSet(names) /\ Cardinality(names) <= n - 1
      <3>1. g \in Surjection(rest, names)
        BY DEF Surjection
      <3> HIDE DEF g, rest, names
      <3> QED
        BY <2>1, <3>1, FS_Surjection
    <2>3. Registry!Keys(c) \subseteq A \cup names
      <3> SUFFICES ASSUME NEW a \in Registry!Keys(c) PROVE a \in A \cup names
        OBVIOUS
      <3>1. a \in A \/ \E h \in Range(c.files) : a = Stem[h]
        BY KeysAre
      <3>2. CASE a \notin A
        <4>1. PICK j \in 1 .. n : a = stem(j)
          BY <3>1, <3>2, <1>1 DEF Range
        <4> QED
          BY <4>1, <1>4, <3>2
      <3> QED
        BY <3>2
    <2>4. IsFiniteSet(A \cup names) /\ Cardinality(A \cup names) <= Cardinality(A) + (n - 1)
      <3> HIDE DEF names
      <3>1. /\ IsFiniteSet(A \cup names) /\ IsFiniteSet(A \cap names)
            /\ Cardinality(A \cup names) = Cardinality(A) + Cardinality(names) - Cardinality(A \cap names)
        BY <1>1, <2>2, FS_Union, FS_Intersection
      <3>2. Cardinality(names) \in Nat /\ Cardinality(A \cap names) \in Nat
        BY <2>2, <3>1, FS_CardinalityType
      <3>3. n \in Nat /\ Cardinality(A) \in Nat /\ Cardinality(names) <= n - 1
        BY <1>1, <1>3, <2>2
      <3> HIDE DEF n, A
      <3> QED
        BY <3>1, <3>2, <3>3
    <2>5. /\ Cardinality(Registry!Keys(c)) <= Cardinality(A \cup names)
          /\ Cardinality(A \cup names) \in Nat
      <3> HIDE DEF names
      <3> QED
        BY <2>3, <2>4, FS_Subset, FS_CardinalityType
    <2>6. n \in Nat
      BY <1>1
    <2> HIDE DEF n, A, c, names
    <2> QED
      BY <1>3, <2>4, <2>5, <2>6
  <1>5. Stem[f] \notin A
    BY <1>2, <1>4
  <1>6. \A j \in 1 .. n : Cleaned[stem(j)] = Stem[f] => j = k
    <2> SUFFICES ASSUME NEW j \in 1 .. n, Cleaned[stem(j)] = Stem[f], j # k PROVE FALSE
      OBVIOUS
    <2>1. c.files[j] \in Range(c.files)
      BY <1>1 DEF Range
    <2>2. stem(j) = stem(k)
      BY <2>1, <1>2
    <2> QED
      BY <2>2, <1>4
  <1>7. Cleaned[stem(k)] = Stem[f]
    BY <1>2
  <1> DEFINE named == {i \in DOMAIN c.files : Cleaned[Stem[c.files[i]]] = Stem[f]}
  <1>8. named = {k}
    BY <1>1, <1>6, <1>7
  <1>9. Registry!PathOf(c, Stem[f]) = c.files[CHOOSE i \in named : \A j \in named : j <= i]
    BY <1>5 DEF Registry!PathOf
  <1>10. (CHOOSE i \in named : \A j \in named : j <= i) = k
    <2> HIDE DEF named
    <2>1. \A j \in named : j <= k
      BY <1>8
    <2> QED
      BY <1>8, <2>1
  <1> QED
    BY <1>2, <1>5, <1>9, <1>10

\* What is pushed are the payloads of the first protocols; no two share an alias, which
\* is a valid name, and a sound configuration has not failed.
RegistryInv ==
  /\ Registry!RegistryTypeOK /\ payloads = plan.payloads /\ PlanOK(plan)
  /\ status \in {"loaded", "refused", "failed"} => registry = {}
  /\ status \in {"loaded", "refused"} => pushed = 0
  /\ status \in {"accepted", "failed", "built"} => Registry!Accepted
  /\ status \in {"accepted", "built"} =>
       \A d : d \in registry <=> \E i \in 1 .. pushed : d \in PushedOf(i)
  /\ Registry!AliasesUnique /\ \A d \in registry : d.alias \in Valid
  /\ Registry!Sound => status # "failed"

LEMMA ConfigOf ==
  ASSUME NEW i \in 1 .. 3
  PROVE  Registry!Protocols[i] \in ProtocolNames /\ Registry!Protocols[i] \in Range(Registry!Protocols)
  BY ProtocolList DEF Range

LEMMA RegistryInitInv == PlanInit => RegistryInv
  <1> SUFFICES ASSUME PlanInit PROVE RegistryInv
    OBVIOUS
  <1>1. /\ PlanOK(plan) /\ payloads = plan.payloads
        /\ status = "loaded" /\ pushed = 0 /\ registry = {}
    BY PlanTyped DEF PlanInit, Registry!RegistryInit
  <1>2. Registry!PayloadConfigOK(payloads)
    BY <1>1 DEF PlanOK
  <1>3. Registry!RegistryTypeOK
    BY <1>1, <1>2, ProtocolList DEF Registry!RegistryTypeOK
  <1> QED
    BY <1>1, <1>3 DEF RegistryInv, Registry!AliasesUnique

LEMMA RegistryValidate ==
  ASSUME RegistryInv, Registry!Validate, UNCHANGED plan
  PROVE  RegistryInv'
  <1>1. /\ status = "loaded" /\ registry = {} /\ pushed = 0
        /\ status' \in {"accepted", "refused"} /\ (status' = "accepted" => Registry!Accepted)
        /\ payloads' = payloads /\ pushed' = pushed /\ registry' = registry
    BY DEF RegistryInv, Registry!Validate
  <1>2. Registry!RegistryTypeOK'
    BY <1>1, ProtocolList DEF RegistryInv, Registry!RegistryTypeOK
  <1>3. Registry!Accepted' = Registry!Accepted
    BY <1>1 DEF Registry!Accepted, Registry!FileCount, Registry!Keys
  <1>4. Registry!AliasesUnique'
    BY <1>1 DEF Registry!AliasesUnique
  <1>5. (payloads = plan.payloads)' /\ PlanOK(plan)'
    BY <1>1 DEF RegistryInv
  <1>6. \A d : d \in registry' <=> \E i \in 1 .. pushed' : (d \in PushedOf(i))'
    BY <1>1
  <1> QED
    BY <1>1, <1>2, <1>3, <1>4, <1>5, <1>6 DEF RegistryInv

LEMMA AliasesOf ==
  ASSUME NEW i \in 1 .. 3, NEW d \in PushedOf(i)
  PROVE  d.alias \in Range(Config(i).builtin) \cup Registry!Loaded(Config(i))
  BY DefsAre DEF PushedOf

LEMMA PushedTyped ==
  ASSUME Registry!PayloadConfigOK(payloads), NEW i \in 1 .. 3
  PROVE  PushedOf(i) \subseteq Registry!PayloadDef
  <1> DEFINE p == Registry!Protocols[i]
  <1> SUFFICES ASSUME NEW d \in PushedOf(i) PROVE d \in Registry!PayloadDef
    OBVIOUS
  <1>1. p \in ProtocolNames /\ p \in Range(Registry!Protocols)
    BY ConfigOf
  <1>2. CASE \E a \in Range(Config(i).builtin) : d = [protocol |-> p, alias |-> a, path |-> NoFile]
    <2>1. Range(Config(i).builtin) \subseteq Names
      BY <1>1, ConfigTyped DEF Config, Range
    <2> QED
      BY <1>1, <1>2, <2>1, Counting DEF Registry!PayloadDef
  <1>3. CASE \E a \in Registry!Loaded(Config(i)) :
               d = [protocol |-> p, alias |-> a, path |-> Registry!PathOf(Config(i), a)]
    <2>1. PICK a \in Registry!Loaded(Config(i)) :
            d = [protocol |-> p, alias |-> a, path |-> Registry!PathOf(Config(i), a)]
      BY <1>3
    <2>2. a \in Names /\ Registry!PathOf(Config(i), a) \in Files
      BY <1>1, <2>1, PathTyped DEF Config
    <2> QED
      BY <1>1, <2>1, <2>2, Counting DEF Registry!PayloadDef
  <1> QED
    BY <1>2, <1>3, DefsAre DEF PushedOf

\* A protocol whose payloads can be pushed adds no alias that is taken.
LEMMA PushedUnique ==
  ASSUME Registry!AliasesUnique, NEW i \in 1 .. 3, Registry!Pushable(Config(i))
  PROVE  \A d, e \in registry \cup PushedOf(i) : d.alias = e.alias => d = e
  <1> DEFINE c == Config(i)
  <1>1. /\ Range(c.builtin) \cap Registry!Loaded(c) = {}
        /\ (Range(c.builtin) \cup Registry!Loaded(c)) \cap Registry!Taken = {}
    BY Counting DEF Registry!Pushable
  <1>2. \A d \in registry : d.alias \in Registry!Taken
    BY DEF Registry!Taken
  <1>3. ASSUME NEW d \in PushedOf(i), NEW e \in PushedOf(i), d.alias = e.alias
        PROVE  d = e
    <2> DEFINE p == Registry!Protocols[i]
               Builtin(x) == \E a \in Range(c.builtin) : x = [protocol |-> p, alias |-> a, path |-> NoFile]
               File(x) == \E a \in Registry!Loaded(c) :
                            x = [protocol |-> p, alias |-> a, path |-> Registry!PathOf(c, a)]
    <2>1. (Builtin(d) \/ File(d)) /\ (Builtin(e) \/ File(e))
      BY DefsAre DEF PushedOf
    <2>2. ASSUME NEW x, Builtin(x)
          PROVE  x.alias \in Range(c.builtin) /\ x = [protocol |-> p, alias |-> x.alias, path |-> NoFile]
      BY <2>2
    <2>3. ASSUME NEW x, File(x)
          PROVE  /\ x.alias \in Registry!Loaded(c)
                 /\ x = [protocol |-> p, alias |-> x.alias, path |-> Registry!PathOf(c, x.alias)]
      BY <2>3
    <2> HIDE DEF Builtin, File, c, p
    <2> QED
      BY <1>1, <1>3, <2>1, <2>2, <2>3
  <1>4. \A d \in PushedOf(i) : d.alias \in Range(c.builtin) \cup Registry!Loaded(c)
    BY AliasesOf
  <1> HIDE DEF c
  <1> QED
    BY <1>1, <1>2, <1>3, <1>4 DEF Registry!AliasesUnique

LEMMA SoundConfig ==
  ASSUME Registry!Sound, NEW p \in ProtocolNames
  PROVE  LET c == payloads.protocol[p]
         IN  /\ payloads.autoLoad => /\ payloads.baseDir = "there"
                                     /\ Registry!Configured(p) \subseteq Present
             /\ \A f \in Range(c.files) : Cleaned[Stem[f]] = Stem[f]
             /\ IsInjective(c.builtin) /\ Range(c.builtin) \subseteq Valid
             /\ \A q \in ProtocolNames :
                  /\ Range(c.builtin) \cap Registry!Keys(payloads.protocol[q]) = {}
                  /\ p # q => Range(c.builtin) \cap Range(payloads.protocol[q].builtin) = {}
  <1> DEFINE c == payloads.protocol[p]
  <1>1. p \in Registry!Range(Registry!Protocols)
    BY ProtocolList, Counting
  <1>2. payloads.autoLoad => payloads.baseDir = "there" /\ Registry!Configured(p) \subseteq Present
    BY <1>1 DEF Registry!Sound
  <1>3. /\ \A f \in Registry!Range(c.files) : Cleaned[Stem[f]] = Stem[f]
        /\ Registry!IsInjective(c.builtin) /\ Registry!Range(c.builtin) \subseteq Valid
    BY <1>1 DEF Registry!Sound
  <1>4. ASSUME NEW q \in ProtocolNames
        PROVE  /\ Range(c.builtin) \cap Registry!Keys(payloads.protocol[q]) = {}
               /\ p # q => Range(c.builtin) \cap Range(payloads.protocol[q].builtin) = {}
    <2>1. q \in Registry!Range(Registry!Protocols)
      BY ProtocolList, Counting
    <2>2. /\ Registry!Range(c.builtin) \cap Registry!Keys(payloads.protocol[q]) = {}
          /\ p # q => Registry!Range(c.builtin) \cap Registry!Range(payloads.protocol[q].builtin) = {}
      BY <1>1, <2>1 DEF Registry!Sound
    <2> QED
      BY <2>2, Counting
  <1> QED
    BY <1>2, <1>3, <1>4, Counting

LEMMA AcceptedConfig ==
  ASSUME Registry!Accepted, NEW p \in ProtocolNames
  PROVE  LET c == payloads.protocol[p]
         IN  /\ payloads.max > 0
             /\ Registry!Keys(c) \subseteq Valid \ Reserved
             /\ Cardinality(Registry!Keys(c)) = Registry!FileCount(c)
             /\ Registry!FileCount(c) <= payloads.max
             /\ \A q \in ProtocolNames \ {p} :
                  Registry!Keys(c) \cap Registry!Keys(payloads.protocol[q]) = {}
  <1>1. Registry!Range(Registry!Protocols) = ProtocolNames
    BY ProtocolList, Counting
  <1>2. \A S : Registry!Cardinality(S) = Cardinality(S)
    BY Counting
  <1> QED
    BY <1>1, <1>2 DEF Registry!Accepted

\* What is loaded of a sound configuration has the names validation has seen.
LEMMA LoadedAsSeen ==
  ASSUME Registry!Sound, NEW p \in ProtocolNames
  PROVE  Registry!Loaded(payloads.protocol[p]) \subseteq Registry!Keys(payloads.protocol[p])
  BY LoadedAre, KeysAre, SoundConfig

LEMMA SoundIsPushable ==
  ASSUME RegistryInv, Registry!Sound, status = "accepted", pushed + 1 \in 1 .. 3
  PROVE  Registry!Pushable(Config(pushed + 1))
  <1> DEFINE p == Registry!Protocols[pushed + 1]
             c == payloads.protocol[p]
  <1>1. p \in ProtocolNames /\ Registry!Accepted /\ pushed \in Nat
    BY ConfigOf DEF RegistryInv, Registry!RegistryTypeOK
  <1>2. Registry!Loaded(c) \subseteq Registry!Keys(c) /\ Registry!Keys(c) \subseteq Valid \ Reserved
    BY <1>1, LoadedAsSeen, AcceptedConfig
  <1>3. ASSUME NEW d \in registry
        PROVE  d.alias \notin Range(c.builtin) \cup Registry!Loaded(c)
    <2>1. PICK i \in 1 .. pushed : d \in PushedOf(i)
      BY DEF RegistryInv
    <2> DEFINE q == Registry!Protocols[i]
               e == payloads.protocol[q]
    <2>2. i \in 1 .. 3 /\ i # pushed + 1
      BY <1>1
    <2>3. q \in ProtocolNames /\ q # p
      BY <2>2, ConfigOf, ProtocolList
    <2>4. d.alias \in Range(e.builtin) \cup Registry!Keys(e)
      BY <2>1, <2>2, <2>3, AliasesOf, LoadedAsSeen DEF Config
    <2>5. Range(c.builtin) \cap Registry!Keys(e) = {} /\ Range(c.builtin) \cap Range(e.builtin) = {}
      BY <1>1, <2>3, SoundConfig
    <2>6. Range(e.builtin) \cap Registry!Keys(c) = {}
      BY <1>1, <2>3, SoundConfig
    <2>7. Registry!Keys(c) \cap Registry!Keys(e) = {}
      BY <1>1, <2>3, AcceptedConfig
    <2> HIDE DEF q, e, c, p
    <2> QED
      BY <1>2, <2>4, <2>5, <2>6, <2>7
  <1>4. Range(c.builtin) \cap Registry!Loaded(c) = {}
    BY <1>1, <1>2, SoundConfig
  <1>5. (Range(c.builtin) \cup Registry!Loaded(c)) \cap Registry!Taken = {}
    BY <1>3 DEF Registry!Taken
  <1>6. payloads.autoLoad => Range(c.files) \cup Range(c.aliases) \subseteq Present
    BY <1>1, SoundConfig, Counting DEF Registry!Configured
  <1>7. Registry!Pushable(c)
    BY <1>1, <1>2, <1>4, <1>5, <1>6, SoundConfig, AcceptedConfig, Counting DEF Registry!Pushable
  <1> QED
    BY <1>7 DEF Config

LEMMA RegistryPush ==
  ASSUME RegistryInv, Registry!PushProtocol, UNCHANGED plan
  PROVE  RegistryInv'
  <1> DEFINE i == pushed + 1
             c == Config(i)
  <1>1. /\ status = "accepted" /\ Registry!Accepted /\ pushed \in 0 .. 3 /\ i \in 1 .. 3
        /\ Registry!PayloadConfigOK(payloads) /\ payloads' = payloads
    BY ProtocolList DEF RegistryInv, Registry!RegistryTypeOK, Registry!PushProtocol
  <1>2. Registry!Accepted' = Registry!Accepted /\ Registry!Sound' = Registry!Sound
    BY <1>1 DEF Registry!Accepted, Registry!Sound, Registry!FileCount, Registry!Keys,
                Registry!Configured
  <1>3. ASSUME NEW j PROVE PushedOf(j)' = PushedOf(j)
    BY <1>1 DEF PushedOf, Config, Registry!Defs, Registry!Loaded
  <1>4. (payloads = plan.payloads)' /\ PlanOK(plan)'
    BY <1>1 DEF RegistryInv
  <1>5. CASE Registry!Pushable(c)
    <2>1. /\ registry' = registry \cup PushedOf(i) /\ pushed' = pushed + 1
          /\ status' = IF pushed' = 3 THEN "built" ELSE "accepted"
      BY <1>1, <1>5, ProtocolList DEF Registry!PushProtocol, PushedOf, Config
    <2>2. registry' \subseteq Registry!PayloadDef
      BY <1>1, <2>1, PushedTyped DEF RegistryInv, Registry!RegistryTypeOK
    <2>3. Registry!RegistryTypeOK'
      BY <1>1, <2>1, <2>2, ProtocolList DEF Registry!RegistryTypeOK
    <2>4. Registry!AliasesUnique'
      BY <1>1, <1>5, <2>1, PushedUnique DEF RegistryInv, Registry!AliasesUnique
    <2>5. \A d \in registry' : d.alias \in Valid
      <3>1. Range(c.builtin) \subseteq Valid /\ Registry!Loaded(c) \subseteq Valid
        BY <1>5, Counting DEF Registry!Pushable
      <3>2. \A d \in PushedOf(i) : d.alias \in Valid
        BY <1>1, <3>1, AliasesOf
      <3>3. \A d \in registry : d.alias \in Valid
        BY DEF RegistryInv
      <3> QED
        BY <2>1, <3>2, <3>3
    <2>6. \A d : d \in registry' <=> \E j \in 1 .. pushed' : (d \in PushedOf(j))'
      <3>1. \A d : d \in registry <=> \E j \in 1 .. pushed : d \in PushedOf(j)
        BY <1>1 DEF RegistryInv
      <3>2. \A j : j \in 1 .. pushed' <=> j \in 1 .. pushed \/ j = i
        BY <1>1, <2>1
      <3> QED
        BY <1>3, <2>1, <3>1, <3>2
    <2> QED
      BY <1>1, <1>2, <1>4, <2>1, <2>3, <2>4, <2>5, <2>6 DEF RegistryInv
  <1>6. CASE ~Registry!Pushable(c)
    <2>1. /\ registry' = {} /\ status' = "failed" /\ pushed' = pushed
      BY <1>1, <1>6 DEF Registry!PushProtocol, Config
    <2>2. ~Registry!Sound
      BY <1>1, <1>6, SoundIsPushable
    <2>3. Registry!RegistryTypeOK'
      BY <1>1, <2>1, ProtocolList DEF RegistryInv, Registry!RegistryTypeOK
    <2> QED
      BY <1>1, <1>2, <1>4, <2>1, <2>2, <2>3 DEF RegistryInv, Registry!AliasesUnique
  <1> QED
    BY <1>5, <1>6

LEMMA RegistryStutters ==
  ASSUME RegistryInv, UNCHANGED <<plan, payloads, status, pushed, registry>>
  PROVE  RegistryInv'
  <1>1. Registry!RegistryTypeOK' /\ PlanOK(plan)'
    BY DEF RegistryInv, Registry!RegistryTypeOK
  <1>2. Registry!Accepted' = Registry!Accepted /\ Registry!Sound' = Registry!Sound
    BY DEF Registry!Accepted, Registry!Sound, Registry!FileCount, Registry!Keys,
           Registry!Configured
  <1>3. ASSUME NEW j PROVE PushedOf(j)' = PushedOf(j)
    BY DEF PushedOf, Config, Registry!Defs, Registry!Loaded
  <1> QED
    BY <1>1, <1>2, <1>3 DEF RegistryInv, Registry!AliasesUnique

LEMMA RegistryStep == RegistryInv /\ [PlanNext]_planVars => RegistryInv'
  <1> SUFFICES ASSUME RegistryInv, [PlanNext]_planVars PROVE RegistryInv'
    OBVIOUS
  <1>1. CASE LoadConfig
    BY <1>1, RegistryValidate DEF LoadConfig
  <1>2. CASE BuildRegistry
    BY <1>2, RegistryPush DEF BuildRegistry
  <1>3. CASE UNCHANGED <<plan, payloads, status, pushed, registry>>
    BY <1>3, RegistryStutters
  <1>4. CASE ChooseTargets \/ Unresolved \/ LoadCatalog \/ SelectCandidates \/ UNCHANGED planVars
    BY <1>3, <1>4 DEF ChooseTargets, Unresolved, LoadCatalog, SelectCandidates, planVars
  <1> QED
    BY <1>1, <1>2, <1>4 DEF PlanNext

\* Every file of a sound configuration that is built is in the registry.
LEMMA RegistryMeans == RegistryInv => PayloadsBuiltAsValidated
  <1> SUFFICES ASSUME RegistryInv, Registry!Sound, status = "built", payloads.autoLoad,
                      NEW p \in ProtocolNames
               PROVE  LET c == payloads.protocol[p]
                      IN  /\ \A f \in Range(c.files) :
                               [protocol |-> p, alias |-> Stem[f], path |-> f] \in registry
                          /\ \A a \in DOMAIN c.aliases :
                               [protocol |-> p, alias |-> a, path |-> c.aliases[a]] \in registry
    BY ProtocolList, Counting
    DEF PayloadsBuiltAsValidated, Registry!BuiltAsValidated, RegistryInv
  <1> DEFINE c == payloads.protocol[p]
  <1>1. /\ pushed = 3 /\ Registry!Accepted /\ Registry!PayloadConfigOK(payloads)
        /\ \A d : d \in registry <=> \E i \in 1 .. pushed : d \in PushedOf(i)
    BY ProtocolList DEF RegistryInv, Registry!RegistryTypeOK
  <1>2. PICK i \in 1 .. 3 : Registry!Protocols[i] = p
    BY ProtocolList DEF Range
  <1>3. ASSUME NEW a \in Registry!Loaded(c)
        PROVE  [protocol |-> p, alias |-> a, path |-> Registry!PathOf(c, a)] \in registry
    <2>1. [protocol |-> p, alias |-> a, path |-> Registry!PathOf(c, a)] \in PushedOf(i)
      BY <1>2, DefsAre DEF PushedOf, Config
    <2> QED
      BY <1>1, <2>1
  <1>4. ASSUME NEW f \in Range(c.files)
        PROVE  [protocol |-> p, alias |-> Stem[f], path |-> f] \in registry
    <2>1. Cleaned[Stem[f]] = Stem[f] /\ \A g \in Range(c.files) : Cleaned[Stem[g]] = Stem[g]
      BY SoundConfig
    <2>2. Stem[f] \in Registry!Loaded(c)
      BY <2>1, LoadedAre
    <2>3. Registry!PathOf(c, Stem[f]) = f
      BY <1>1, <2>1, AcceptedConfig, PathOfFile
    <2> QED
      BY <1>3, <2>2, <2>3
  <1>5. ASSUME NEW a \in DOMAIN c.aliases
        PROVE  [protocol |-> p, alias |-> a, path |-> c.aliases[a]] \in registry
    <2>1. a \in Registry!Loaded(c)
      BY LoadedAre
    <2>2. Registry!PathOf(c, a) = c.aliases[a]
      BY DEF Registry!PathOf
    <2> QED
      BY <1>3, <2>1, <2>2
  <1> QED
    BY <1>4, <1>5

\* Validation and the registry agree about the payload files, whatever the
\* configuration (AppConfig::validate_payloads and build_payload_registry).
THEOREM RegistryAsValidated == PlanSpec => []PayloadsBuiltAsValidated
  <1> QED
    BY RegistryInitInv, RegistryStep, RegistryMeans, PTL DEF PlanSpec

-----------------------------------------------------------------------------
(***************************************************************************)
(* Division, for the repetition of targets.                                *)
(***************************************************************************)
LEMMA DivisionIs ==
  ASSUME NEW k \in Nat \ {0}, NEW a \in Nat
  PROVE  /\ a \div k \in Nat /\ a % k \in 0 .. k - 1
         /\ a = k * (a \div k) + (a % k)
  OBVIOUS

LEMMA MultipleBound ==
  ASSUME NEW k \in Nat \ {0}, NEW d \in Int, d >= 1
  PROVE  k * d >= k
  OBVIOUS

LEMMA Division ==
  ASSUME NEW k \in Nat \ {0}, NEW q \in Nat, NEW r \in 0 .. k - 1
  PROVE  (q * k + r) \div k = q
  <1> DEFINE a == q * k + r
             p == a \div k
             s == a % k
  <1>0. a \in Nat
    OBVIOUS
  <1>1. p \in Nat /\ s \in 0 .. k - 1 /\ a = k * p + s
    BY <1>0, DivisionIs
  <1>2. k * (q - p) = s - r
    BY <1>1
  <1>3. CASE q > p
    <2>1. k * (q - p) >= k
      BY <1>1, <1>3, MultipleBound
    <2> QED
      BY <1>1, <1>2, <2>1
  <1>4. CASE p > q
    <2>1. k * (p - q) >= k
      BY <1>1, <1>4, MultipleBound
    <2>2. k * (p - q) = r - s
      BY <1>1
    <2> QED
      BY <1>1, <2>1, <2>2
  <1> QED
    BY <1>1, <1>3, <1>4

\* The places of groups of k, and the group each is in.
Place(g, m, k) == (g - 1) * k + m
GroupOf(i, k) == ((i - 1) \div k) + 1

LEMMA Groups ==
  ASSUME NEW k \in Nat \ {0}, NEW n \in Nat
  PROVE  /\ n * k \in Nat /\ (n > 0 => n * k > 0)
         /\ \A i \in 1 .. n * k : /\ GroupOf(i, k) \in 1 .. n
                                  /\ \E m \in 1 .. k : i = Place(GroupOf(i, k), m, k)
         /\ \A g \in 1 .. n, m \in 1 .. k :
              /\ Place(g, m, k) \in 1 .. n * k /\ GroupOf(Place(g, m, k), k) = g
              /\ \A l \in 1 .. k : Place(g, l, k) = Place(g, m, k) => l = m
  <1>1. n * k \in Nat /\ (n > 0 => n * k > 0)
    <2>1. n > 0 => k * n >= k
      BY MultipleBound
    <2> QED
      BY <2>1
  <1>2. ASSUME NEW i \in 1 .. n * k
        PROVE  /\ GroupOf(i, k) \in 1 .. n
               /\ \E m \in 1 .. k : i = Place(GroupOf(i, k), m, k)
    <2> DEFINE q == (i - 1) \div k
               r == (i - 1) % k
    <2>1. i \in Nat /\ i - 1 \in Nat /\ i <= n * k
      BY <1>1
    <2>2. q \in Nat /\ r \in 0 .. k - 1 /\ i - 1 = k * q + r
      BY <2>1, DivisionIs
    <2> HIDE DEF q, r
    <2>3. ~(q >= n)
      <3>1. CASE q >= n
        <4>1. q - n \in Nat /\ k * (q - n) >= 0
          BY <2>2, <3>1
        <4>2. k * q >= n * k
          BY <2>2, <4>1
        <4> QED
          BY <2>1, <2>2, <4>2, <1>1
      <3> QED
        BY <3>1
    <2>4. r + 1 \in 1 .. k /\ i = q * k + (r + 1)
      BY <2>1, <2>2
    <2>5. GroupOf(i, k) = q + 1 /\ (q + 1) - 1 = q
      BY <2>2 DEF GroupOf, q
    <2>6. i = Place(GroupOf(i, k), r + 1, k)
      BY <2>4, <2>5 DEF Place
    <2>7. GroupOf(i, k) \in 1 .. n
      BY <2>2, <2>3, <2>5
    <2> QED
      BY <2>4, <2>6, <2>7
  <1>3. ASSUME NEW g \in 1 .. n, NEW m \in 1 .. k
        PROVE  /\ Place(g, m, k) \in 1 .. n * k /\ GroupOf(Place(g, m, k), k) = g
               /\ \A l \in 1 .. k : Place(g, l, k) = Place(g, m, k) => l = m
    <2>1. g - 1 \in Nat /\ n - g \in Nat /\ m - 1 \in 0 .. k - 1
      OBVIOUS
    <2>2. (g - 1) * k \in Nat /\ (n - g) * k \in Nat
      BY <2>1
    <2>3. n * k = (g - 1) * k + k + (n - g) * k
      BY <2>1
    <2>4. ((g - 1) * k + (m - 1)) \div k = g - 1
      BY <2>1, Division
    <2>5. (g - 1) * k + m - 1 = (g - 1) * k + (m - 1)
      BY <2>2
    <2>6. GroupOf(Place(g, m, k), k) = g
      BY <2>1, <2>4, <2>5 DEF Place, GroupOf
    <2>7. Place(g, m, k) \in 1 .. n * k
      BY <2>1, <2>2, <2>3 DEF Place
    <2>8. \A l \in 1 .. k : Place(g, l, k) = Place(g, m, k) => l = m
      BY <2>2 DEF Place
    <2> QED
      BY <2>6, <2>7, <2>8
  <1> QED
    BY <1>1, <1>2, <1>3

-----------------------------------------------------------------------------
(***************************************************************************)
(* The targets.                                                            *)
(***************************************************************************)
TargetsInv ==
  /\ PlanOK(plan)
  /\ stage \in {"load", "targets"} => targets = <<>>
  /\ stage \in {"payloads", "catalog", "select"} => targets # <<>>
  /\ targets # <<>> => Acceptable(plan.request) /\ targets = TargetsOf(plan.request)

LEMMA RequestTyped ==
  ASSUME NEW r \in Request
  PROVE  /\ r.testCount \in Nat /\ r.enabled \subseteq Keys /\ Asked(r) \in Seq(Domain)
         /\ r.cli = <<>> \/ Len(r.cli) = 1
         /\ r.domains \in Seq(Domain) /\ r.explicit \in Keys \cup {NotGiven} /\ r.preferred \in Keys
  <1>1. r.cli \in {<<>>} \cup {<<d>> : d \in Domain} /\ r.domains \in Seq(Domain)
    BY DEF Request
  <1>2. CASE r.cli = <<>>
    BY <1>1, <1>2 DEF Asked, Request
  <1>3. CASE r.cli # <<>>
    <2>1. PICK d \in Domain : r.cli = <<d>>
      BY <1>1, <1>3
    <2>2. Len(r.cli) = 1 /\ r.cli \in Seq(Domain) /\ Asked(r) = r.cli
      BY <2>1, <1>3 DEF Asked
    <2> QED
      BY <1>1, <2>2 DEF Request
  <1> QED
    BY <1>2, <1>3

\* An acceptable domain is probed with a protocol that is enabled, and with that of
\* the command line if there is one.
LEMMA ProtocolChosen ==
  ASSUME NEW r \in Request, NEW d \in Domain, Selected(r) # Refused, Usable(d, r)
  PROVE  /\ ProtocolFor(d, r) \in r.enabled /\ ProtocolFor(d, r) \in Keys
         /\ r.explicit # NotGiven => ProtocolFor(d, r) = r.explicit
  <1>1. /\ r.enabled \subseteq Keys /\ ProtocolFor(d, r) \in r.enabled /\ Refused \notin Keys
        /\ d.scheme \in {"none", "http", "https", "other"}
    BY RequestTyped DEF Usable, Keys, Refused, Domain
  <1>2. ProtocolFor(d, r) # Refused
    BY <1>1
  <1>3. Explicit(r) => Selected(r) = r.explicit
    BY DEF Selected, Wanted, Explicit
  <1>4. CASE d.scheme = "none"
    BY <1>1, <1>2, <1>3, <1>4 DEF ProtocolFor, Explicit
  <1>5. CASE d.scheme = "http"
    BY <1>1, <1>2, <1>3, <1>5 DEF ProtocolFor, Explicit
  <1>6. CASE d.scheme = "https"
    BY <1>1, <1>2, <1>3, <1>6 DEF ProtocolFor, Explicit
  <1>7. CASE d.scheme = "other"
    BY <1>2, <1>7 DEF ProtocolFor
  <1> QED
    BY <1>1, <1>4, <1>5, <1>6, <1>7

\* What a target has of the domain it repeats.
LEMMA TargetsAre ==
  ASSUME NEW r \in Request, Acceptable(r)
  PROVE  LET s == Asked(r)
             k == r.testCount
             t == TargetsOf(r)
         IN  /\ k \in Nat \ {0} /\ s \in Seq(Domain) /\ Len(s) \in Nat /\ Len(s) > 0
             /\ t \in Seq(Target) /\ t # <<>> /\ DOMAIN t = 1 .. Len(s) * k
             /\ \A n \in DOMAIN t :
                  LET d == s[GroupOf(n, k)]
                  IN  /\ GroupOf(n, k) \in 1 .. Len(s) /\ d \in Domain
                      /\ Usable(d, r) /\ t[n].host = d.host /\ t[n].protocol = ProtocolFor(d, r)
  <1> DEFINE s == Asked(r)
             k == r.testCount
             t == TargetsOf(r)
             g(n) == GroupOf(n, k)
  <1>1. s \in Seq(Domain) /\ s # <<>> /\ Len(s) \in Nat /\ Len(s) > 0 /\ k \in Nat \ {0}
    <2>1. s \in Seq(Domain) /\ s # <<>> /\ k \in Nat /\ k > 0
      BY RequestTyped DEF Acceptable
    <2>2. Len(s) \in Nat /\ Len(s) # 0
      BY <2>1, EmptySeq
    <2> QED
      BY <2>1, <2>2
  <1>2. Len(s) * k \in Nat /\ Len(s) * k > 0 /\ \A n \in 1 .. Len(s) * k : g(n) \in 1 .. Len(s)
    BY <1>1, Groups
  <1>3. t = [n \in 1 .. Len(s) * k |-> [host |-> s[g(n)].host, protocol |-> ProtocolFor(s[g(n)], r)]]
    BY DEF TargetsOf, GroupOf
  <1>4. ASSUME NEW n \in 1 .. Len(s) * k
        PROVE  /\ s[g(n)] \in Domain /\ Usable(s[g(n)], r)
               /\ [host |-> s[g(n)].host, protocol |-> ProtocolFor(s[g(n)], r)] \in Target
    <2>1. s[g(n)] \in Domain /\ Usable(s[g(n)], r) /\ Selected(r) # Refused
      BY <1>1, <1>2 DEF Acceptable
    <2>2. ProtocolFor(s[g(n)], r) \in Keys /\ s[g(n)].host \in Hosts
      BY <2>1, ProtocolChosen DEF Domain
    <2> QED
      BY <2>1, <2>2 DEF Target
  <1> HIDE DEF s, k, t, g
  <1>5. DOMAIN t = 1 .. Len(s) * k /\ t \in [1 .. Len(s) * k -> Target]
    BY <1>3, <1>4
  <1>6. t \in Seq(Target) /\ Len(t) = Len(s) * k
    BY <1>2, <1>5
  <1>7. t # <<>>
    BY <1>2, <1>6
  <1>8. \A n \in DOMAIN t : /\ g(n) \in 1 .. Len(s) /\ s[g(n)] \in Domain /\ Usable(s[g(n)], r)
                            /\ t[n].host = s[g(n)].host /\ t[n].protocol = ProtocolFor(s[g(n)], r)
    BY <1>2, <1>3, <1>4, <1>5
  <1> QED
    BY <1>1, <1>5, <1>6, <1>7, <1>8 DEF s, k, t, g

\* Each domain counts testCount times.
LEMMA TargetsCounted ==
  ASSUME NEW r \in Request, Acceptable(r), NEW h \in Hosts
  PROVE  Cardinality({n \in DOMAIN TargetsOf(r) : TargetsOf(r)[n].host = h})
           = r.testCount * Cardinality({i \in DOMAIN Asked(r) : Asked(r)[i].host = h})
  <1> DEFINE s == Asked(r)
             k == r.testCount
             t == TargetsOf(r)
             g(n) == GroupOf(n, k)
             P == {n \in DOMAIN t : t[n].host = h}
             Q == {i \in DOMAIN s : s[i].host = h}
             Groups2 == Q \X (1 .. k)
             f == [x \in Groups2 |-> Place(x[1], x[2], k)]
  <1>1. /\ k \in Nat \ {0} /\ s \in Seq(Domain) /\ Len(s) \in Nat
        /\ DOMAIN t = 1 .. Len(s) * k /\ DOMAIN s = 1 .. Len(s)
        /\ \A n \in DOMAIN t : g(n) \in 1 .. Len(s) /\ t[n].host = s[g(n)].host
    BY TargetsAre
  <1> HIDE DEF s, t, k
  <1>2. /\ \A n \in 1 .. Len(s) * k : /\ GroupOf(n, k) \in 1 .. Len(s)
                                      /\ \E m \in 1 .. k : n = Place(GroupOf(n, k), m, k)
        /\ \A i \in 1 .. Len(s), m \in 1 .. k :
             /\ Place(i, m, k) \in 1 .. Len(s) * k /\ GroupOf(Place(i, m, k), k) = i
             /\ \A l \in 1 .. k : Place(i, l, k) = Place(i, m, k) => l = m
    BY <1>1, Groups
  <1>3. IsFiniteSet(Q) /\ Cardinality(Q) \in Nat
    <2>1. IsFiniteSet(1 .. Len(s))
      <3>1. Len(s) \in Int /\ 1 \in Int
        BY <1>1
      <3> QED
        BY <3>1, FS_Interval
    <2>2. Q \in SUBSET (1 .. Len(s))
      BY <1>1
    <2> HIDE DEF Q
    <2> QED
      BY <2>1, <2>2, FS_Subset, FS_CardinalityType
  <1>4. ASSUME NEW x \in Groups2
        PROVE  /\ x[1] \in 1 .. Len(s) /\ x[2] \in 1 .. k
               /\ f[x] \in P /\ g(f[x]) = x[1]
    <2>1. x[1] \in Q /\ x[1] \in 1 .. Len(s) /\ x[2] \in 1 .. k /\ f[x] = Place(x[1], x[2], k)
      BY <1>1
    <2>2. f[x] \in 1 .. Len(s) * k /\ g(f[x]) = x[1]
      <3> HIDE DEF f
      <3> QED
        BY <1>2, <2>1
    <2>3. t[f[x]].host = s[x[1]].host
      <3> HIDE DEF f, g
      <3> QED
        BY <1>1, <2>2
    <2> QED
      BY <1>1, <2>1, <2>2, <2>3
  <1>5. ASSUME NEW x \in Groups2, NEW y \in Groups2, f[x] = f[y]
        PROVE  x = y
    <2>1. x[1] = y[1]
      <3> HIDE DEF f, g
      <3> QED
        BY <1>4, <1>5
    <2>2. Place(x[1], x[2], k) = Place(x[1], y[2], k)
      BY <1>5, <2>1
    <2>3. x[2] = y[2]
      BY <1>2, <1>4, <2>2
    <2> QED
      BY <2>1, <2>3
  <1>6. ASSUME NEW n \in P
        PROVE  \E x \in Groups2 : f[x] = n
    <2>1. n \in 1 .. Len(s) * k /\ g(n) \in 1 .. Len(s) /\ s[g(n)].host = h
      BY <1>1
    <2>2. PICK m \in 1 .. k : n = Place(g(n), m, k)
      BY <1>2, <2>1
    <2>3. <<g(n), m>> \in Groups2
      BY <1>1, <2>1
    <2>4. f[<<g(n), m>>] = n
      BY <2>2, <2>3
    <2> HIDE DEF f, Groups2
    <2> QED
      BY <2>3, <2>4
  <1>7. f \in [Groups2 -> P]
    <2> HIDE DEF P, g, Groups2
    <2> QED
      BY <1>4
  <1>8. f \in Bijection(Groups2, P)
    <2> HIDE DEF P, f, Groups2
    <2> QED
      BY <1>5, <1>6, <1>7 DEF Bijection, Injection, Surjection, IsInjective
  <1>9. IsFiniteSet(Groups2) /\ Cardinality(Groups2) = Cardinality(Q) * k
    <2>1. IsFiniteSet(1 .. k) /\ Cardinality(1 .. k) = k
      <3>1. k \in Int /\ ~(1 > k) /\ k - 1 + 1 = k
        BY <1>1
      <3> QED
        BY <3>1, FS_Interval
    <2> HIDE DEF Q
    <2> QED
      BY <1>3, <2>1, FS_Product
  <1>10. Cardinality(P) = Cardinality(Groups2)
    <2> HIDE DEF P, f, Groups2
    <2> QED
      BY <1>8, <1>9, FS_Bijection DEF ExistsBijection
  <1>11. Cardinality(P) = k * Cardinality(Q)
    <2> HIDE DEF P, Q, Groups2
    <2> QED
      BY <1>1, <1>3, <1>9, <1>10
  <1> QED
    BY <1>11 DEF s, t, k

\* Every domain asked for has a target.
LEMMA TargetOf ==
  ASSUME NEW r \in Request, Acceptable(r), NEW i \in 1 .. Len(Asked(r))
  PROVE  \E n \in DOMAIN TargetsOf(r) : TargetsOf(r)[n].protocol = ProtocolFor(Asked(r)[i], r)
  <1> DEFINE s == Asked(r)
             k == r.testCount
             t == TargetsOf(r)
             n == Place(i, 1, k)
  <1>1. /\ k \in Nat \ {0} /\ Len(s) \in Nat /\ DOMAIN t = 1 .. Len(s) * k
        /\ \A m \in DOMAIN t : t[m].protocol = ProtocolFor(s[GroupOf(m, k)], r)
    BY TargetsAre
  <1>2. i \in 1 .. Len(s) /\ 1 \in 1 .. k
    BY <1>1
  <1> HIDE DEF s, t, k
  <1>3. n \in 1 .. Len(s) * k /\ GroupOf(n, k) = i
    BY <1>1, <1>2, Groups
  <1> HIDE DEF n
  <1>4. n \in DOMAIN t /\ t[n].protocol = ProtocolFor(s[i], r)
    BY <1>1, <1>3
  <1> QED
    BY <1>4 DEF s, t

\* Without --probe-protocol there are two protocols at most: that of the domains that
\* stand for plain HTTP and that of all others.
LEMMA ProtocolOpen ==
  ASSUME NEW r \in Request, NEW d \in Domain, Selected(r) # Refused, Usable(d, r),
         r.explicit = NotGiven
  PROVE  LET tls == IF r.preferred = "http" THEN "tls12" ELSE r.preferred
         IN  /\ tls # "http"
             /\ ProtocolFor(d, r) = IF OverHttp(d, r) THEN "http" ELSE tls
  <1>1. /\ r.enabled \subseteq Keys /\ ProtocolFor(d, r) \in r.enabled /\ Refused \notin Keys
        /\ d.scheme \in {"none", "http", "https", "other"} /\ r.preferred \in Keys
    BY RequestTyped DEF Usable, Keys, Refused, Domain
  <1>2. ProtocolFor(d, r) # Refused
    BY <1>1
  <1>3. Selected(r) = r.preferred /\ ~Explicit(r)
    BY DEF Selected, Wanted, Explicit
  <1>4. CASE d.scheme = "none"
    BY <1>1, <1>2, <1>3, <1>4 DEF ProtocolFor, OverHttp
  <1>5. CASE d.scheme = "http"
    BY <1>3, <1>5 DEF ProtocolFor, OverHttp
  <1>6. CASE d.scheme = "https"
    BY <1>1, <1>2, <1>3, <1>6 DEF ProtocolFor, OverHttp
  <1>7. CASE d.scheme = "other"
    BY <1>2, <1>7 DEF ProtocolFor
  <1> QED
    BY <1>1, <1>4, <1>5, <1>6, <1>7

\* All that is asked for is probed with the protocol of the first target, unless base
\* domains for plain HTTP and for TLS are mixed and nothing overrides them.
LEMMA ProtocolsAgree ==
  ASSUME NEW r \in Request, Acceptable(r)
  PROVE  (\E t \in Range(TargetsOf(r)) : t.protocol # TargetsOf(r)[1].protocol) <=>
           /\ r.cli = <<>> /\ r.explicit = NotGiven
           /\ \E d, e \in Range(r.domains) : OverHttp(d, r) /\ ~OverHttp(e, r)
  <1> DEFINE s == Asked(r)
             t == TargetsOf(r)
             of(i) == ProtocolFor(s[i], r)
  <1>1. /\ s \in Seq(Domain) /\ Selected(r) # Refused /\ t # <<>> /\ t \in Seq(Target)
        /\ Len(s) \in Nat /\ DOMAIN s = 1 .. Len(s)
        /\ \A i \in 1 .. Len(s) : s[i] \in Domain /\ Usable(s[i], r)
    BY TargetsAre DEF Acceptable
  <1>2. 1 \in DOMAIN t
    BY <1>1, EmptySeq
  <1>3. ASSUME NEW m \in DOMAIN t PROVE \E i \in 1 .. Len(s) : t[m].protocol = of(i)
    BY TargetsAre
  <1>4. PICK j \in 1 .. Len(s) : t[1].protocol = of(j)
    BY <1>2, <1>3
  <1>5. ASSUME NEW i \in 1 .. Len(s) PROVE \E m \in DOMAIN t : t[m].protocol = of(i)
    BY TargetOf
  <1>6. ASSUME r.explicit # NotGiven, NEW i \in 1 .. Len(s) PROVE of(i) = r.explicit
    BY <1>1, <1>6, ProtocolChosen
  <1>7. ASSUME r.explicit = NotGiven, NEW i \in 1 .. Len(s), NEW l \in 1 .. Len(s)
        PROVE  of(i) # of(l) <=> (OverHttp(s[i], r) <=> ~OverHttp(s[l], r))
    BY <1>1, <1>7, ProtocolOpen
  <1>8. r.cli # <<>> => Len(s) = 1
    BY RequestTyped DEF Asked
  <1>9. r.cli = <<>> => s = r.domains
    BY DEF Asked
  <1> HIDE DEF s, t, of
  <1>10. ASSUME NEW x \in Range(t), x.protocol # t[1].protocol
         PROVE  /\ r.cli = <<>> /\ r.explicit = NotGiven
                /\ \E d, e \in Range(r.domains) : OverHttp(d, r) /\ ~OverHttp(e, r)
    <2>1. PICK m \in DOMAIN t : x = t[m]
      BY DEF Range
    <2>2. PICK i \in 1 .. Len(s) : x.protocol = of(i)
      BY <1>3, <2>1
    <2>3. of(i) # of(j)
      BY <1>4, <1>10, <2>2
    <2>4. r.cli = <<>> /\ r.explicit = NotGiven
      <3>1. r.explicit = NotGiven
        BY <1>6, <2>3
      <3>2. CASE r.cli # <<>>
        <4>1. Len(s) = 1
          BY <1>8, <3>2
        <4>2. i \in 1 .. 1 /\ j \in 1 .. 1
          BY <4>1
        <4>3. i = j
          BY <4>2
        <4> QED
          BY <2>3, <4>3
      <3> QED
        BY <3>1, <3>2
    <2>5. s[i] \in Range(r.domains) /\ s[j] \in Range(r.domains)
      BY <1>1, <1>9, <2>4 DEF Range
    <2>6. OverHttp(s[i], r) <=> ~OverHttp(s[j], r)
      BY <1>7, <2>3, <2>4
    <2> QED
      BY <2>4, <2>5, <2>6
  <1>11. ASSUME r.cli = <<>>, r.explicit = NotGiven,
                NEW d \in Range(r.domains), NEW e \in Range(r.domains),
                OverHttp(d, r), ~OverHttp(e, r)
         PROVE  \E x \in Range(t) : x.protocol # t[1].protocol
    <2>1. PICK i \in 1 .. Len(s), l \in 1 .. Len(s) : d = s[i] /\ e = s[l]
      BY <1>1, <1>9, <1>11 DEF Range
    <2>2. of(i) # of(l)
      BY <1>7, <1>11, <2>1
    <2>3. PICK m \in DOMAIN t, n \in DOMAIN t : t[m].protocol = of(i) /\ t[n].protocol = of(l)
      BY <1>5
    <2>4. t[m] \in Range(t) /\ t[n] \in Range(t)
      BY DEF Range
    <2> QED
      BY <2>2, <2>3, <2>4
  <1> QED
    BY <1>10, <1>11 DEF t

LEMMA TargetsMean == TargetsInv => TargetsAgree
  <1> SUFFICES ASSUME TargetsInv, targets # <<>> PROVE TargetsAgree
    BY DEF TargetsAgree
  <1> DEFINE r == plan.request
             times(s, h) == Cardinality({i \in DOMAIN s : s[i].host = h})
  <1>1. r \in Request /\ Acceptable(r) /\ targets = TargetsOf(r)
    BY DEF TargetsInv, PlanOK
  <1>2. ASSUME NEW t \in Range(targets)
        PROVE  t.protocol \in r.enabled /\ (r.explicit # NotGiven => t.protocol = r.explicit)
    <2>1. PICK n \in DOMAIN TargetsOf(r) : t = TargetsOf(r)[n]
      BY <1>1 DEF Range
    <2>2. PICK d \in Domain : Usable(d, r) /\ t.protocol = ProtocolFor(d, r)
      BY <1>1, <2>1, TargetsAre
    <2> QED
      BY <1>1, <2>2, ProtocolChosen DEF Acceptable
  <1>3. ASSUME NEW h \in Hosts
        PROVE  times(targets, h) = r.testCount * times(IF r.cli = <<>> THEN r.domains ELSE r.cli, h)
    <2>1. Asked(r) = IF r.cli = <<>> THEN r.domains ELSE r.cli
      BY DEF Asked
    <2> QED
      BY <1>1, <2>1, TargetsCounted
  <1>4. (\E t \in Range(targets) : t.protocol # Key) <=>
          /\ r.cli = <<>> /\ r.explicit = NotGiven
          /\ \E d, e \in Range(r.domains) : OverHttp(d, r) /\ ~OverHttp(e, r)
    BY <1>1, ProtocolsAgree DEF Key
  <1> HIDE DEF times
  <1> QED
    BY <1>2, <1>3, <1>4 DEF TargetsAgree, times

LEMMA TargetsInit == PlanInit => TargetsInv
  BY PlanTyped DEF PlanInit, TargetsInv

LEMMA TargetsStep == TargetsInv /\ [PlanNext]_planVars => TargetsInv'
  <1> SUFFICES ASSUME TargetsInv, [PlanNext]_planVars PROVE TargetsInv'
    OBVIOUS
  <1>1. CASE LoadConfig
    BY <1>1 DEF TargetsInv, LoadConfig
  <1>2. CASE ChooseTargets
    <2>1. CASE Acceptable(plan.request)
      <3>1. TargetsOf(plan.request) # <<>>
        BY <2>1, TargetsAre DEF TargetsInv, PlanOK
      <3> QED
        BY <1>2, <2>1, <3>1 DEF TargetsInv, ChooseTargets
    <2> QED
      BY <1>2, <2>1 DEF TargetsInv, ChooseTargets
  <1>3. CASE Unresolved
    BY <1>3 DEF TargetsInv, Unresolved
  <1>4. CASE BuildRegistry
    BY <1>4 DEF TargetsInv, BuildRegistry, Registry!PushProtocol
  <1>5. CASE LoadCatalog
    BY <1>5 DEF TargetsInv, LoadCatalog
  <1>6. CASE SelectCandidates
    BY <1>6 DEF TargetsInv, SelectCandidates
  <1>7. CASE UNCHANGED planVars
    BY <1>7 DEF TargetsInv, planVars
  <1> QED
    BY <1>1, <1>2, <1>3, <1>4, <1>5, <1>6, <1>7 DEF PlanNext

\* The targets of a check are what the command line and the configuration ask for,
\* with a protocol that is enabled, each domain test_count times (build_strategy_targets).
THEOREM TargetsAsAsked == PlanSpec => []TargetsAgree
  <1> QED
    BY TargetsInit, TargetsStep, TargetsMean, PTL DEF PlanSpec

-----------------------------------------------------------------------------
(***************************************************************************)
(* Sequences in order.                                                     *)
(***************************************************************************)
LEMMA LeastExists ==
  ASSUME NEW S \in SUBSET Nat, IsFiniteSet(S), S # {}
  PROVE  \E i \in S : \A j \in S : i <= j
  <1> DEFINE R == {r \in S \X S : r[1] < r[2]}
  <1>1. Cardinality(S) \in Nat /\ Cardinality(S) # 0 /\ 1 \in 1 .. Cardinality(S)
    <2>1. Cardinality(S) \in Nat /\ Cardinality(S) # 0
      BY FS_CardinalityType, FS_EmptySet
    <2> QED
      BY <2>1
  <1>2. IsOrder(R, S)
    BY DEF IsOrder
  <1> HIDE DEF R
  <1>3. PICK p \in S : Cardinality(Below(R, S, p)) = 0
    <2>1. \A i \in 1 .. Cardinality(S) : \E p \in S : Cardinality(Below(R, S, p)) = i - 1
      BY <1>2, Ranking
    <2> QED
      BY <1>1, <2>1
  <1>4. Below(R, S, p) = {}
    <2>1. IsFiniteSet(Below(R, S, p))
      BY FS_Subset DEF Below
    <2> QED
      BY <1>3, <2>1, FS_EmptySet
  <1>5. ASSUME NEW q \in S, q < p PROVE FALSE
    <2>1. <<q, p>> \in R
      BY <1>5 DEF R
    <2> QED
      BY <1>4, <2>1 DEF Below
  <1> QED
    BY <1>5

\* Sequences of which any two differ at a place both have.
Comparable(S) ==
  \A p, q \in S : p # q => \E i \in DOMAIN p \cap DOMAIN q : p[i] # q[i]

FirstDiffers(p, q, i) ==
  /\ i \in DOMAIN p \cap DOMAIN q /\ p[i] # q[i]
  /\ \A j \in 1 .. i - 1 : p[j] = q[j]

LEMMA DiffersFirst ==
  ASSUME NEW p \in Seq(Nat), NEW q \in Seq(Nat), \E i \in DOMAIN p \cap DOMAIN q : p[i] # q[i]
  PROVE  \E i \in Nat : /\ FirstDiffers(p, q, i) /\ p[i] \in Nat /\ q[i] \in Nat
                        /\ Lexicographic(p, q) <=> p[i] < q[i]
  <1> DEFINE D == {i \in DOMAIN p \cap DOMAIN q : p[i] # q[i]}
  <1>1. DOMAIN p = 1 .. Len(p) /\ Len(p) \in Nat /\ DOMAIN q = 1 .. Len(q) /\ Len(q) \in Nat
    OBVIOUS
  <1>2. D \subseteq Nat /\ D # {} /\ D \in SUBSET (1 .. Len(p))
    BY <1>1
  <1>3. IsFiniteSet(D)
    <2>1. IsFiniteSet(1 .. Len(p))
      <3>1. Len(p) \in Int /\ 1 \in Int
        BY <1>1
      <3> QED
        BY <3>1, FS_Interval
    <2> HIDE DEF D
    <2> QED
      BY <1>2, <2>1, FS_Subset
  <1>4. PICK i \in D : \A j \in D : i <= j
    <2> HIDE DEF D
    <2> QED
      BY <1>2, <1>3, LeastExists
  <1>5. FirstDiffers(p, q, i) /\ i \in 1 .. Len(p) /\ i \in 1 .. Len(q)
    <2>1. \A j \in 1 .. i - 1 : p[j] = q[j]
      <3> SUFFICES ASSUME NEW j \in 1 .. i - 1, p[j] # q[j] PROVE FALSE
        OBVIOUS
      <3>1. j \in D /\ j < i
        BY <1>1, <1>4
      <3> QED
        BY <1>1, <1>4, <3>1
    <2> QED
      BY <1>1, <1>4, <2>1 DEF FirstDiffers
  <1>6. p[i] \in Nat /\ q[i] \in Nat /\ p[i] # q[i]
    BY <1>4, <1>5
  <1>7. ASSUME Lexicographic(p, q) PROVE p[i] < q[i]
    <2>1. PICK j \in DOMAIN p : p[j] < q[j] /\ \A l \in 1 .. j - 1 : p[l] = q[l]
      BY <1>7 DEF Lexicographic
    <2>2. ~(i \in 1 .. j - 1)
      BY <1>6, <2>1
    <2>3. CASE j < i
      <3>1. j \in 1 .. i - 1 /\ j \in 1 .. Len(p)
        BY <1>1, <1>5, <2>1, <2>3
      <3>2. p[j] = q[j]
        BY <1>5, <3>1 DEF FirstDiffers
      <3>3. p[j] \in Nat
        BY <3>1, ElementOfSeq
      <3> QED
        BY <2>1, <3>2, <3>3
    <2>4. CASE ~(j < i)
      <3>1. j = i
        BY <1>1, <1>5, <2>1, <2>2, <2>4
      <3> QED
        BY <2>1, <3>1
    <2> QED
      BY <2>3, <2>4
  <1>8. ASSUME p[i] < q[i] PROVE Lexicographic(p, q)
    BY <1>5, <1>8 DEF Lexicographic, FirstDiffers
  <1> QED
    BY <1>2, <1>4, <1>5, <1>6, <1>7, <1>8

\* The lexicographic order of comparable sequences.
LexicographicOn(S) == {r \in S \X S : Lexicographic(r[1], r[2])}

LEMMA LexicographicOrders ==
  ASSUME NEW S \in SUBSET Seq(Nat), Comparable(S)
  PROVE  IsOrder(LexicographicOn(S), S)
  <1>1. ASSUME NEW p \in S PROVE ~Lexicographic(p, p)
    <2>1. \A i \in DOMAIN p : p[i] \in Nat
      OBVIOUS
    <2> QED
      BY <2>1 DEF Lexicographic
  <1>2. ASSUME NEW p \in S, NEW q \in S, NEW r \in S, Lexicographic(p, q), Lexicographic(q, r)
        PROVE  Lexicographic(p, r)
    <2>1. p # q /\ q # r
      BY <1>1, <1>2
    <2>2. PICK i \in Nat : FirstDiffers(p, q, i) /\ p[i] < q[i]
      BY <1>2, <2>1, DiffersFirst DEF Comparable
    <2>3. PICK j \in Nat : FirstDiffers(q, r, j) /\ q[j] < r[j]
      BY <1>2, <2>1, DiffersFirst DEF Comparable
    <2>4. /\ i \in 1 .. Len(p) /\ i \in 1 .. Len(q) /\ j \in 1 .. Len(q) /\ j \in 1 .. Len(r)
          /\ Len(p) \in Nat /\ Len(q) \in Nat /\ Len(r) \in Nat
          /\ DOMAIN p = 1 .. Len(p)
          /\ \A k \in 1 .. i - 1 : p[k] = q[k]
          /\ \A k \in 1 .. j - 1 : q[k] = r[k]
      BY <2>2, <2>3 DEF FirstDiffers
    <2>5. p[i] \in Nat /\ q[i] \in Nat /\ q[j] \in Nat /\ r[j] \in Nat
      <3>1. p \in Seq(Nat) /\ q \in Seq(Nat) /\ r \in Seq(Nat)
        OBVIOUS
      <3> QED
        BY <2>4, <3>1, ElementOfSeq
    <2>6. CASE i < j
      <3>1. q[i] = r[i] /\ \A k \in 1 .. i - 1 : p[k] = r[k]
        BY <2>4, <2>6
      <3> QED
        BY <2>2, <2>4, <3>1 DEF Lexicographic
    <2>7. CASE i = j
      <3>1. \A k \in 1 .. i - 1 : p[k] = r[k]
        BY <2>4, <2>7
      <3>2. p[i] < r[i]
        <4>1. p[i] < q[i] /\ q[i] < r[i]
          BY <2>2, <2>3, <2>7
        <4>2. p[i] \in Nat /\ q[i] \in Nat /\ r[i] \in Nat
          BY <2>5, <2>7
        <4> QED
          BY <4>1, <4>2
      <3> QED
        BY <2>4, <3>1, <3>2 DEF Lexicographic
    <2>8. CASE j < i
      <3>1. p[j] = q[j] /\ j \in 1 .. Len(p) /\ \A k \in 1 .. j - 1 : p[k] = r[k]
        BY <2>4, <2>8
      <3> QED
        BY <2>3, <2>4, <3>1 DEF Lexicographic
    <2> QED
      BY <2>6, <2>7, <2>8
  <1>3. ASSUME NEW p \in S, NEW q \in S, p # q
        PROVE  Lexicographic(p, q) \/ Lexicographic(q, p)
    <2>1. PICK i \in Nat : FirstDiffers(p, q, i) /\ p[i] \in Nat /\ q[i] \in Nat
      BY <1>3, DiffersFirst DEF Comparable
    <2>2. /\ i \in DOMAIN p /\ i \in DOMAIN q /\ p[i] # q[i]
          /\ \A j \in 1 .. i - 1 : p[j] = q[j] /\ q[j] = p[j]
      BY <2>1 DEF FirstDiffers
    <2>3. CASE p[i] < q[i]
      BY <2>2, <2>3 DEF Lexicographic
    <2>4. CASE q[i] < p[i]
      BY <2>2, <2>4 DEF Lexicographic
    <2> QED
      BY <2>1, <2>2, <2>3, <2>4
  <1> QED
    BY <1>1, <1>2, <1>3 DEF IsOrder, LexicographicOn

LEMMA InOrderIs ==
  ASSUME NEW S \in SUBSET Seq(Nat), IsFiniteSet(S), Comparable(S)
  PROVE  InOrder(S) \in Seq(S) /\ Range(InOrder(S)) = S
  <1> DEFINE n == Cardinality(S)
             R == LexicographicOn(S)
             rank(p) == Cardinality({q \in S : Lexicographic(q, p)})
             at(i) == CHOOSE p \in S : rank(p) = i - 1
  <1>1. IsOrder(R, S)
    BY LexicographicOrders
  <1>2. /\ n \in Nat /\ \A p \in S : rank(p) \in 0 .. n - 1
        /\ \A p, q \in S : <<p, q>> \in R => rank(p) < rank(q)
        /\ \A i \in 1 .. n : \E p \in S : rank(p) = i - 1
    <2>1. ASSUME NEW p \in S PROVE Cardinality(Below(R, S, p)) = rank(p)
      <3>1. Below(R, S, p) = {q \in S : Lexicographic(q, p)}
        BY DEF Below, LexicographicOn
      <3> QED
        BY <3>1
    <2> HIDE DEF R, rank
    <2> QED
      BY <1>1, <2>1, Ranking
  <1>3. InOrder(S) = [i \in 1 .. n |-> at(i)]
    BY DEF InOrder
  <1> HIDE DEF rank, R, n
  <1>4. \A i \in 1 .. n : at(i) \in S /\ rank(at(i)) = i - 1
    BY <1>2
  <1>5. \A p \in S : at(rank(p) + 1) = p /\ rank(p) + 1 \in 1 .. n
    <2> SUFFICES ASSUME NEW p \in S PROVE at(rank(p) + 1) = p /\ rank(p) + 1 \in 1 .. n
      OBVIOUS
    <2>1. rank(p) \in 0 .. n - 1 /\ rank(p) + 1 \in 1 .. n /\ (rank(p) + 1) - 1 = rank(p)
      BY <1>2
    <2>2. at(rank(p) + 1) \in S /\ rank(at(rank(p) + 1)) = rank(p)
      BY <1>4, <2>1
    <2> HIDE DEF at
    <2>3. at(rank(p) + 1) = p
      <3>1. CASE at(rank(p) + 1) # p
        <4>1. rank(at(rank(p) + 1)) < rank(p) \/ rank(p) < rank(at(rank(p) + 1))
          BY <1>1, <1>2, <2>2, <3>1 DEF IsOrder
        <4> QED
          BY <2>1, <2>2, <4>1
      <3> QED
        BY <3>1
    <2> QED
      BY <2>1, <2>3
  <1> HIDE DEF at
  <1>6. InOrder(S) \in [1 .. n -> S]
    BY <1>3, <1>4
  <1>7. InOrder(S) \in Seq(S) /\ DOMAIN InOrder(S) = 1 .. n
    BY <1>2, <1>6
  <1>8. Range(InOrder(S)) = S
    <2>1. ASSUME NEW p \in S PROVE p \in Range(InOrder(S))
      <3>1. rank(p) + 1 \in 1 .. n /\ InOrder(S)[rank(p) + 1] = p
        BY <1>3, <1>5
      <3> QED
        BY <1>7, <3>1 DEF Range
    <2>2. Range(InOrder(S)) \subseteq S
      BY <1>6 DEF Range
    <2> QED
      BY <2>1, <2>2
  <1> QED
    BY <1>7, <1>8

LEMMA SortedIs ==
  ASSUME NEW S \in SUBSET Nat, IsFiniteSet(S)
  PROVE  Sorted(S) \in Seq(S) /\ Range(Sorted(S)) = S
  <1> DEFINE T == {<<v>> : v \in S}
             f == [v \in S |-> <<v>>]
  <1>1. T \in SUBSET Seq(Nat)
    <2>1. \A v \in S : <<v>> \in Seq(Nat)
      OBVIOUS
    <2> QED
      BY <2>1
  <1>2. Comparable(T)
    <2> SUFFICES ASSUME NEW p \in T, NEW q \in T, p # q
                 PROVE  \E i \in DOMAIN p \cap DOMAIN q : p[i] # q[i]
      BY DEF Comparable
    <2>1. p = <<p[1]>> /\ q = <<q[1]>> /\ 1 \in DOMAIN p /\ 1 \in DOMAIN q
      OBVIOUS
    <2> QED
      BY <2>1
  <1>3. IsFiniteSet(T)
    <2>1. f \in Surjection(S, T)
      BY DEF Surjection
    <2> HIDE DEF f, T
    <2> QED
      BY <2>1, FS_Surjection
  <1>4. InOrder(T) \in Seq(T) /\ Range(InOrder(T)) = T
    <2> HIDE DEF T
    <2> QED
      BY <1>1, <1>2, <1>3, InOrderIs
  <1>5. Sorted(S) = [i \in DOMAIN InOrder(T) |-> InOrder(T)[i][1]]
    BY DEF Sorted
  <1>6. DOMAIN InOrder(T) = 1 .. Len(InOrder(T)) /\ Len(InOrder(T)) \in Nat
    BY <1>4
  <1>7. \A i \in DOMAIN InOrder(T) : \E v \in S : InOrder(T)[i] = <<v>> /\ InOrder(T)[i][1] = v
    <2> SUFFICES ASSUME NEW i \in DOMAIN InOrder(T)
                 PROVE  \E v \in S : InOrder(T)[i] = <<v>> /\ InOrder(T)[i][1] = v
      OBVIOUS
    <2>1. InOrder(T)[i] \in T
      <3> HIDE DEF T
      <3> QED
        BY <1>4, <1>6, ElementOfSeq
    <2> QED
      BY <2>1
  <1>8. Sorted(S) \in [1 .. Len(InOrder(T)) -> S]
    <2> DEFINE o == InOrder(T)
    <2> HIDE DEF o, T, f
    <2>1. \A i \in DOMAIN o : o[i][1] \in S
      BY <1>7 DEF o
    <2>2. Sorted(S) = [i \in DOMAIN o |-> o[i][1]] /\ DOMAIN o = 1 .. Len(o)
      BY <1>5, <1>6 DEF o
    <2>3. Sorted(S) \in [1 .. Len(o) -> S]
      BY <2>1, <2>2
    <2> QED
      BY <2>3 DEF o
  <1>9. ASSUME NEW v \in S PROVE v \in Range(Sorted(S))
    <2>1. <<v>> \in Range(InOrder(T))
      BY <1>4
    <2>2. PICK i \in DOMAIN InOrder(T) : InOrder(T)[i] = <<v>>
      BY <2>1 DEF Range
    <2>3. Sorted(S)[i] = v /\ i \in DOMAIN Sorted(S)
      BY <1>5, <2>2
    <2> QED
      BY <2>3 DEF Range
  <1> HIDE DEF T
  <1>10. Sorted(S) \in Seq(S)
    BY <1>6, <1>8
  <1>11. Range(Sorted(S)) \subseteq S
    BY <1>8 DEF Range
  <1> QED
    BY <1>9, <1>10, <1>11

LEMMA PickedIs ==
  ASSUME NEW X, NEW s \in Seq(X), NEW P \in SUBSET DOMAIN s
  PROVE  Picked(s, P) \in Seq(X) /\ Range(Picked(s, P)) = {s[i] : i \in P}
  <1> DEFINE o == Sorted(P)
  <1>1. DOMAIN s = 1 .. Len(s) /\ Len(s) \in Nat
    OBVIOUS
  <1>2. P \subseteq Nat /\ IsFiniteSet(P)
    <2>1. IsFiniteSet(1 .. Len(s)) /\ P \in SUBSET (1 .. Len(s))
      <3>1. Len(s) \in Int /\ 1 \in Int
        BY <1>1
      <3>2. P \in SUBSET (1 .. Len(s))
        BY <1>1
      <3> QED
        BY <3>1, <3>2, FS_Interval
    <2>2. IsFiniteSet(P)
      BY <2>1, FS_Subset
    <2>3. P \subseteq Nat
      BY <2>1
    <2> QED
      BY <2>2, <2>3
  <1>3. o \in Seq(P) /\ Range(o) = P
    BY <1>2, SortedIs
  <1>4. Picked(s, P) = [k \in DOMAIN o |-> s[o[k]]]
    BY DEF Picked
  <1> HIDE DEF o
  <1>5. DOMAIN o = 1 .. Len(o) /\ Len(o) \in Nat /\ \A k \in DOMAIN o : o[k] \in P
    BY <1>3
  <1>6. \A k \in DOMAIN o : s[o[k]] \in X
    BY <1>1, <1>5
  <1>7. Picked(s, P) \in [1 .. Len(o) -> X]
    BY <1>4, <1>5, <1>6
  <1>8. Range(Picked(s, P)) = {s[o[k]] : k \in DOMAIN o}
    BY <1>4 DEF Range
  <1>9. {s[o[k]] : k \in DOMAIN o} = {s[i] : i \in P}
    BY <1>3 DEF Range
  <1>10. Picked(s, P) \in Seq(X)
    BY <1>5, <1>7
  <1> QED
    BY <1>8, <1>9, <1>10

-----------------------------------------------------------------------------
(***************************************************************************)
(* The values of parameters.                                               *)
(***************************************************************************)
LEMMA FiniteUnion ==
  ASSUME NEW f, IsFiniteSet(DOMAIN f), \A i \in DOMAIN f : IsFiniteSet(f[i])
  PROVE  IsFiniteSet(UNION {f[i] : i \in DOMAIN f})
  <1> DEFINE g == [i \in DOMAIN f |-> f[i]]
             T == {f[i] : i \in DOMAIN f}
  <1>1. g \in Surjection(DOMAIN f, T)
    BY DEF Surjection
  <1>2. \A x \in T : IsFiniteSet(x)
    OBVIOUS
  <1> HIDE DEF g, T
  <1>3. IsFiniteSet(T)
    BY <1>1, FS_Surjection
  <1>4. IsFiniteSet(UNION T)
    BY <1>2, <1>3, FS_UNION
  <1> QED
    BY <1>4 DEF T

LEMMA DomainFinite ==
  ASSUME NEW X, NEW s \in Seq(X)
  PROVE  DOMAIN s = 1 .. Len(s) /\ Len(s) \in Nat /\ IsFiniteSet(DOMAIN s)
  <1>1. DOMAIN s = 1 .. Len(s) /\ Len(s) \in Nat
    OBVIOUS
  <1>2. Len(s) \in Int /\ 1 \in Int
    BY <1>1
  <1> QED
    BY <1>1, <1>2, FS_Interval

LEMMA ExtendedIs ==
  ASSUME NEW X, NEW values \in Seq(X), NEW more \in Seq(X)
  PROVE  /\ Extended(values, more) \in Seq(X)
         /\ Range(Extended(values, more)) = Range(values) \cup Range(more)
  <1> DEFINE P == {i \in DOMAIN more : /\ more[i] \notin Range(values)
                                       /\ \A j \in 1 .. i - 1 : more[j] # more[i]}
             new == Picked(more, P)
  <1>1. new \in Seq(X) /\ Range(new) = {more[i] : i \in P}
    <2>1. P \in SUBSET DOMAIN more
      OBVIOUS
    <2> HIDE DEF P
    <2> QED
      BY <2>1, PickedIs
  <1>2. Extended(values, more) = values \o new
    BY DEF Extended
  <1>3. ASSUME NEW v \in Range(more), v \notin Range(values)
        PROVE  v \in Range(new)
    <2> DEFINE D == {i \in DOMAIN more : more[i] = v}
    <2>1. D # {}
      BY DEF Range
    <2>2. D \subseteq Nat /\ IsFiniteSet(D)
      <3>1. D \in SUBSET DOMAIN more /\ D \subseteq Nat
        OBVIOUS
      <3>2. IsFiniteSet(DOMAIN more)
        BY DomainFinite
      <3> HIDE DEF D
      <3> QED
        BY <3>1, <3>2, FS_Subset
    <2>3. PICK i \in D : \A j \in D : i <= j
      <3> HIDE DEF D
      <3> QED
        BY <2>1, <2>2, LeastExists
    <2>4. i \in DOMAIN more /\ more[i] = v /\ DOMAIN more = 1 .. Len(more) /\ Len(more) \in Nat
      OBVIOUS
    <2>5. \A j \in 1 .. i - 1 : more[j] # more[i]
      BY <2>2, <2>3, <2>4
    <2>6. i \in P
      BY <1>3, <2>4, <2>5
    <2> HIDE DEF P
    <2> QED
      BY <1>1, <2>4, <2>6
  <1>4. Range(new) \subseteq Range(more)
    <2>1. \A i \in P : more[i] \in Range(more)
      BY DEF Range
    <2> QED
      BY <1>1, <2>1
  <1> HIDE DEF new
  <1>5. values \o new \in Seq(X) /\ Range(values \o new) = Range(values) \cup Range(new)
    BY <1>1, ConcatProperties, RangeConcatenation
  <1> QED
    BY <1>2, <1>3, <1>4, <1>5

LEMMA DistinctIs ==
  ASSUME NEW X, NEW values \in Seq(X)
  PROVE  Distinct(values) \in Seq(X) /\ Range(Distinct(values)) = Range(values)
  <1>1. << >> \in Seq(X) /\ Range(<< >>) = {}
    BY DEF Range
  <1>2. \A s \in Seq(X) : /\ Extended(s, values) \in Seq(X)
                           /\ Range(Extended(s, values)) = Range(s) \cup Range(values)
    BY ExtendedIs
  <1> QED
    BY <1>1, <1>2 DEF Distinct

\* What the values of a parameter stand for.
Meant(name, values) == IF name = Blob THEN UNION {Finds(v) : v \in Range(values)} ELSE Range(values)

LEMMA ExpandedIs ==
  ASSUME NEW name, NEW values \in Seq(Values)
  PROVE  /\ Expanded(name, values) \in Seq(Values)
         /\ Range(Expanded(name, values)) = Meant(name, values)
  <1>1. CASE name # Blob
    BY <1>1 DEF Expanded, Meant
  <1>2. CASE name = Blob
    <2> DEFINE at(i) == {<<i, v>> : v \in Finds(values[i])}
               S == UNION {at(i) : i \in DOMAIN values}
               found == InOrder(S)
               seconds == [k \in DOMAIN found |-> found[k][2]]
    <2>0. Expanded(name, values) = Distinct(seconds)
      BY <1>2 DEF Expanded
    <2>1. /\ DOMAIN values = 1 .. Len(values) /\ Len(values) \in Nat /\ IsFiniteSet(DOMAIN values)
          /\ \A i \in DOMAIN values : values[i] \in Values
      BY DomainFinite
    <2>2. \A v \in Values : Finds(v) \in SUBSET Values /\ IsFiniteSet(Finds(v))
      BY CatalogAssumption, FS_Singleton DEF Finds
    <2>3. \A p \in S : /\ p = <<p[1], p[2]>> /\ p[1] \in DOMAIN values /\ p[2] \in Finds(values[p[1]])
                       /\ p[1] \in Nat /\ p[2] \in Values
      BY <2>1, <2>2
    <2>4. S \in SUBSET Seq(Nat) /\ Comparable(S)
      <3> HIDE DEF S
      <3>1. ASSUME NEW p \in S PROVE p \in Seq(Nat) /\ 1 \in DOMAIN p /\ 2 \in DOMAIN p
        <4>1. PICK a \in Nat, b \in Nat : p = <<a, b>>
          BY <2>3, CatalogAssumption
        <4>2. <<a, b>> \in Seq(Nat) /\ DOMAIN <<a, b>> = {1, 2}
          OBVIOUS
        <4> QED
          BY <4>1, <4>2
      <3>2. ASSUME NEW p \in S, NEW q \in S, p # q
            PROVE  \E i \in DOMAIN p \cap DOMAIN q : p[i] # q[i]
        <4>1. p[1] # q[1] \/ p[2] # q[2]
          BY <2>3, <3>2
        <4> QED
          BY <3>1, <4>1
      <3> QED
        BY <3>1, <3>2 DEF Comparable
    <2>5. IsFiniteSet(S)
      <3> DEFINE f == [i \in DOMAIN values |-> at(i)]
      <3>1. ASSUME NEW i \in DOMAIN values PROVE IsFiniteSet(at(i))
        <4> DEFINE F == Finds(values[i])
                   h == [v \in F |-> <<i, v>>]
        <4>1. IsFiniteSet(F)
          BY <2>1, <2>2
        <4>2. h \in Surjection(F, at(i))
          BY DEF Surjection
        <4> HIDE DEF h, F
        <4> QED
          BY <4>1, <4>2, FS_Surjection
      <3>2. DOMAIN f = DOMAIN values /\ \A i \in DOMAIN f : IsFiniteSet(f[i])
        BY <3>1
      <3>3. S = UNION {f[i] : i \in DOMAIN f}
        BY <3>2
      <3> HIDE DEF f
      <3> QED
        BY <2>1, <3>2, <3>3, FiniteUnion
    <2> HIDE DEF S
    <2>6. found \in Seq(S) /\ Range(found) = S
      BY <2>4, <2>5, InOrderIs
    <2>7. DOMAIN found = 1 .. Len(found) /\ Len(found) \in Nat /\ \A k \in DOMAIN found : found[k] \in S
      BY <2>6, ElementOfSeq
    <2> HIDE DEF found
    <2>8. seconds \in [1 .. Len(found) -> Values]
      BY <2>3, <2>7
    <2>9. seconds \in Seq(Values)
      BY <2>7, <2>8
    <2>10. Range(seconds) = UNION {Finds(v) : v \in Range(values)}
      <3>1. ASSUME NEW x \in Range(seconds) PROVE \E v \in Range(values) : x \in Finds(v)
        <4>1. PICK k \in DOMAIN found : x = found[k][2]
          BY DEF Range
        <4>2. found[k] \in S
          BY <2>7
        <4>3. found[k][1] \in DOMAIN values /\ x \in Finds(values[found[k][1]])
          BY <2>3, <4>1, <4>2
        <4> QED
          BY <4>3 DEF Range
      <3>2. ASSUME NEW v \in Range(values), NEW x \in Finds(v) PROVE x \in Range(seconds)
        <4>1. PICK i \in DOMAIN values : v = values[i]
          BY DEF Range
        <4>2. <<i, x>> \in S
          BY <4>1 DEF S
        <4>3. PICK k \in DOMAIN found : found[k] = <<i, x>>
          BY <2>6, <4>2 DEF Range
        <4>4. seconds[k] = x /\ k \in DOMAIN seconds
          BY <4>3
        <4> QED
          BY <4>4 DEF Range
      <3> QED
        BY <3>1, <3>2
    <2> HIDE DEF seconds
    <2>11. Distinct(seconds) \in Seq(Values) /\ Range(Distinct(seconds)) = Range(seconds)
      BY <2>9, DistinctIs
    <2> QED
      BY <1>2, <2>0, <2>10, <2>11 DEF Meant
  <1> QED
    BY <1>1, <1>2

\* [strategy_values] of a protocol
SettingsOK(settings) ==
  settings.mode \in {"extend", "override"}
    /\ settings.values \in [DOMAIN settings.values -> Seq(Values)]

\* Configured values come from the catalog, from [strategy_values] or, of a blob,
\* from the registry, and a blob has every alias of the registry among its values.
LEMMA ConfiguredIs ==
  ASSUME NEW name, NEW values \in Seq(Values), NEW aliases \in Seq(Values),
         NEW settings, SettingsOK(settings)
  PROVE  LET c == Configured(name, values, aliases, settings)
             set == IF name \in DOMAIN settings.values THEN Range(settings.values[name]) ELSE {}
         IN  /\ c \in Seq(Values)
             /\ Range(c) \subseteq Range(values) \cup set
                                     \cup (IF name = Blob THEN Range(aliases) ELSE {})
             /\ name = Blob => Range(aliases) \subseteq Range(c)
  <1>1. ASSUME NEW s \in Seq(Values)
        PROVE  /\ WithPayloads(name, s, aliases) \in Seq(Values)
               /\ Range(WithPayloads(name, s, aliases))
                    = Range(s) \cup (IF name = Blob THEN Range(aliases) ELSE {})
    BY ExtendedIs DEF WithPayloads
  <1>2. CASE name \notin DOMAIN settings.values
    BY <1>1, <1>2 DEF Configured
  <1>3. CASE name \in DOMAIN settings.values /\ settings.mode = "override"
    <2>1. settings.values[name] \in Seq(Values)
      BY <1>3 DEF SettingsOK
    <2>2. Configured(name, values, aliases, settings)
            = Distinct(WithPayloads(name, settings.values[name], aliases))
      BY <1>3 DEF Configured
    <2> QED
      BY <1>1, <1>3, <2>1, <2>2, DistinctIs
  <1>4. CASE name \in DOMAIN settings.values /\ settings.mode # "override"
    <2>1. settings.values[name] \in Seq(Values)
      BY <1>4 DEF SettingsOK
    <2>2. Configured(name, values, aliases, settings)
            = Extended(WithPayloads(name, values, aliases), settings.values[name])
      BY <1>4 DEF Configured
    <2> QED
      BY <1>1, <1>4, <2>1, <2>2, ExtendedIs
  <1> QED
    BY <1>2, <1>3, <1>4

LEMMA BaseValuesIs ==
  ASSUME NEW p \in CatalogParam, NEW all
  PROVE  /\ BaseValues(p, all) \in Seq(Values)
         /\ Range(BaseValues(p, all)) \subseteq Range(p.values) \cup Range(p.default)
  <1>1. p.values \in Seq(Values) /\ p.default \in Seq(Values)
    BY DEF CatalogParam
  <1>2. << >> \in Seq(Values) /\ Range(<< >>) = {}
    BY DEF Range
  <1>3. p.values # << >> => /\ <<Head(p.values)>> \in Seq(Values)
                            /\ Range(<<Head(p.values)>>) \subseteq Range(p.values)
    <2> SUFFICES ASSUME p.values # << >>
                 PROVE  /\ <<Head(p.values)>> \in Seq(Values)
                        /\ Range(<<Head(p.values)>>) \subseteq Range(p.values)
      OBVIOUS
    <2>1. 1 \in DOMAIN p.values /\ Head(p.values) = p.values[1] /\ p.values[1] \in Values
      BY <1>1
    <2> QED
      BY <2>1 DEF Range
  <1> QED
    BY <1>1, <1>2, <1>3 DEF BaseValues

\* Whence the values of a parameter are: the generator's, or the action's.
LEMMA ParamsIs ==
  ASSUME NEW action \in CatalogAction, NEW generator \in Generator, NEW all
  PROVE  LET ps == Params(action, generator, all)
         IN  /\ ps \in Seq(CatalogOverride)
             /\ \A i \in DOMAIN ps :
                  \/ \E q \in Range(generator.params) : q.name = ps[i].name /\ q.values = ps[i].values
                  \/ \E p \in Range(action.params) :
                       /\ p.name = ps[i].name
                       /\ Range(ps[i].values) \subseteq Range(p.values) \cup Range(p.default)
             /\ ParamNames(action.params) \subseteq ParamNames(ps)
  <1> DEFINE set(name) == {i \in DOMAIN generator.params : generator.params[i].name = name}
             given(p) == IF set(p.name) # {}
                         THEN generator.params[CHOOSE j \in set(p.name) : TRUE].values
                         ELSE BaseValues(p, all)
             own == [i \in DOMAIN action.params |->
                       [name |-> action.params[i].name, values |-> given(action.params[i])]]
             P == {i \in DOMAIN generator.params : generator.params[i].name \notin ParamNames(own)}
             rest == Picked(generator.params, P)
             From(o) == \/ \E q \in Range(generator.params) : q.name = o.name /\ q.values = o.values
                        \/ \E p \in Range(action.params) :
                             /\ p.name = o.name
                             /\ Range(o.values) \subseteq Range(p.values) \cup Range(p.default)
  <1>1. Params(action, generator, all) = own \o rest
    BY DEF Params
  <1>2. action.params \in Seq(CatalogParam) /\ generator.params \in Seq(CatalogOverride)
    BY DEF CatalogAction, Generator
  <1>3. ASSUME NEW p \in Range(action.params)
        PROVE  LET o == [name |-> p.name, values |-> given(p)]
               IN  o \in CatalogOverride /\ From(o)
    <2>1. p \in CatalogParam
      BY <1>2, RangeOfSeq
    <2>2. CASE set(p.name) # {}
      <3> DEFINE j == CHOOSE k \in set(p.name) : TRUE
      <3>1. j \in set(p.name)
        BY <2>2
      <3>2. /\ generator.params[j] \in CatalogOverride
            /\ generator.params[j] \in Range(generator.params)
            /\ generator.params[j].name = p.name
        <4>1. j \in DOMAIN generator.params /\ generator.params[j].name = p.name
          BY <3>1
        <4> HIDE DEF j
        <4> QED
          BY <1>2, <4>1 DEF Range
      <3>3. given(p) = generator.params[j].values
        BY <2>2
      <3> HIDE DEF j, given
      <3> QED
        BY <3>2, <3>3 DEF CatalogOverride
    <2>3. CASE set(p.name) = {}
      <3>1. given(p) = BaseValues(p, all)
        BY <2>3
      <3>2. /\ BaseValues(p, all) \in Seq(Values)
            /\ Range(BaseValues(p, all)) \subseteq Range(p.values) \cup Range(p.default)
        BY <2>1, BaseValuesIs
      <3>3. p.name \in STRING
        BY <2>1 DEF CatalogParam
      <3> HIDE DEF given
      <3> QED
        BY <3>1, <3>2, <3>3 DEF CatalogOverride
    <2> QED
      BY <2>2, <2>3
  <1>4. /\ own \in Seq(CatalogOverride) /\ DOMAIN own = DOMAIN action.params
        /\ \A i \in DOMAIN own : From(own[i]) /\ own[i].name = action.params[i].name
    <2>1. DOMAIN action.params = 1 .. Len(action.params) /\ Len(action.params) \in Nat
      BY <1>2
    <2>2. \A i \in DOMAIN action.params : action.params[i] \in Range(action.params)
      BY DEF Range
    <2>3. ASSUME NEW i \in DOMAIN action.params
          PROVE  /\ own[i] \in CatalogOverride /\ From(own[i])
                 /\ own[i].name = action.params[i].name
      <3>1. own[i] = [name |-> action.params[i].name, values |-> given(action.params[i])]
        OBVIOUS
      <3> HIDE DEF own, given, From
      <3> QED
        BY <1>3, <2>2, <3>1
    <2>4. DOMAIN own = DOMAIN action.params /\ own = [i \in 1 .. Len(action.params) |-> own[i]]
      BY <2>1
    <2> HIDE DEF own, From
    <2>5. own \in [1 .. Len(action.params) -> CatalogOverride]
      BY <2>1, <2>3, <2>4
    <2>6. own \in Seq(CatalogOverride)
      BY <2>1, <2>5
    <2> QED
      BY <2>3, <2>4, <2>6
  <1>5. rest \in Seq(CatalogOverride) /\ Range(rest) = {generator.params[i] : i \in P}
    <2>1. P \in SUBSET DOMAIN generator.params
      OBVIOUS
    <2> HIDE DEF P
    <2> QED
      BY <1>2, <2>1, PickedIs
  <1>6. \A o \in Range(rest) : From(o)
    <2>1. \A i \in P : From(generator.params[i])
      BY DEF Range
    <2> HIDE DEF From, P
    <2> QED
      BY <1>5, <2>1
  <1>7. \A o \in Range(own) : From(o)
    <2> HIDE DEF From, own
    <2> QED
      BY <1>4 DEF Range
  <1>8. ParamNames(action.params) = ParamNames(own)
    <2> HIDE DEF own
    <2> QED
      BY <1>4 DEF ParamNames
  <1> HIDE DEF own, rest, From
  <1>9. own \o rest \in Seq(CatalogOverride) /\ Range(own \o rest) = Range(own) \cup Range(rest)
    BY <1>4, <1>5, ConcatProperties, RangeConcatenation
  <1>10. ParamNames(own) \subseteq ParamNames(own \o rest)
    <2>1. \A s : ParamNames(s) = {p.name : p \in Range(s)}
      BY DEF ParamNames, Range
    <2> QED
      BY <1>9, <2>1
  <1>11. \A i \in DOMAIN (own \o rest) : From((own \o rest)[i])
    <2>1. \A i \in DOMAIN (own \o rest) : (own \o rest)[i] \in Range(own \o rest)
      BY DEF Range
    <2> QED
      BY <1>6, <1>7, <1>9, <2>1
  <1> QED
    BY <1>1, <1>8, <1>9, <1>10, <1>11 DEF From

\* The parameters an action is rendered with, each with a value, configured from what
\* the catalog has for it.
LEMMA MergedIs ==
  ASSUME NEW action \in CatalogAction, NEW generator \in Generator, NEW all,
         NEW aliases \in Seq(Values), NEW settings, SettingsOK(settings)
  PROVE  LET ms == Merged(action, generator, all, aliases, settings)
             ps == Params(action, generator, all)
             configured(p) == Configured(p.name, Expanded(p.name, p.values), aliases, settings)
         IN  /\ ms \in Seq(CatalogOverride)
             /\ \A m \in Range(ms) : \E p \in Range(ps) :
                  m.name = p.name /\ m.values = configured(p) /\ m.values # <<>>
             /\ \A p \in Range(ps) : configured(p) # <<>> =>
                  \E m \in Range(ms) : m.name = p.name /\ m.values = configured(p)
  <1> DEFINE ps == Params(action, generator, all)
             configured(p) == Configured(p.name, Expanded(p.name, p.values), aliases, settings)
             full == [i \in DOMAIN ps |-> [name |-> ps[i].name, values |-> configured(ps[i])]]
             P == {i \in DOMAIN full : full[i].values # <<>>}
             ms == Picked(full, P)
  <1>1. Merged(action, generator, all, aliases, settings) = ms
    BY DEF Merged
  <1>2. ps \in Seq(CatalogOverride)
    BY ParamsIs
  <1> HIDE DEF ps
  <1>3. DOMAIN ps = 1 .. Len(ps) /\ Len(ps) \in Nat
        /\ \A i \in DOMAIN ps : ps[i] \in CatalogOverride /\ ps[i] \in Range(ps)
    BY <1>2 DEF Range
  <1>4. ASSUME NEW p \in CatalogOverride
        PROVE  [name |-> p.name, values |-> configured(p)] \in CatalogOverride
    <2>1. p.name \in STRING /\ p.values \in Seq(Values)
      BY DEF CatalogOverride
    <2>2. Expanded(p.name, p.values) \in Seq(Values)
      BY <2>1, ExpandedIs
    <2>3. configured(p) \in Seq(Values)
      BY <2>2, ConfiguredIs
    <2> HIDE DEF configured
    <2> QED
      BY <2>1, <2>3 DEF CatalogOverride
  <1>5. ASSUME NEW i \in DOMAIN ps
        PROVE  /\ full[i] \in CatalogOverride
               /\ full[i].name = ps[i].name /\ full[i].values = configured(ps[i])
    <2>1. full[i] = [name |-> ps[i].name, values |-> configured(ps[i])]
      OBVIOUS
    <2> HIDE DEF full, configured
    <2> QED
      BY <1>3, <1>4, <2>1
  <1>6. DOMAIN full = DOMAIN ps /\ full = [i \in DOMAIN ps |-> full[i]]
    OBVIOUS
  <1> HIDE DEF full, configured
  <1>7. full \in [1 .. Len(ps) -> CatalogOverride]
    BY <1>3, <1>5, <1>6
  <1>8. full \in Seq(CatalogOverride)
    BY <1>3, <1>7
  <1>9. ms \in Seq(CatalogOverride) /\ Range(ms) = {full[i] : i \in P}
    <2>1. P \in SUBSET DOMAIN full
      OBVIOUS
    <2> HIDE DEF P
    <2> QED
      BY <1>8, <2>1, PickedIs
  <1> HIDE DEF ms
  <1>10. ASSUME NEW m \in Range(ms)
         PROVE  \E p \in Range(ps) : m.name = p.name /\ m.values = configured(p) /\ m.values # <<>>
    <2>1. PICK i \in P : m = full[i]
      BY <1>9
    <2> QED
      BY <1>3, <1>5, <1>6, <2>1
  <1>11. ASSUME NEW p \in Range(ps), configured(p) # <<>>
         PROVE  \E m \in Range(ms) : m.name = p.name /\ m.values = configured(p)
    <2>1. PICK i \in DOMAIN ps : p = ps[i]
      BY DEF Range
    <2>2. i \in P
      BY <1>5, <1>6, <1>11, <2>1
    <2>3. full[i] \in Range(ms)
      BY <1>9, <2>2
    <2> QED
      BY <1>5, <2>1, <2>3
  <1> QED
    BY <1>1, <1>9, <1>10, <1>11 DEF configured, ps

-----------------------------------------------------------------------------
(***************************************************************************)
(* Rendering.                                                              *)
(***************************************************************************)
\* All functions from one finite set into another.
LEMMA FunctionsFinite ==
  ASSUME NEW S, NEW T, IsFiniteSet(S), IsFiniteSet(T)
  PROVE  IsFiniteSet([S -> T])
  <1> DEFINE graph == [f \in [S -> T] |-> {<<x, f[x]>> : x \in S}]
  <1>1. IsFiniteSet(SUBSET (S \X T))
    BY FS_Product, FS_SUBSET
  <1>2. graph \in [[S -> T] -> SUBSET (S \X T)]
    OBVIOUS
  <1>3. ASSUME NEW f \in [S -> T], NEW g \in [S -> T], graph[f] = graph[g]
        PROVE  f = g
    <2>1. ASSUME NEW x \in S PROVE f[x] = g[x]
      <3>1. <<x, f[x]>> \in graph[g]
        BY <1>3
      <3>2. PICK y \in S : <<x, f[x]>> = <<y, g[y]>>
        BY <3>1
      <3> QED
        BY <3>2
    <2> QED
      BY <2>1
  <1>4. graph \in Injection([S -> T], SUBSET (S \X T))
    <2> HIDE DEF graph
    <2> QED
      BY <1>2, <1>3 DEF Injection, IsInjective
  <1> HIDE DEF graph
  <1> QED
    BY <1>1, <1>4, FS_Injection

LEMMA CombinationsIs ==
  ASSUME NEW params \in Seq(CatalogOverride)
  PROVE  /\ IsFiniteSet(Combinations(params)) /\ Combinations(params) \subseteq Seq(Nat)
         /\ \A c \in Combinations(params) :
              /\ Len(c) = Len(params) /\ DOMAIN c = DOMAIN params
              /\ \A i \in DOMAIN params : c[i] \in DOMAIN params[i].values
  <1> DEFINE n == Len(params)
             f == [i \in DOMAIN params |-> DOMAIN params[i].values]
             U == UNION {f[i] : i \in DOMAIN f}
  <1>1. DOMAIN params = 1 .. n /\ n \in Nat /\ IsFiniteSet(DOMAIN params)
    BY DomainFinite
  <1>2. \A i \in DOMAIN params : params[i].values \in Seq(Values)
    <2>1. \A i \in DOMAIN params : params[i] \in CatalogOverride
      BY <1>1, ElementOfSeq
    <2> QED
      BY <2>1 DEF CatalogOverride
  <1>3. \A i \in DOMAIN params :
          IsFiniteSet(DOMAIN params[i].values) /\ DOMAIN params[i].values \subseteq Nat
    <2> SUFFICES ASSUME NEW i \in DOMAIN params
                 PROVE  IsFiniteSet(DOMAIN params[i].values) /\ DOMAIN params[i].values \subseteq Nat
      OBVIOUS
    <2>1. params[i].values \in Seq(Values)
      BY <1>2
    <2>2. /\ DOMAIN params[i].values = 1 .. Len(params[i].values) /\ Len(params[i].values) \in Nat
          /\ IsFiniteSet(DOMAIN params[i].values)
      BY <2>1, DomainFinite
    <2> QED
      BY <2>2
  <1>4. IsFiniteSet(U)
    <2>1. DOMAIN f = DOMAIN params /\ \A i \in DOMAIN f : IsFiniteSet(f[i])
      BY <1>3
    <2> HIDE DEF f
    <2> QED
      BY <1>1, <2>1, FiniteUnion
  <1>5. U \subseteq Nat /\ U = UNION {DOMAIN params[i].values : i \in DOMAIN params}
    BY <1>3
  <1> HIDE DEF U
  <1>6. IsFiniteSet([DOMAIN params -> U])
    BY <1>1, <1>4, FunctionsFinite
  <1>7. Combinations(params) = {c \in [DOMAIN params -> U] :
                                  \A i \in DOMAIN params : c[i] \in DOMAIN params[i].values}
    BY <1>5 DEF Combinations
  <1>8. IsFiniteSet(Combinations(params))
    BY <1>6, <1>7, FS_Subset
  <1>9. \A c \in Combinations(params) : c \in [1 .. n -> Nat]
    BY <1>1, <1>5, <1>7
  <1>10. \A c \in [1 .. n -> Nat] : c \in Seq(Nat) /\ Len(c) = n
    BY <1>1
  <1> QED
    BY <1>1, <1>7, <1>8, <1>9, <1>10

\* What a search mode generates, and which actions it may ask for.
LEMMA GeneratorsAre ==
  ASSUME NEW catalog, CatalogOK(catalog), NEW mode, NEW key, HasGenerator(catalog, mode, key)
  PROVE  Generators(catalog, mode, key) \in Seq(Generator)
  <1>1. \A id \in Families : Whole(id) \in Generator
    <2>1. << >> \in Seq(CatalogOverride) /\ Actions \in SUBSET Actions
      OBVIOUS
    <2> QED
      BY <2>1 DEF Whole, Generator
  <1>2. CASE mode = "signal"
    <2>1. key \in DOMAIN catalog.signal
      BY <1>2 DEF HasGenerator
    <2>2. Generators(catalog, mode, key) = catalog.signal[key]
      BY <1>2 DEF Generators
    <2> QED
      BY <2>1, <2>2 DEF CatalogOK
  <1>3. CASE mode = "expand"
    <2> DEFINE s == catalog.expand[key]
    <2>1. key \in DOMAIN catalog.expand
      BY <1>3 DEF HasGenerator
    <2>2. Generators(catalog, mode, key) = [i \in DOMAIN s |-> Whole(s[i])]
      BY <1>3 DEF Generators
    <2>3. s \in Seq(Families)
      BY <2>1 DEF CatalogOK
    <2> HIDE DEF s
    <2>4. DOMAIN s = 1 .. Len(s) /\ Len(s) \in Nat /\ \A i \in DOMAIN s : s[i] \in Families
      BY <2>3
    <2>5. Generators(catalog, mode, key) \in [1 .. Len(s) -> Generator]
      BY <1>1, <2>2, <2>4
    <2> QED
      BY <2>4, <2>5
  <1>4. CASE mode = "force"
    <2> DEFINE s == catalog.families
    <2>1. Generators(catalog, mode, key) = [i \in DOMAIN s |-> Whole(s[i].id)]
      BY <1>4 DEF Generators
    <2>2. s \in Seq(CatalogFamily)
      BY DEF CatalogOK
    <2> HIDE DEF s
    <2>3. DOMAIN s = 1 .. Len(s) /\ Len(s) \in Nat /\ \A i \in DOMAIN s : s[i] \in CatalogFamily
      BY <2>2
    <2>4. \A i \in DOMAIN s : s[i].id \in Families
      BY <2>3 DEF CatalogFamily
    <2>5. Generators(catalog, mode, key) \in [1 .. Len(s) -> Generator]
      BY <1>1, <2>1, <2>3, <2>4
    <2> QED
      BY <2>3, <2>5
  <1> QED
    BY <1>2, <1>3, <1>4 DEF HasGenerator

ActionAt(catalog, generator, a) == FamilyOf(catalog.families, generator.family).actions[a]

LEMMA ChosenAre ==
  ASSUME NEW catalog, CatalogOK(catalog), NEW generator \in Generator, NEW key
  PROVE  /\ IsFiniteSet(Chosen(catalog, generator, key)) /\ Chosen(catalog, generator, key) \subseteq Nat
         /\ \A a \in Chosen(catalog, generator, key) :
              /\ ActionAt(catalog, generator, a) \in CatalogAction
              /\ \E f \in Range(catalog.families) : ActionAt(catalog, generator, a) \in Range(f.actions)
  <1> DEFINE s == catalog.families
             N == Named(s, generator.family)
             family == FamilyOf(s, generator.family)
  <1>1. CASE N = {}
    <2>1. Chosen(catalog, generator, key) = {}
      BY <1>1 DEF Chosen
    <2> QED
      BY <2>1, FS_EmptySet
  <1>2. CASE N # {}
    <2>1. s \in Seq(CatalogFamily) /\ DOMAIN s = 1 .. Len(s) /\ Len(s) \in Nat
      BY DEF CatalogOK
    <2>2. N \in SUBSET (0 .. Len(s)) /\ N \subseteq DOMAIN s
      BY <2>1 DEF Named
    <2>3. PICK i \in N : family = s[i]
      <3>1. \E i \in N : \A j \in N : j <= i
        BY <1>2, <2>1, <2>2, GreatestExists
      <3> QED
        BY <3>1 DEF FamilyOf
    <2>4. family \in CatalogFamily /\ family \in Range(s)
      <3>1. i \in DOMAIN s /\ s[i] \in CatalogFamily
        BY <2>1, <2>2, ElementOfSeq
      <3> QED
        BY <2>3, <3>1 DEF Range
    <2>5. family.actions \in Seq(CatalogAction)
      BY <2>4 DEF CatalogFamily
    <2>6. Chosen(catalog, generator, key) \in SUBSET DOMAIN family.actions
      BY <1>2 DEF Chosen
    <2>7. \A a \in Chosen(catalog, generator, key) : ActionAt(catalog, generator, a) = family.actions[a]
      BY DEF ActionAt
    <2> HIDE DEF family, N, s
    <2>8. /\ DOMAIN family.actions = 1 .. Len(family.actions) /\ Len(family.actions) \in Nat
          /\ IsFiniteSet(DOMAIN family.actions)
      BY <2>5, DomainFinite
    <2>9. IsFiniteSet(Chosen(catalog, generator, key))
      BY <2>6, <2>8, FS_Subset
    <2>10. ASSUME NEW a \in Chosen(catalog, generator, key)
           PROVE  /\ family.actions[a] \in CatalogAction
                  /\ family.actions[a] \in Range(family.actions)
      <3>1. a \in DOMAIN family.actions
        BY <2>6
      <3> QED
        BY <2>5, <2>8, <3>1, ElementOfSeq DEF Range
    <2> QED
      BY <2>4, <2>6, <2>7, <2>8, <2>9, <2>10 DEF s
  <1> QED
    BY <1>1, <1>2

\* A hole of a template takes one of the values of its parameter.
LEMMA ValueTyped ==
  ASSUME NEW params \in Seq(CatalogOverride), NEW c \in Combinations(params),
         NEW name \in ParamNames(params)
  PROVE  /\ ValueOf(params, c, name) \in Values
         /\ \E i \in DOMAIN params :
              /\ params[i] \in Range(params) /\ params[i].name = name
              /\ ValueOf(params, c, name) \in Range(params[i].values)
  <1> DEFINE i == CHOOSE j \in DOMAIN params : params[j].name = name
  <1>1. i \in DOMAIN params /\ params[i].name = name
    BY DEF ParamNames
  <1>2. ValueOf(params, c, name) = params[i].values[c[i]]
    BY DEF ValueOf
  <1> HIDE DEF i
  <1>3. c[i] \in DOMAIN params[i].values
    BY <1>1, CombinationsIs
  <1>4. params[i] \in CatalogOverride
    <2>1. DOMAIN params = 1 .. Len(params)
      OBVIOUS
    <2> QED
      BY <1>1, <2>1, ElementOfSeq
  <1>5. params[i].values \in Seq(Values)
    BY <1>4 DEF CatalogOverride
  <1>6. params[i].values[c[i]] \in Values /\ params[i].values[c[i]] \in Range(params[i].values)
    <2>1. DOMAIN params[i].values = 1 .. Len(params[i].values)
      BY <1>5
    <2> QED
      BY <1>3, <1>5, <2>1, ElementOfSeq DEF Range
  <1> QED
    BY <1>1, <1>2, <1>6 DEF Range

\* What an action renders for one combination is a variant.
LEMMA LuaTyped ==
  ASSUME NEW template \in Templates, NEW params \in Seq(CatalogOverride),
         NEW c \in Combinations(params), Renderable(template, params)
  PROVE  Lua(template, params, c) \in Luas
  <1> DEFINE fill == [name \in template.holes \cup template.suffixes |->
                        IF name \in template.holes THEN Filled(name, ValueOf(params, c, name))
                        ELSE Suffix(params, c, name)]
  <1>1. ASSUME NEW name \in template.holes
        PROVE  Filled(name, ValueOf(params, c, name)) \in Values
    <2>1. ValueOf(params, c, name) \in Values
      BY ValueTyped DEF Renderable
    <2> QED
      BY <2>1, CatalogAssumption DEF Filled
  <1>2. ASSUME NEW name
        PROVE  Suffix(params, c, name) \in Values
    <2>1. name \in ParamNames(params) => ValueOf(params, c, name) \in Values
      BY ValueTyped
    <2> QED
      BY <2>1, CatalogAssumption DEF Suffix
  <1>3. fill \in [template.holes \cup template.suffixes -> Values]
    BY <1>1, <1>2
  <1>4. Lua(template, params, c) = [template |-> template.text, fill |-> fill]
    BY DEF Lua
  <1> HIDE DEF fill
  <1>5. [template : {template.text}, fill : [template.holes \cup template.suffixes -> Values]] \subseteq Luas
    BY CatalogAssumption
  <1> QED
    BY <1>3, <1>4, <1>5

LEMMA OptionsBeforeTyped ==
  ASSUME NEW template \in Templates, NEW params \in Seq(CatalogOverride),
         NEW c \in Combinations(params), Renderable(template, params), NEW key \in Keys
  PROVE  /\ BlobOption(template, params, c) \in Seq(Leading)
         /\ PayloadOption(template, params, c, key) \in Seq(Leading)
  <1>1. << >> \in Seq(Leading) /\ \A x \in Leading : <<x>> \in Seq(Leading)
    OBVIOUS
  <1>2. BlobOption(template, params, c) \in Seq(Leading)
    <2> DEFINE file == ValueOf(params, c, Blob)
    <2>1. CASE Blob \in template.holes /\ file \in DOMAIN BlobName
      <3>1. file \in Values /\ BlobName[file] \in Values
        BY <2>1, ValueTyped, CatalogAssumption DEF Renderable
      <3>2. [blob |-> BlobName[file], file |-> file] \in Leading
        BY <3>1, CatalogAssumption
      <3>3. BlobOption(template, params, c) = <<[blob |-> BlobName[file], file |-> file]>>
        BY <2>1 DEF BlobOption
      <3> QED
        BY <1>1, <3>2, <3>3
    <2>2. CASE ~(Blob \in template.holes /\ file \in DOMAIN BlobName)
      BY <1>1, <2>2 DEF BlobOption
    <2> QED
      BY <2>1, <2>2
  <1>3. PayloadOption(template, params, c, key) \in Seq(Leading)
    <2>1. template.payload \in Seq(Values)
      BY CatalogAssumption DEF CatalogTemplate
    <2>2. \A v \in Values : [payload |-> v] \in Leading
      BY CatalogAssumption
    <2>5. CASE Payload \in template.holes
      <3>1. ValueOf(params, c, Payload) \in Values
        BY <2>5, ValueTyped DEF Renderable
      <3> QED
        BY <1>1, <2>2, <2>5, <3>1 DEF PayloadOption
    <2>3. CASE Payload \notin template.holes /\ template.payload # << >>
      <3>1. Head(template.payload) \in Values
        BY <2>1, <2>3
      <3> QED
        BY <1>1, <2>2, <2>3, <3>1 DEF PayloadOption
    <2>4. CASE Payload \notin template.holes /\ template.payload = << >>
      <3>1. Standard[key] \in Values
        BY CatalogAssumption, PlanAssumption
      <3> QED
        BY <1>1, <2>2, <2>4, <3>1 DEF PayloadOption
    <2> QED
      BY <2>3, <2>4, <2>5
  <1> QED
    BY <1>2, <1>3

VariantOf(catalog, generator, a, params, key, c) ==
  LET action == ActionAt(catalog, generator, a)
  IN  [family |-> generator.family, action |-> action.id,
       before |-> BlobOption(action.template, params, c) \o PayloadOption(action.template, params, c, key),
       lua |-> Lua(action.template, params, c)]

LEMMA VariantTyped ==
  ASSUME NEW catalog, NEW generator \in Generator, NEW a,
         ActionAt(catalog, generator, a) \in CatalogAction,
         NEW params \in Seq(CatalogOverride), NEW c \in Combinations(params),
         Renderable(ActionAt(catalog, generator, a).template, params), NEW key \in Keys
  PROVE  VariantOf(catalog, generator, a, params, key, c) \in Variant
  <1> DEFINE action == ActionAt(catalog, generator, a)
             template == action.template
             before == BlobOption(template, params, c) \o PayloadOption(template, params, c, key)
             lua == Lua(template, params, c)
  <1>1. generator.family \in Families /\ action.id \in Actions /\ template \in Templates
    BY DEF Generator, CatalogAction
  <1>2. before \in Seq(Leading) /\ lua \in Luas
    BY <1>1, OptionsBeforeTyped, LuaTyped, ConcatProperties
  <1>3. VariantOf(catalog, generator, a, params, key, c)
          = [family |-> generator.family, action |-> action.id, before |-> before, lua |-> lua]
    BY DEF VariantOf
  <1> HIDE DEF before, lua, action
  <1> QED
    BY <1>1, <1>2, <1>3 DEF Variant

-----------------------------------------------------------------------------
(***************************************************************************)
(* The catalog as the plan renders it.                                     *)
(***************************************************************************)
PlanGenerators == Generators(plan.catalog, plan.mode, Key)
ActionIn(g, a) == ActionAt(plan.catalog, PlanGenerators[g], a)
ParamsIn(g, a) == Merged(ActionIn(g, a), PlanGenerators[g], plan.mode # "signal", Aliases, Settings)
ActionsIn(g)   == {a \in Chosen(plan.catalog, PlanGenerators[g], Key) :
                     Renderable(ActionIn(g, a).template, ParamsIn(g, a))}
PlacesIn(g, a) == {<<g, a>> \o c : c \in Combinations(ParamsIn(g, a))}
AllPlaces         == UNION {UNION {PlacesIn(g, a) : a \in ActionsIn(g)} : g \in DOMAIN PlanGenerators}
VariantIn(g, a, c) == VariantOf(plan.catalog, PlanGenerators[g], a, ParamsIn(g, a), Key, c)
PlanRendered   == Rendered(plan.catalog, plan.mode, Key, Aliases, Settings)

\* What the walk over the catalog may rely on.
Prepared ==
  /\ CatalogOK(plan.catalog) /\ HasGenerator(plan.catalog, plan.mode, Key) /\ Key \in Keys
  /\ Aliases \in Seq(Values) /\ SettingsOK(Settings)

LEMMA PlaceIs ==
  ASSUME NEW g \in Nat, NEW a \in Nat, NEW c \in Seq(Nat)
  PROVE  LET x == <<g, a>> \o c
         IN  /\ x \in Seq(Nat) /\ Len(x) = Len(c) + 2 /\ x[1] = g /\ x[2] = a
             /\ \A i \in 1 .. Len(c) : i + 2 \in DOMAIN x /\ x[i + 2] = c[i]
             /\ SubSeq(x, 3, Len(x)) = c
  <1> DEFINE x == <<g, a>> \o c
  <1>1. <<g, a>> \in Seq(Nat) /\ Len(<<g, a>>) = 2 /\ Len(c) \in Nat /\ DOMAIN c = 1 .. Len(c)
    OBVIOUS
  <1>2. /\ x \in Seq(Nat) /\ Len(x) = 2 + Len(c)
        /\ \A i \in 1 .. 2 + Len(c) : x[i] = IF i <= 2 THEN <<g, a>>[i] ELSE c[i - 2]
    BY <1>1, ConcatProperties
  <1> HIDE DEF x
  <1>3. Len(x) = Len(c) + 2 /\ DOMAIN x = 1 .. Len(c) + 2
    BY <1>1, <1>2
  <1>4. x[1] = g /\ x[2] = a
    BY <1>1, <1>2
  <1>5. \A i \in 1 .. Len(c) : i + 2 \in DOMAIN x /\ x[i + 2] = c[i]
    <2> SUFFICES ASSUME NEW i \in 1 .. Len(c) PROVE i + 2 \in DOMAIN x /\ x[i + 2] = c[i]
      OBVIOUS
    <2>1. i + 2 \in 1 .. 2 + Len(c) /\ ~(i + 2 <= 2) /\ (i + 2) - 2 = i
      BY <1>1
    <2> QED
      BY <1>2, <1>3, <2>1
  <1>6. SubSeq(x, 3, Len(x)) = c
    <2> DEFINE s == SubSeq(x, 3, Len(x))
    <2>1. 3 \in Int /\ Len(x) \in Int /\ \A i \in 3 .. Len(x) : x[i] \in Nat
      <3>1. Len(x) \in Nat /\ DOMAIN x = 1 .. Len(x) /\ \A i \in DOMAIN x : x[i] \in Nat
        BY <1>2
      <3> QED
        BY <3>1
    <2>2. /\ s \in Seq(Nat) /\ Len(s) = Len(c)
          /\ \A i \in 1 .. Len(c) : s[i] = x[3 + i - 1]
      <3>1. /\ s \in Seq(Nat) /\ Len(s) = IF 3 <= Len(x) THEN Len(x) - 3 + 1 ELSE 0
            /\ \A i \in 1 .. Len(x) - 3 + 1 : s[i] = x[3 + i - 1]
        BY <2>1, SubSeqProperties
      <3> QED
        BY <1>1, <1>3, <3>1
    <2>3. \A i \in 1 .. Len(c) : 3 + i - 1 = i + 2
      BY <1>1
    <2> HIDE DEF s
    <2>4. \A i \in 1 .. Len(c) : s[i] = c[i]
      BY <1>5, <2>2, <2>3
    <2>5. s = c
      BY <2>2, <2>4, SeqEqual
    <2> QED
      BY <2>5 DEF s
  <1> QED
    BY <1>2, <1>3, <1>4, <1>5, <1>6 DEF x

LEMMA GeneratorIn ==
  ASSUME Prepared
  PROVE  /\ PlanGenerators \in Seq(Generator)
         /\ IsFiniteSet(DOMAIN PlanGenerators) /\ DOMAIN PlanGenerators \subseteq Nat
         /\ \A g \in DOMAIN PlanGenerators :
              PlanGenerators[g] \in Generator /\ PlanGenerators[g] \in Range(PlanGenerators)
  <1>1. PlanGenerators \in Seq(Generator)
    BY GeneratorsAre DEF Prepared, PlanGenerators
  <1>2. /\ DOMAIN PlanGenerators = 1 .. Len(PlanGenerators) /\ Len(PlanGenerators) \in Nat
        /\ IsFiniteSet(DOMAIN PlanGenerators)
    BY <1>1, DomainFinite
  <1> QED
    BY <1>1, <1>2, ElementOfSeq DEF Range

LEMMA ParamsInTyped ==
  ASSUME Prepared, NEW g \in DOMAIN PlanGenerators,
         NEW a \in Chosen(plan.catalog, PlanGenerators[g], Key)
  PROVE  ActionIn(g, a) \in CatalogAction /\ ParamsIn(g, a) \in Seq(CatalogOverride)
  <1>1. PlanGenerators[g] \in Generator
    BY GeneratorIn
  <1>2. ActionIn(g, a) \in CatalogAction
    BY <1>1, ChosenAre DEF ActionIn, Prepared
  <1> QED
    BY <1>1, <1>2, MergedIs DEF ParamsIn, Prepared

LEMMA PlacesAre ==
  ASSUME Prepared
  PROVE  AllPlaces \in SUBSET Seq(Nat) /\ IsFiniteSet(AllPlaces) /\ Comparable(AllPlaces)
  <1>1. ASSUME NEW g \in DOMAIN PlanGenerators, NEW a \in ActionsIn(g)
        PROVE  /\ g \in Nat /\ a \in Nat /\ ParamsIn(g, a) \in Seq(CatalogOverride)
               /\ IsFiniteSet(Combinations(ParamsIn(g, a)))
               /\ \A c \in Combinations(ParamsIn(g, a)) :
                    c \in Seq(Nat) /\ Len(c) = Len(ParamsIn(g, a))
    <2>1. PlanGenerators[g] \in Generator /\ g \in Nat /\ CatalogOK(plan.catalog)
      BY GeneratorIn DEF Prepared
    <2>2. a \in Chosen(plan.catalog, PlanGenerators[g], Key)
      BY DEF ActionsIn
    <2>3. a \in Nat
      BY <2>1, <2>2, ChosenAre
    <2>4. ParamsIn(g, a) \in Seq(CatalogOverride)
      BY <2>2, ParamsInTyped
    <2> QED
      BY <2>1, <2>3, <2>4, CombinationsIs
  <1>2. ASSUME NEW p \in AllPlaces
        PROVE  \E g \in DOMAIN PlanGenerators : \E a \in ActionsIn(g) :
                 \E c \in Combinations(ParamsIn(g, a)) : p = <<g, a>> \o c
    <2>1. PICK g \in DOMAIN PlanGenerators : p \in UNION {PlacesIn(g, a) : a \in ActionsIn(g)}
      BY DEF AllPlaces
    <2>2. PICK a \in ActionsIn(g) : p \in PlacesIn(g, a)
      BY <2>1
    <2>3. \E c \in Combinations(ParamsIn(g, a)) : p = <<g, a>> \o c
      BY <2>2 DEF PlacesIn
    <2> QED
      BY <2>3
  <1>3. AllPlaces \in SUBSET Seq(Nat)
    <2> SUFFICES ASSUME NEW p \in AllPlaces PROVE p \in Seq(Nat)
      OBVIOUS
    <2>1. PICK g \in DOMAIN PlanGenerators : \E a \in ActionsIn(g) :
            \E c \in Combinations(ParamsIn(g, a)) : p = <<g, a>> \o c
      BY <1>2
    <2>2. PICK a \in ActionsIn(g) : \E c \in Combinations(ParamsIn(g, a)) : p = <<g, a>> \o c
      BY <2>1
    <2>3. PICK c \in Combinations(ParamsIn(g, a)) : p = <<g, a>> \o c
      BY <2>2
    <2> QED
      BY <1>1, <2>3, PlaceIs
  <1>4. IsFiniteSet(AllPlaces)
    <2>1. ASSUME NEW g \in DOMAIN PlanGenerators, NEW a \in ActionsIn(g)
          PROVE  IsFiniteSet(PlacesIn(g, a))
      <3> DEFINE C == Combinations(ParamsIn(g, a))
                 f == [c \in C |-> <<g, a>> \o c]
                 P == {<<g, a>> \o c : c \in C}
      <3>1. f \in Surjection(C, P)
        BY DEF Surjection
      <3>2. IsFiniteSet(C)
        BY <1>1
      <3> HIDE DEF f, P, C
      <3>3. IsFiniteSet(P)
        BY <3>1, <3>2, FS_Surjection
      <3> QED
        BY <3>3 DEF PlacesIn, P, C
    <2>2. ASSUME NEW g \in DOMAIN PlanGenerators
          PROVE  IsFiniteSet(UNION {PlacesIn(g, a) : a \in ActionsIn(g)})
      <3> DEFINE f == [a \in ActionsIn(g) |-> PlacesIn(g, a)]
      <3>1. IsFiniteSet(ActionsIn(g))
        <4>1. IsFiniteSet(Chosen(plan.catalog, PlanGenerators[g], Key))
          BY GeneratorIn, ChosenAre DEF Prepared
        <4> QED
          BY <4>1, FS_Subset DEF ActionsIn
      <3>2. DOMAIN f = ActionsIn(g) /\ \A a \in DOMAIN f : IsFiniteSet(f[a])
        BY <2>1
      <3>3. {f[a] : a \in DOMAIN f} = {PlacesIn(g, a) : a \in ActionsIn(g)}
        OBVIOUS
      <3> HIDE DEF f
      <3>4. IsFiniteSet(UNION {f[a] : a \in DOMAIN f})
        BY <3>1, <3>2, FiniteUnion
      <3> QED
        BY <3>3, <3>4
    <2> DEFINE h == [g \in DOMAIN PlanGenerators |-> UNION {PlacesIn(g, a) : a \in ActionsIn(g)}]
    <2>3. /\ DOMAIN h = DOMAIN PlanGenerators /\ IsFiniteSet(DOMAIN h)
          /\ \A g \in DOMAIN h : IsFiniteSet(h[g])
      BY <2>2, GeneratorIn
    <2>4. AllPlaces = UNION {h[g] : g \in DOMAIN h}
      BY DEF AllPlaces
    <2> HIDE DEF h
    <2> QED
      BY <2>3, <2>4, FiniteUnion
  <1>5. ASSUME NEW p \in AllPlaces, NEW q \in AllPlaces, p # q
        PROVE  \E i \in DOMAIN p \cap DOMAIN q : p[i] # q[i]
    <2>1. PICK g \in DOMAIN PlanGenerators : \E a \in ActionsIn(g) :
            \E c \in Combinations(ParamsIn(g, a)) : p = <<g, a>> \o c
      BY <1>2
    <2>2. PICK a \in ActionsIn(g) : \E c \in Combinations(ParamsIn(g, a)) : p = <<g, a>> \o c
      BY <2>1
    <2>3. PICK c \in Combinations(ParamsIn(g, a)) : p = <<g, a>> \o c
      BY <2>2
    <2>4. PICK k \in DOMAIN PlanGenerators : \E b \in ActionsIn(k) :
            \E d \in Combinations(ParamsIn(k, b)) : q = <<k, b>> \o d
      BY <1>2
    <2>5. PICK b \in ActionsIn(k) : \E d \in Combinations(ParamsIn(k, b)) : q = <<k, b>> \o d
      BY <2>4
    <2>6. PICK d \in Combinations(ParamsIn(k, b)) : q = <<k, b>> \o d
      BY <2>5
    <2>7. /\ g \in Nat /\ a \in Nat /\ c \in Seq(Nat) /\ Len(c) = Len(ParamsIn(g, a))
          /\ k \in Nat /\ b \in Nat /\ d \in Seq(Nat) /\ Len(d) = Len(ParamsIn(k, b))
      BY <1>1
    <2>8. /\ p \in Seq(Nat) /\ Len(p) = Len(c) + 2 /\ p[1] = g /\ p[2] = a
          /\ \A i \in 1 .. Len(c) : i + 2 \in DOMAIN p /\ p[i + 2] = c[i]
      BY <2>3, <2>7, PlaceIs
    <2>9. /\ q \in Seq(Nat) /\ Len(q) = Len(d) + 2 /\ q[1] = k /\ q[2] = b
          /\ \A i \in 1 .. Len(d) : i + 2 \in DOMAIN q /\ q[i + 2] = d[i]
      BY <2>6, <2>7, PlaceIs
    <2>10. {1, 2} \subseteq DOMAIN p \cap DOMAIN q
      <3>1. Len(c) \in Nat /\ Len(d) \in Nat
        BY <2>7
      <3>2. DOMAIN p = 1 .. Len(c) + 2 /\ DOMAIN q = 1 .. Len(d) + 2
        BY <2>8, <2>9
      <3> QED
        BY <3>1, <3>2
    <2>11. CASE g = k /\ a = b
      <3>1. c # d /\ Len(c) = Len(d)
        BY <1>5, <2>3, <2>6, <2>7, <2>11
      <3>2. PICK i \in 1 .. Len(c) : c[i] # d[i]
        BY <2>7, <3>1, SeqEqual
      <3> QED
        BY <2>8, <2>9, <3>1, <3>2
    <2>12. CASE g # k \/ a # b
      BY <2>8, <2>9, <2>10, <2>12
    <2> QED
      BY <2>11, <2>12
  <1> QED
    BY <1>3, <1>4, <1>5 DEF Comparable

PlacedVariant(x) == VariantIn(x[1], x[2], SubSeq(x, 3, Len(x)))

LEMMA RenderedAsPlaced ==
  PlanRendered = [i \in DOMAIN InOrder(AllPlaces) |-> PlacedVariant(InOrder(AllPlaces)[i])]
  BY DEF PlanRendered, Rendered, AllPlaces, PlacesIn, ActionsIn, ParamsIn, ActionIn, ActionAt,
         PlanGenerators, PlacedVariant, VariantIn, VariantOf

\* The variants are those of the actions and combinations the catalog lets through, each.
LEMMA RenderedIs ==
  ASSUME Prepared
  PROVE  /\ PlanRendered \in Seq(Variant)
         /\ \A v \in Range(PlanRendered) : \E g \in DOMAIN PlanGenerators :
              \E a \in ActionsIn(g) : \E c \in Combinations(ParamsIn(g, a)) : v = VariantIn(g, a, c)
         /\ \A g \in DOMAIN PlanGenerators : \A a \in ActionsIn(g) :
              \A c \in Combinations(ParamsIn(g, a)) : VariantIn(g, a, c) \in Range(PlanRendered)
  <1> DEFINE order == InOrder(AllPlaces)
  <1>1. order \in Seq(AllPlaces) /\ Range(order) = AllPlaces
    BY PlacesAre, InOrderIs
  <1>2. PlanRendered = [i \in DOMAIN order |-> PlacedVariant(order[i])]
    BY RenderedAsPlaced
  <1> HIDE DEF order
  <1>3. ASSUME NEW g \in DOMAIN PlanGenerators, NEW a \in ActionsIn(g),
               NEW c \in Combinations(ParamsIn(g, a))
        PROVE  PlacedVariant(<<g, a>> \o c) = VariantIn(g, a, c) /\ VariantIn(g, a, c) \in Variant
    <2>1. PlanGenerators[g] \in Generator /\ g \in Nat /\ CatalogOK(plan.catalog) /\ Key \in Keys
      BY GeneratorIn DEF Prepared
    <2>2. /\ a \in Chosen(plan.catalog, PlanGenerators[g], Key)
          /\ Renderable(ActionIn(g, a).template, ParamsIn(g, a))
      BY DEF ActionsIn
    <2>3. a \in Nat
      BY <2>1, <2>2, ChosenAre
    <2>4. ActionIn(g, a) \in CatalogAction /\ ParamsIn(g, a) \in Seq(CatalogOverride)
      BY <2>2, ParamsInTyped
    <2>5. c \in Seq(Nat)
      BY <2>4, CombinationsIs
    <2>6. PlacedVariant(<<g, a>> \o c) = VariantIn(g, a, c)
      <3> DEFINE x == <<g, a>> \o c
      <3>1. x[1] = g /\ x[2] = a /\ SubSeq(x, 3, Len(x)) = c
        BY <2>1, <2>3, <2>5, PlaceIs
      <3> HIDE DEF x
      <3>2. PlacedVariant(x) = VariantIn(g, a, c)
        BY <3>1 DEF PlacedVariant
      <3> QED
        BY <3>2 DEF x
    <2>7. VariantIn(g, a, c) \in Variant
      BY <2>1, <2>2, <2>4, VariantTyped DEF VariantIn, ActionIn
    <2> QED
      BY <2>6, <2>7
  <1>4. ASSUME NEW x \in AllPlaces
        PROVE  \E g \in DOMAIN PlanGenerators : \E a \in ActionsIn(g) :
                 \E c \in Combinations(ParamsIn(g, a)) : x = <<g, a>> \o c
    <2>1. PICK g \in DOMAIN PlanGenerators : x \in UNION {PlacesIn(g, a) : a \in ActionsIn(g)}
      BY DEF AllPlaces
    <2>2. PICK a \in ActionsIn(g) : x \in PlacesIn(g, a)
      BY <2>1
    <2>3. \E c \in Combinations(ParamsIn(g, a)) : x = <<g, a>> \o c
      BY <2>2 DEF PlacesIn
    <2> QED
      BY <2>3
  <1>5. ASSUME NEW x \in AllPlaces
        PROVE  /\ PlacedVariant(x) \in Variant
               /\ \E g \in DOMAIN PlanGenerators : \E a \in ActionsIn(g) :
                    \E c \in Combinations(ParamsIn(g, a)) : PlacedVariant(x) = VariantIn(g, a, c)
    <2>1. PICK g \in DOMAIN PlanGenerators : \E a \in ActionsIn(g) :
            \E c \in Combinations(ParamsIn(g, a)) : x = <<g, a>> \o c
      BY <1>4
    <2>2. PICK a \in ActionsIn(g) : \E c \in Combinations(ParamsIn(g, a)) : x = <<g, a>> \o c
      BY <2>1
    <2>3. PICK c \in Combinations(ParamsIn(g, a)) : x = <<g, a>> \o c
      BY <2>2
    <2>4. PlacedVariant(x) = VariantIn(g, a, c) /\ VariantIn(g, a, c) \in Variant
      BY <1>3, <2>3
    <2> QED
      BY <2>4
  <1>6. DOMAIN order = 1 .. Len(order) /\ Len(order) \in Nat /\ \A i \in DOMAIN order : order[i] \in AllPlaces
    BY <1>1
  <1>7. PlanRendered \in Seq(Variant)
    <2>1. PlanRendered \in [1 .. Len(order) -> Variant]
      BY <1>2, <1>5, <1>6
    <2> QED
      BY <1>6, <2>1
  <1>8. ASSUME NEW v \in Range(PlanRendered)
        PROVE  \E g \in DOMAIN PlanGenerators : \E a \in ActionsIn(g) :
                 \E c \in Combinations(ParamsIn(g, a)) : v = VariantIn(g, a, c)
    <2>1. PICK i \in DOMAIN order : v = PlacedVariant(order[i])
      BY <1>2 DEF Range
    <2> QED
      BY <1>5, <1>6, <2>1
  <1>9. ASSUME NEW g \in DOMAIN PlanGenerators, NEW a \in ActionsIn(g),
               NEW c \in Combinations(ParamsIn(g, a))
        PROVE  VariantIn(g, a, c) \in Range(PlanRendered)
    <2>1. <<g, a>> \o c \in PlacesIn(g, a)
      BY DEF PlacesIn
    <2>2. <<g, a>> \o c \in AllPlaces
      BY <2>1 DEF AllPlaces
    <2>3. PICK i \in DOMAIN order : order[i] = <<g, a>> \o c
      BY <1>1, <2>2 DEF Range
    <2>4. PlanRendered[i] = VariantIn(g, a, c) /\ i \in DOMAIN PlanRendered
      BY <1>2, <1>3, <2>3
    <2> QED
      BY <2>4 DEF Range
  <1> QED
    BY <1>7, <1>8, <1>9

\* The aliases the catalog is rendered with are names, finitely many.
LEMMA ImageFinite ==
  ASSUME NEW f, IsFiniteSet(DOMAIN f)
  PROVE  IsFiniteSet({f[x] : x \in DOMAIN f})
  <1> DEFINE T == {f[x] : x \in DOMAIN f}
             g == [x \in DOMAIN f |-> f[x]]
  <1>1. g \in Surjection(DOMAIN f, T)
    BY DEF Surjection
  <1> HIDE DEF g, T
  <1>2. IsFiniteSet(T)
    BY <1>1, FS_Surjection
  <1> QED
    BY <1>2 DEF T

LEMMA RangeFinite ==
  ASSUME NEW X, NEW s \in Seq(X)
  PROVE  IsFiniteSet(Range(s)) /\ Range(s) \subseteq X
  <1>1. IsFiniteSet(DOMAIN s) /\ DOMAIN s = 1 .. Len(s)
    BY DomainFinite
  <1>2. IsFiniteSet(Range(s))
    BY <1>1, ImageFinite DEF Range
  <1> QED
    BY <1>1, <1>2, ElementOfSeq DEF Range

LEMMA LoadedFinite ==
  ASSUME Registry!PayloadConfigOK(payloads), NEW i \in 1 .. 3
  PROVE  IsFiniteSet(Registry!Loaded(Config(i)))
  <1> DEFINE c == Config(i)
             cleaned == [f \in Range(c.files) |-> Cleaned[Stem[f]]]
  <1>1. c.files \in Seq(Files) /\ IsFiniteSet(DOMAIN c.aliases)
    BY ConfigOf, ConfigTyped DEF Config
  <1>2. IsFiniteSet(Range(c.files))
    BY <1>1, RangeFinite
  <1>3. DOMAIN cleaned = Range(c.files)
        /\ {cleaned[f] : f \in DOMAIN cleaned} = {Cleaned[Stem[f]] : f \in Range(c.files)}
    OBVIOUS
  <1> HIDE DEF cleaned
  <1>4. IsFiniteSet({cleaned[f] : f \in DOMAIN cleaned})
    BY <1>2, <1>3, ImageFinite
  <1>5. IsFiniteSet({Cleaned[Stem[f]] : f \in Range(c.files)} \cup DOMAIN c.aliases)
    BY <1>1, <1>3, <1>4, FS_Union
  <1>6. Registry!Loaded(c) \in SUBSET ({Cleaned[Stem[f]] : f \in Range(c.files)} \cup DOMAIN c.aliases)
    BY LoadedAre
  <1> QED
    BY <1>5, <1>6, FS_Subset

LEMMA OffersFinite ==
  ASSUME RegistryInv, status = "built", NEW key
  PROVE  Registry!Offers(key) \subseteq Names /\ IsFiniteSet(Registry!Offers(key))
  <1> DEFINE of == [i \in 1 .. 3 |-> Range(Config(i).builtin) \cup Registry!Loaded(Config(i))]
  <1>1. /\ pushed = 3 /\ Registry!PayloadConfigOK(payloads)
        /\ registry \subseteq Registry!PayloadDef
        /\ \A d : d \in registry <=> \E i \in 1 .. pushed : d \in PushedOf(i)
    BY ProtocolList DEF RegistryInv, Registry!RegistryTypeOK
  <1>2. ASSUME NEW i \in 1 .. 3 PROVE IsFiniteSet(of[i])
    <2>1. Config(i).builtin \in Seq(Names)
      BY <1>1, ConfigOf, ConfigTyped DEF Config
    <2>2. IsFiniteSet(Range(Config(i).builtin)) /\ IsFiniteSet(Registry!Loaded(Config(i)))
      BY <1>1, <2>1, RangeFinite, LoadedFinite
    <2> QED
      BY <2>2, FS_Union
  <1>3. IsFiniteSet(1 .. 3)
    <2>1. 1 \in Int /\ 3 \in Int
      OBVIOUS
    <2> QED
      BY <2>1, FS_Interval
  <1>4. Registry!Offers(key) \in SUBSET UNION {of[i] : i \in DOMAIN of}
    <2> SUFFICES ASSUME NEW a \in Registry!Offers(key) PROVE \E i \in 1 .. 3 : a \in of[i]
      OBVIOUS
    <2>1. PICK d \in registry : a = d.alias
      BY DEF Registry!Offers
    <2>2. PICK i \in 1 .. 3 : d \in PushedOf(i)
      BY <1>1, <2>1
    <2> QED
      BY <2>1, <2>2, AliasesOf
  <1>5. DOMAIN of = 1 .. 3 /\ \A i \in DOMAIN of : IsFiniteSet(of[i])
    BY <1>2
  <1> HIDE DEF of
  <1>6. IsFiniteSet(UNION {of[i] : i \in DOMAIN of})
    BY <1>3, <1>5, FiniteUnion
  <1>7. Registry!Offers(key) \subseteq Names
    BY <1>1 DEF Registry!Offers, Registry!PayloadDef
  <1> QED
    BY <1>4, <1>6, <1>7, FS_Subset

LEMMA AliasesAre ==
  ASSUME RegistryInv, status = "built"
  PROVE  Aliases \in Seq(Values) /\ Range(Aliases) = Registry!Offers(Key)
  <1> DEFINE S == Registry!Offers(Key)
  <1>1. S \in SUBSET Nat /\ S \subseteq Values /\ IsFiniteSet(S)
    BY OffersFinite, PlanAssumption, CatalogAssumption
  <1>2. Aliases = Sorted(S)
    BY DEF Aliases
  <1> HIDE DEF S
  <1>3. Sorted(S) \in Seq(S) /\ Range(Sorted(S)) = S
    BY <1>1, SortedIs
  <1>4. Sorted(S) \in Seq(Values)
    BY <1>1, <1>3, SeqMonotonic
  <1> QED
    BY <1>2, <1>3, <1>4 DEF S

LEMMA KeyTyped ==
  ASSUME TargetsInv, targets # <<>>
  PROVE  targets \in Seq(Target) /\ Key \in Keys /\ Registry!ProtocolOf(Key) \in ProtocolNames
  <1>1. targets \in Seq(Target)
    BY TargetsAre DEF TargetsInv, PlanOK
  <1>2. targets[1] \in Target
    BY <1>1
  <1>3. Key \in Keys
    BY <1>2 DEF Key, Target
  <1> QED
    BY <1>1, <1>3 DEF Keys, Registry!ProtocolOf, ProtocolNames

LEMMA PlanPrepared ==
  ASSUME RegistryInv, status = "built", TargetsInv, targets # <<>>,
         HasGenerator(plan.catalog, plan.mode, Key)
  PROVE  Prepared
  <1>1. Key \in Keys /\ Registry!ProtocolOf(Key) \in ProtocolNames
    BY KeyTyped
  <1>2. /\ CatalogOK(plan.catalog) /\ plan.settings.mode \in {"extend", "override"}
        /\ \A q \in {"http", "tls", "quic"} :
             plan.settings.values[q] \in [DOMAIN plan.settings.values[q] -> Seq(Values)]
    BY DEF RegistryInv, PlanOK
  <1>3. SettingsOK(Settings)
    BY <1>1, <1>2 DEF SettingsOK, Settings, ProtocolNames
  <1> QED
    BY <1>1, <1>2, <1>3, AliasesAre DEF Prepared

-----------------------------------------------------------------------------
(***************************************************************************)
(* The whole plan.  The selection starts on the list the plan has rendered *)
(* and nothing before it touches what the selection keeps.                 *)
(***************************************************************************)
StageInv ==
  /\ stage \in {"load", "targets", "payloads", "catalog", "select", "refused"}
  /\ stage = "load" => status = "loaded"
  /\ stage \in {"targets", "payloads"} => status = "accepted"
  /\ stage \in {"catalog", "select"} => status = "built"

\* what the selection looks at
ListRendered ==
  options.catalog => HasGenerator(plan.catalog, plan.mode, Key) /\ variants = PlanRendered

\* every node is that of a variant
Drawn == \A n \in nodes : \E v \in Range(variants) : n.args = Args(v)

PlanInv ==
  /\ RegistryInv /\ TargetsInv /\ StageInv
  /\ options = plan.options
  /\ stage # "select" => variants = <<>> /\ Unstarted
  /\ stage = "select" => InterleavedInductive /\ PairInv /\ ListRendered /\ Drawn

LEMMA PlanInitInv == PlanInit => PlanInv
  <1> SUFFICES ASSUME PlanInit PROVE PlanInv
    OBVIOUS
  <1>1. RegistryInv /\ TargetsInv
    BY RegistryInitInv, TargetsInit
  <1> QED
    BY <1>1 DEF PlanInit, PlanInv, StageInv, Registry!RegistryInit

LEMMA StepKeepsInput == Step => UNCHANGED input
  BY DEF Step, input, AppendVariant, WalkEnds, Filter, FilterEnds, Select, NextRound,
         SelectEnds, Combine, CombineEnds

LEMMA DrawnStep ==
  ASSUME TypeOK, Drawn, Step
  PROVE  Drawn'
  <1>1. UNCHANGED variants
    BY StepKeepsInput DEF input
  <1>2. CASE AppendVariant
    <2> DEFINE n == NewNode(variants[next], Cardinality(nodes))
    <2>1. nodes' \subseteq nodes \cup {n} /\ next <= Len(variants)
      BY <1>2 DEF AppendVariant
    <2>2. variants[next] \in Range(variants)
      <3>1. variants \in Seq(Variant) /\ next \in 1 .. Len(variants) + 1
        BY DEF TypeOK
      <3>2. next \in DOMAIN variants
        BY <2>1, <3>1
      <3> QED
        BY <3>2 DEF Range
    <2>3. n.args = Args(variants[next])
      BY DEF NewNode
    <2> HIDE DEF n
    <2> QED
      BY <1>1, <2>1, <2>2, <2>3 DEF Drawn, Args
  <1>3. CASE WalkEnds \/ Filter \/ FilterEnds \/ Select \/ NextRound \/ SelectEnds
             \/ Combine \/ CombineEnds
    <2>1. UNCHANGED nodes
      BY <1>3 DEF WalkEnds, Filter, FilterEnds, Select, NextRound, SelectEnds, Combine, CombineEnds
    <2> QED
      BY <1>1, <2>1 DEF Drawn, Args
  <1> QED
    BY <1>2, <1>3 DEF Step

LEMMA ReadyThen == Ready' => InterleavedInductive' /\ PairInv'
  BY InterleavedInit, PairInit, PTL

LEMMA ListRenderedStays ==
  ASSUME ListRendered, UNCHANGED <<plan, targets, registry, input>>
  PROVE  ListRendered'
  <1>1. Key' = Key
    BY DEF Key
  <1>2. Aliases' = Aliases
    BY <1>1 DEF Aliases, Registry!Offers
  <1>3. Settings' = Settings
    BY <1>1 DEF Settings
  <1>4. PlanRendered' = PlanRendered
    BY <1>1, <1>2, <1>3 DEF PlanRendered
  <1> QED
    BY <1>1, <1>4 DEF ListRendered, input

LEMMA LoadCatalogKeeps ==
  ASSUME PlanInv, LoadCatalog, RegistryInv', TargetsInv'
  PROVE  PlanInv'
  <1>1. /\ stage = "catalog" /\ status = "built" /\ options = plan.options /\ targets # <<>>
        /\ variants = <<>> /\ Unstarted /\ RegistryInv /\ TargetsInv
    BY DEF PlanInv, StageInv, LoadCatalog, TargetsInv
  <1>2. /\ UNCHANGED <<plan, targets, options, payloads, status, pushed, registry>>
        /\ Unstarted'
    BY <1>1 DEF LoadCatalog, Unstarted
  <1>3. CASE options.catalog /\ ~HasGenerator(plan.catalog, plan.mode, Key)
    <2>1. stage' = "refused" /\ variants' = variants
      BY <1>3 DEF LoadCatalog
    <2> QED
      BY <1>1, <1>2, <2>1 DEF PlanInv, StageInv
  <1>4. CASE ~(options.catalog /\ ~HasGenerator(plan.catalog, plan.mode, Key))
    <2>1. /\ stage' = "select" /\ Len(variants') \in DOMAIN Digits
          /\ variants' = IF options.catalog THEN PlanRendered ELSE plan.catalog.strategies
      BY <1>4 DEF LoadCatalog, PlanRendered
    <2>2. variants' \in Seq(Variant)
      <3>1. CASE options.catalog
        <4>1. Prepared
          BY <1>1, <1>4, <3>1, PlanPrepared
        <4> QED
          BY <2>1, <3>1, <4>1, RenderedIs
      <3>2. CASE ~options.catalog
        BY <1>1, <2>1, <3>2 DEF RegistryInv, PlanOK, CatalogOK
      <3> QED
        BY <3>1, <3>2
    <2>3. options' \in OptionSet
      BY <1>1, <1>2 DEF RegistryInv, PlanOK
    <2>4. Ready'
      BY <1>2, <2>1, <2>2, <2>3 DEF Ready
    <2>5. ListRendered'
      <3>1. Key' = Key
        BY <1>2 DEF Key
      <3>2. Aliases' = Aliases
        BY <1>2, <3>1 DEF Aliases, Registry!Offers
      <3>3. PlanRendered' = PlanRendered
        BY <1>2, <3>1, <3>2 DEF PlanRendered, Settings
      <3> QED
        BY <1>2, <1>4, <2>1, <3>1, <3>3 DEF ListRendered
    <2>6. StageInv'
      BY <1>1, <1>2, <2>1 DEF StageInv
    <2>7. Drawn'
      BY <1>2 DEF Drawn, Unstarted
    <2> QED
      BY <1>1, <1>2, <2>1, <2>4, <2>5, <2>6, <2>7, ReadyThen DEF PlanInv
  <1> QED
    BY <1>3, <1>4

LEMMA PlanStep == PlanInv /\ [PlanNext]_planVars => PlanInv'
  <1> SUFFICES ASSUME PlanInv, [PlanNext]_planVars PROVE PlanInv'
    OBVIOUS
  <1>1. RegistryInv /\ TargetsInv /\ RegistryInv' /\ TargetsInv'
    BY RegistryStep, TargetsStep DEF PlanInv
  <1>2. ASSUME UNCHANGED <<plan, selectionVars>>, stage # "select", stage' # "select", StageInv'
        PROVE  PlanInv'
    BY <1>1, <1>2 DEF PlanInv, Unstarted, selectionVars, vars
  <1>3. CASE LoadConfig
    <2>1. stage = "load" /\ status' \in {"accepted", "refused"}
          /\ stage' = IF status' = "accepted" THEN "targets" ELSE "refused"
      BY <1>3 DEF LoadConfig, Registry!Validate
    <2>2. StageInv'
      BY <2>1 DEF StageInv
    <2> QED
      BY <1>2, <1>3, <2>1, <2>2 DEF LoadConfig
  <1>4. CASE ChooseTargets
    <2>1. stage = "targets" /\ stage' \in {"payloads", "refused"} /\ status' = status
      BY <1>4 DEF ChooseTargets
    <2>2. StageInv'
      BY <2>1 DEF StageInv, PlanInv
    <2> QED
      BY <1>2, <1>4, <2>1, <2>2 DEF ChooseTargets
  <1>5. CASE Unresolved
    <2>1. stage = "targets" /\ stage' = "refused" /\ StageInv'
      BY <1>5 DEF Unresolved, StageInv
    <2> QED
      BY <1>2, <1>5, <2>1 DEF Unresolved
  <1>6. CASE BuildRegistry
    <2>1. stage = "payloads" /\ status' \in {"accepted", "built", "failed"}
      BY <1>6 DEF BuildRegistry, Registry!PushProtocol
    <2>2. \/ status' = "built" /\ stage' = "catalog"
          \/ status' = "failed" /\ stage' = "refused"
          \/ status' = "accepted" /\ stage' = "payloads"
      BY <1>6, <2>1 DEF BuildRegistry
    <2>3. StageInv' /\ stage' # "select"
      BY <2>2 DEF StageInv
    <2> QED
      BY <1>2, <1>6, <2>1, <2>3 DEF BuildRegistry
  <1>7. CASE LoadCatalog
    BY <1>1, <1>7, LoadCatalogKeeps
  <1>8. CASE SelectCandidates
    <2>1. /\ stage = "select" /\ Step
          /\ UNCHANGED <<plan, stage, targets, payloads, status, pushed, registry>>
      BY <1>8 DEF SelectCandidates
    <2>2. InterleavedInductive' /\ PairInv'
      BY <2>1, InterleavedStep, PairStep DEF Next, PlanInv
    <2>3. UNCHANGED input
      BY <2>1, StepKeepsInput
    <2>4. ListRendered'
      BY <2>1, <2>3, ListRenderedStays DEF PlanInv
    <2>5. Drawn'
      BY <2>1, DrawnStep DEF PlanInv, InterleavedInductive
    <2> QED
      BY <1>1, <2>1, <2>2, <2>3, <2>4, <2>5 DEF PlanInv, StageInv, input
  <1>9. CASE UNCHANGED planVars
    <2>1. CASE stage = "select"
      <3>1. /\ UNCHANGED vars /\ UNCHANGED input
            /\ UNCHANGED <<plan, stage, targets, payloads, status, pushed, registry>>
        BY <1>9 DEF planVars, selectionVars, vars, input
      <3>2. InterleavedInductive' /\ PairInv'
        BY <2>1, <3>1, InterleavedStep, PairStep DEF PlanInv
      <3>3. ListRendered'
        BY <2>1, <3>1, ListRenderedStays DEF PlanInv
      <3>4. Drawn'
        BY <2>1, <3>1 DEF PlanInv, Drawn, vars, Args
      <3> QED
        BY <1>1, <2>1, <3>1, <3>2, <3>3, <3>4 DEF PlanInv, StageInv, input
    <2>2. CASE stage # "select"
      <3>1. stage' = stage /\ status' = status /\ UNCHANGED <<plan, selectionVars>>
        BY <1>9 DEF planVars
      <3>2. StageInv'
        BY <3>1 DEF StageInv, PlanInv
      <3> QED
        BY <1>2, <2>2, <3>1, <3>2
    <2> QED
      BY <2>1, <2>2
  <1> QED
    BY <1>3, <1>4, <1>5, <1>6, <1>7, <1>8, <1>9 DEF PlanNext

LEMMA PlanTypes == PlanInv => PlanTypeOK
  <1> SUFFICES ASSUME PlanInv PROVE PlanTypeOK
    OBVIOUS
  <1>1. TypeOK
    <2>1. CASE stage = "select"
      BY <2>1 DEF PlanInv, InterleavedInductive
    <2>2. CASE stage # "select"
      <3>1. variants = <<>> /\ Unstarted /\ options \in OptionSet
        BY <2>2 DEF PlanInv, RegistryInv, PlanOK
      <3>2. variants \in Seq(Variant) /\ next \in 1 .. Len(variants) + 1
        BY <3>1 DEF Unstarted
      <3> QED
        BY <3>1, <3>2 DEF Unstarted, TypeOK
    <2> QED
      BY <2>1, <2>2
  <1>2. targets \in Seq(Target)
    <2>1. CASE targets = <<>>
      BY <2>1
    <2>2. CASE targets # <<>>
      BY <2>2, KeyTyped DEF PlanInv
    <2> QED
      BY <2>1, <2>2
  <1> QED
    BY <1>1, <1>2 DEF PlanInv, PlanTypeOK, StageInv, RegistryInv, TargetsInv

\* What a check decides is of its type at every stage, and the catalog is rendered
\* only with a target and a registry (src/main.rs).
THEOREM PlanTypeCorrect == PlanSpec => []PlanTypeOK
  <1> QED
    BY PlanInitInv, PlanStep, PlanTypes, PTL DEF PlanSpec

LEMMA PlanSelects == PlanInv => NothingLost /\ Interleaved /\ CombinedAsAllowed
  <1> SUFFICES ASSUME PlanInv PROVE NothingLost /\ Interleaved /\ CombinedAsAllowed
    OBVIOUS
  <1>1. CASE stage = "select"
    BY <1>1, KeptMeans, PairsMean DEF PlanInv, InterleavedInductive, PairInv, ListInv
  <1>2. CASE stage # "select"
    <2>1. phase = "walk" /\ selected = <<>> /\ DOMAIN selected = {}
      BY <1>2 DEF PlanInv, Unstarted
    <2> QED
      BY <2>1 DEF NothingLost, Interleaved, CombinedAsAllowed
  <1> QED
    BY <1>1, <1>2

\* Within a check, on the list it renders for its targets, its registry and its
\* settings: nothing is lost, the families take turns, and pairs are combined as allowed.
THEOREM PlanSelectsAsPromised == PlanSpec => [](NothingLost /\ Interleaved /\ CombinedAsAllowed)
  <1> QED
    BY PlanInitInv, PlanStep, PlanSelects, PTL DEF PlanSpec

-----------------------------------------------------------------------------
(***************************************************************************)
(* Blobs.  What a candidate may name, and that it names every payload.     *)
(***************************************************************************)
LEMMA BlobsGivenAre ==
  /\ GivenInActions \subseteq BlobsGiven /\ GivenInGenerators \subseteq BlobsGiven
  /\ GivenInSettings \subseteq BlobsGiven
  BY DEF BlobsGiven

\* Whatever the catalog and [strategy_values] give for a blob is among BlobsGiven.
LEMMA GivenByActions ==
  ASSUME NEW f \in Range(plan.catalog.families), NEW act \in Range(f.actions),
         NEW p \in Range(act.params), p.name = Blob
  PROVE  Range(p.values) \cup Range(p.default) \subseteq BlobsGiven
  <1> DEFINE actions == UNION {Range(x.actions) : x \in Range(plan.catalog.families)}
             own(q) == IF q.name = Blob THEN Range(q.values) \cup Range(q.default) ELSE {}
             given == UNION {UNION {own(q) : q \in Range(x.params)} : x \in actions}
  <1>1. act \in actions
    OBVIOUS
  <1>2. own(p) = Range(p.values) \cup Range(p.default)
    OBVIOUS
  <1>3. given \subseteq BlobsGiven
    BY BlobsGivenAre DEF GivenInActions
  <1> HIDE DEF actions, own
  <1>4. own(p) \subseteq UNION {own(q) : q \in Range(act.params)}
    OBVIOUS
  <1>5. UNION {own(q) : q \in Range(act.params)} \subseteq given
    BY <1>1
  <1> QED
    BY <1>2, <1>3, <1>4, <1>5

LEMMA GivenByGenerators ==
  ASSUME NEW k \in DOMAIN plan.catalog.signal, NEW g \in Range(plan.catalog.signal[k]),
         NEW p \in Range(g.params), p.name = Blob
  PROVE  Range(p.values) \subseteq BlobsGiven
  <1> DEFINE generators == UNION {Range(plan.catalog.signal[l]) : l \in DOMAIN plan.catalog.signal}
             set(q) == IF q.name = Blob THEN Range(q.values) ELSE {}
             given == UNION {UNION {set(q) : q \in Range(x.params)} : x \in generators}
  <1>1. g \in generators
    OBVIOUS
  <1>2. set(p) = Range(p.values)
    OBVIOUS
  <1>3. given \subseteq BlobsGiven
    BY BlobsGivenAre DEF GivenInGenerators
  <1> HIDE DEF generators, set
  <1>4. set(p) \subseteq UNION {set(q) : q \in Range(g.params)}
    OBVIOUS
  <1>5. UNION {set(q) : q \in Range(g.params)} \subseteq given
    BY <1>1
  <1> QED
    BY <1>2, <1>3, <1>4, <1>5

LEMMA GivenBySettings ==
  ASSUME Blob \in DOMAIN Settings.values
  PROVE  Range(Settings.values[Blob]) \subseteq BlobsGiven
  BY BlobsGivenAre DEF GivenInSettings

\* A generator that sets values is one of the signal mode.
LEMMA SetBySignal ==
  ASSUME Prepared, NEW g \in DOMAIN PlanGenerators, NEW q \in Range(PlanGenerators[g].params)
  PROVE  Key \in DOMAIN plan.catalog.signal /\ PlanGenerators[g] \in Range(plan.catalog.signal[Key])
  <1>1. CASE plan.mode = "signal"
    BY <1>1 DEF Prepared, HasGenerator, PlanGenerators, Generators, Range
  <1>2. CASE plan.mode \in {"expand", "force"}
    <2>1. \E id : PlanGenerators[g] = Whole(id)
      <3>1. CASE plan.mode = "expand"
        BY <3>1 DEF PlanGenerators, Generators
      <3>2. CASE plan.mode = "force"
        BY <3>2 DEF PlanGenerators, Generators
      <3> QED
        BY <1>2, <3>1, <3>2
    <2>2. PlanGenerators[g].params = <<>>
      BY <2>1 DEF Whole
    <2> QED
      BY <2>2 DEF Range
  <1> QED
    BY <1>1, <1>2 DEF Prepared, HasGenerator

\* What a blob's parameter has for values: all the aliases, and nothing but these, what
\* is given and what a given marker finds.
LEMMA BlobValues ==
  ASSUME Prepared, NEW g \in DOMAIN PlanGenerators,
         NEW a \in Chosen(plan.catalog, PlanGenerators[g], Key),
         NEW m \in Range(ParamsIn(g, a)), m.name = Blob
  PROVE  /\ m.values \in Seq(Values) /\ Range(Aliases) \subseteq Range(m.values)
         /\ \A b \in Range(m.values) :
              \/ b \in Range(Aliases) \/ b \in BlobsGiven
              \/ \E v \in BlobsGiven \cap DOMAIN Found : b \in Found[v]
  <1> DEFINE action == ActionIn(g, a)
             generator == PlanGenerators[g]
             all == plan.mode # "signal"
             ps == Params(action, generator, all)
  <1>1. /\ generator \in Generator /\ action \in CatalogAction /\ CatalogOK(plan.catalog)
        /\ Aliases \in Seq(Values) /\ SettingsOK(Settings)
    BY GeneratorIn, ParamsInTyped DEF Prepared
  <1>2. PICK p \in Range(ps) :
          /\ m.name = p.name
          /\ m.values = Configured(p.name, Expanded(p.name, p.values), Aliases, Settings)
    <2> HIDE DEF action, generator, all
    <2>1. \A x \in Range(Merged(action, generator, all, Aliases, Settings)) : \E p \in Range(ps) :
            /\ x.name = p.name
            /\ x.values = Configured(p.name, Expanded(p.name, p.values), Aliases, Settings)
      BY <1>1, MergedIs
    <2> QED
      BY <2>1 DEF ParamsIn, action, generator, all
  <1>3. p \in CatalogOverride /\ Range(p.values) \subseteq BlobsGiven
    <2>1. /\ ps \in Seq(CatalogOverride)
          /\ \A i \in DOMAIN ps :
               \/ \E q \in Range(generator.params) : q.name = ps[i].name /\ q.values = ps[i].values
               \/ \E q \in Range(action.params) :
                    /\ q.name = ps[i].name
                    /\ Range(ps[i].values) \subseteq Range(q.values) \cup Range(q.default)
      BY <1>1, ParamsIs
    <2>2. PICK i \in DOMAIN ps : p = ps[i]
      BY DEF Range
    <2>3. p \in CatalogOverride
      BY <2>1, <2>2
    <2>4. CASE \E q \in Range(generator.params) : q.name = p.name /\ q.values = p.values
      <3>1. PICK q \in Range(generator.params) : q.name = p.name /\ q.values = p.values
        BY <2>4
      <3>2. Key \in DOMAIN plan.catalog.signal /\ generator \in Range(plan.catalog.signal[Key])
        BY <3>1, SetBySignal
      <3> QED
        BY <1>2, <2>3, <3>1, <3>2, GivenByGenerators
    <2>5. CASE \E q \in Range(action.params) :
                 q.name = p.name /\ Range(p.values) \subseteq Range(q.values) \cup Range(q.default)
      <3>1. PICK q \in Range(action.params) :
              q.name = p.name /\ Range(p.values) \subseteq Range(q.values) \cup Range(q.default)
        BY <2>5
      <3>2. PICK f \in Range(plan.catalog.families) : action \in Range(f.actions)
        BY <1>1, ChosenAre DEF ActionIn
      <3>3. Range(q.values) \cup Range(q.default) \subseteq BlobsGiven
        BY <1>2, <3>1, <3>2, GivenByActions
      <3> QED
        BY <2>3, <3>1, <3>3
    <2> QED
      BY <2>1, <2>2, <2>4, <2>5
  <1> HIDE DEF action, generator, all, ps
  <1>4. p.name = Blob /\ p.values \in Seq(Values)
    BY <1>2, <1>3 DEF CatalogOverride
  <1>5. /\ Expanded(Blob, p.values) \in Seq(Values)
        /\ Range(Expanded(Blob, p.values)) = UNION {Finds(v) : v \in Range(p.values)}
    BY <1>4, ExpandedIs DEF Meant
  <1>6. /\ m.values \in Seq(Values) /\ Range(Aliases) \subseteq Range(m.values)
        /\ \A b \in Range(m.values) :
             \/ b \in Range(Expanded(Blob, p.values)) \/ b \in Range(Aliases)
             \/ (Blob \in DOMAIN Settings.values /\ b \in Range(Settings.values[Blob]))
    <2> DEFINE c == Configured(Blob, Expanded(Blob, p.values), Aliases, Settings)
               set == IF Blob \in DOMAIN Settings.values THEN Range(Settings.values[Blob]) ELSE {}
    <2>1. /\ c \in Seq(Values) /\ Range(Aliases) \subseteq Range(c)
          /\ Range(c) \subseteq Range(Expanded(Blob, p.values)) \cup set \cup Range(Aliases)
      BY <1>1, <1>5, ConfiguredIs
    <2>2. m.values = c
      BY <1>2, <1>4
    <2> HIDE DEF c
    <2> QED
      BY <2>1, <2>2
  <1>7. ASSUME NEW v, NEW b \in Finds(v)
        PROVE  b = v \/ (v \in DOMAIN Found /\ b \in Found[v])
    BY DEF Finds
  <1> QED
    BY <1>3, <1>5, <1>6, <1>7, GivenBySettings

\* Of parameters that each have a value, any value of one of them is in a combination.
LEMMA CombinationWith ==
  ASSUME NEW params \in Seq(CatalogOverride), \A i \in DOMAIN params : params[i].values # <<>>,
         NEW name \in ParamNames(params),
         NEW b, \A i \in DOMAIN params : params[i].name = name => b \in Range(params[i].values)
  PROVE  \E c \in Combinations(params) : ValueOf(params, c, name) = b
  <1> DEFINE i == CHOOSE j \in DOMAIN params : params[j].name = name
  <1>1. i \in DOMAIN params /\ params[i].name = name
    BY DEF ParamNames
  <1>2. \A c : ValueOf(params, c, name) = params[i].values[c[i]]
    BY DEF ValueOf
  <1> HIDE DEF i
  <1>3. PICK k \in DOMAIN params[i].values : params[i].values[k] = b
    BY <1>1 DEF Range
  <1> DEFINE c == [j \in DOMAIN params |-> IF j = i THEN k ELSE 1]
  <1>4. ASSUME NEW j \in DOMAIN params PROVE c[j] \in DOMAIN params[j].values
    <2>1. CASE j = i
      BY <1>3, <2>1
    <2>2. CASE j # i
      <3>1. params[j] \in CatalogOverride
        <4>1. DOMAIN params = 1 .. Len(params)
          OBVIOUS
        <4> QED
          BY <4>1, ElementOfSeq
      <3>2. params[j].values \in Seq(Values) /\ params[j].values # <<>>
        BY <3>1 DEF CatalogOverride
      <3>3. 1 \in DOMAIN params[j].values
        BY <3>2
      <3> QED
        BY <2>2, <3>3
    <2> QED
      BY <2>1, <2>2
  <1>5. c \in Combinations(params)
    <2>1. DOMAIN c = DOMAIN params /\ c = [j \in DOMAIN params |-> c[j]]
      OBVIOUS
    <2> HIDE DEF c
    <2>2. c \in [DOMAIN params -> UNION {DOMAIN params[j].values : j \in DOMAIN params}]
      BY <1>4, <2>1
    <2> QED
      BY <1>4, <2>2 DEF Combinations
  <1>6. ValueOf(params, c, name) = b
    BY <1>1, <1>2, <1>3
  <1> QED
    BY <1>5, <1>6

LEMMA DoneIsSelected ==
  ASSUME PlanInv, phase = "done", options.catalog
  PROVE  /\ stage = "select" /\ status = "built" /\ targets # <<>> /\ Prepared
         /\ variants = PlanRendered /\ Drawn /\ KeptInv /\ RegistryInv
  <1>1. stage = "select"
    BY DEF PlanInv, Unstarted
  <1>2. /\ status = "built" /\ targets # <<>> /\ RegistryInv /\ TargetsInv /\ ListRendered
        /\ Drawn /\ PairInv
    BY <1>1 DEF PlanInv, StageInv, TargetsInv
  <1>3. HasGenerator(plan.catalog, plan.mode, Key) /\ variants = PlanRendered
    BY <1>2 DEF ListRendered
  <1> QED
    BY <1>1, <1>2, <1>3, PlanPrepared DEF PairInv, ListInv

\* an action that takes every payload, and a payload that is tried with it
TakesPayloads(g, a) ==
  /\ ActionIn(g, a).id \notin Legacy /\ Blob \in ActionIn(g, a).template.holes
  /\ Blob \in ParamNames(Params(ActionIn(g, a), PlanGenerators[g], plan.mode # "signal"))
  /\ ActionIn(g, a).template.holes \ {Blob} \subseteq ParamNames(ParamsIn(g, a))

TriedWith(g, a, b) ==
  \/ \E n \in Range(selected) : Says(n, ActionIn(g, a).template, b)
  \/ \E n \in nodes : Says(n, ActionIn(g, a).template, b) /\ LimitReached(n)

LEMMA PayloadsAre ==
  PayloadsTried <=>
    (phase = "done" /\ options.catalog =>
       \A g \in DOMAIN PlanGenerators : \A a \in Chosen(plan.catalog, PlanGenerators[g], Key) :
         TakesPayloads(g, a) => \A b \in Registry!Offers(Key) : TriedWith(g, a, b))
  BY Zenon DEF PayloadsTried, TakesPayloads, TriedWith, PlanGenerators, ActionIn, ActionAt,
               ParamsIn, Registry!Offers

LEMMA PlanTries == PlanInv => PayloadsTried
  <1> SUFFICES ASSUME PlanInv, phase = "done", options.catalog,
                      NEW g \in DOMAIN PlanGenerators,
                      NEW a \in Chosen(plan.catalog, PlanGenerators[g], Key),
                      TakesPayloads(g, a),
                      NEW b \in Registry!Offers(Key)
               PROVE  TriedWith(g, a, b)
    BY PayloadsAre
  <1>0. /\ ActionIn(g, a).id \notin Legacy /\ Blob \in ActionIn(g, a).template.holes
        /\ Blob \in ParamNames(Params(ActionIn(g, a), PlanGenerators[g], plan.mode # "signal"))
        /\ ActionIn(g, a).template.holes \ {Blob} \subseteq ParamNames(ParamsIn(g, a))
    BY DEF TakesPayloads
  <1> DEFINE action == ActionIn(g, a)
             template == action.template
             params == ParamsIn(g, a)
  <1>1. /\ Prepared /\ variants = PlanRendered /\ KeptInv /\ RegistryInv
        /\ b \in Range(Aliases) /\ b \in Valid
    <2>1. /\ Prepared /\ variants = PlanRendered /\ KeptInv /\ RegistryInv /\ status = "built"
      BY DoneIsSelected
    <2>2. b \in Range(Aliases)
      BY <2>1, AliasesAre
    <2>3. b \in Valid
      BY <2>1 DEF RegistryInv, Registry!Offers
    <2> QED
      BY <2>1, <2>2, <2>3
  <1>2. /\ PlanGenerators[g] \in Generator /\ action \in CatalogAction
        /\ params \in Seq(CatalogOverride)
        /\ Aliases \in Seq(Values) /\ SettingsOK(Settings)
    BY <1>1, GeneratorIn, ParamsInTyped DEF Prepared
  <1>3. Blob \in ParamNames(params) /\ \A i \in DOMAIN params : params[i].values # <<>>
    <2> DEFINE all == plan.mode # "signal"
               ps == Params(action, PlanGenerators[g], all)
               configured(p) == Configured(p.name, Expanded(p.name, p.values), Aliases, Settings)
    <2>1. /\ ps \in Seq(CatalogOverride) /\ Blob \in ParamNames(ps)
      BY <1>0, <1>2, ParamsIs
    <2>2. /\ \A m \in Range(params) : m.values # <<>>
          /\ \A p \in Range(ps) : configured(p) # <<>> =>
               \E m \in Range(params) : m.name = p.name /\ m.values = configured(p)
      <3>1. params = Merged(action, PlanGenerators[g], all, Aliases, Settings)
        BY DEF ParamsIn
      <3> HIDE DEF params, action, all
      <3> DEFINE ms == Merged(action, PlanGenerators[g], all, Aliases, Settings)
      <3>2. \A m \in Range(ms) : m.values # <<>>
        BY <1>2, MergedIs
      <3>3. \A p \in Range(ps) :
              Configured(p.name, Expanded(p.name, p.values), Aliases, Settings) # <<>> =>
                \E m \in Range(ms) :
                  /\ m.name = p.name
                  /\ m.values = Configured(p.name, Expanded(p.name, p.values), Aliases, Settings)
        BY <1>2, MergedIs
      <3> QED
        BY <3>1, <3>2, <3>3
    <2>3. PICK p \in Range(ps) : p.name = Blob
      BY <2>1 DEF ParamNames, Range
    <2>4. p \in CatalogOverride
      BY <2>1, <2>3 DEF Range
    <2>5. Expanded(Blob, p.values) \in Seq(Values)
      BY <2>4, ExpandedIs DEF CatalogOverride
    <2>6. Range(Aliases) \subseteq Range(configured(p))
      BY <1>2, <2>3, <2>5, ConfiguredIs
    <2> HIDE DEF configured, ps
    <2>7. configured(p) # <<>>
      BY <1>1, <2>6 DEF Range
    <2>8. PICK m \in Range(params) : m.name = Blob
      BY <2>2, <2>3, <2>7
    <2> QED
      BY <2>2, <2>8 DEF ParamNames, Range
  <1>4. a \in ActionsIn(g)
    BY <1>0, <1>3 DEF ActionsIn, Renderable
  <1>5. \A i \in DOMAIN params : params[i].name = Blob => b \in Range(params[i].values)
    <2> SUFFICES ASSUME NEW i \in DOMAIN params, params[i].name = Blob
                 PROVE  b \in Range(params[i].values)
      OBVIOUS
    <2>1. params[i] \in Range(params)
      BY DEF Range
    <2> QED
      BY <1>1, <2>1, BlobValues
  <1>6. PICK c \in Combinations(params) : ValueOf(params, c, Blob) = b
    BY <1>2, <1>3, <1>5, CombinationWith
  <1> DEFINE v == VariantIn(g, a, c)
             lua == Lua(template, params, c)
  <1>7. v \in Range(variants) /\ v.lua = lua /\ v.action = action.id
    <2>1. v \in Range(PlanRendered)
      BY <1>1, <1>4, <1>6, RenderedIs
    <2>2. v.lua = lua /\ v.action = action.id
      BY DEF VariantIn, VariantOf, ActionIn
    <2> QED
      BY <1>1, <2>1, <2>2
  <1>8. "template" \in DOMAIN lua /\ lua.template = template.text /\ lua.fill[Blob] = b
    <2>1. Blob \in template.holes
      BY <1>0
    <2>2. Filled(Blob, b) = b
      BY <1>1, PlanAssumption DEF Filled
    <2> DEFINE fill == [name \in template.holes \cup template.suffixes |->
                          IF name \in template.holes THEN Filled(name, ValueOf(params, c, name))
                          ELSE Suffix(params, c, name)]
    <2>3. lua = [template |-> template.text, fill |-> fill]
      BY DEF Lua
    <2>4. fill[Blob] = b
      BY <1>6, <2>1, <2>2
    <2> HIDE DEF fill, lua
    <2> QED
      BY <2>3, <2>4
  <1> HIDE DEF v, lua
  <1>9. ASSUME NEW n, n.args = Args(v)
        PROVE  Says(n, template, b)
    <2>1. v \in Variant
      <3>1. variants \in Seq(Variant)
        BY <1>1 DEF KeptInv, TypeInv, TypeOK
      <3> QED
        BY <1>7, <3>1 DEF Range
    <2>2. v.before \in Seq(Leading)
      BY <2>1 DEF Variant
    <2>3. /\ Len(v.before) + 1 \in DOMAIN Append(v.before, v.lua)
          /\ Append(v.before, v.lua)[Len(v.before) + 1] = v.lua
      BY <2>2
    <2>4. lua \in Range(n.args)
      BY <1>7, <1>9, <2>3 DEF Range, Args
    <2> QED
      BY <1>8, <2>4 DEF Says
  <1>10. v \in Offered
    BY <1>0, <1>7 DEF Offered
  <1>11. NothingLost
    BY PlanSelects
  <1>12. \/ \E i \in DOMAIN selected : selected[i].args = Args(v)
         \/ \E n \in nodes : n.args = Args(v) /\ LimitReached(n)
    BY <1>10, <1>11 DEF NothingLost
  <1> QED
    BY <1>9, <1>12 DEF Range, TriedWith

\* Every payload of the protocol is tried with every action that has a blob for a
\* parameter and values for its other holes, or kept out by a limit of the selection, for
\* all catalogs, search modes, registries, settings and options (apply_strategy_values,
\* maybe_extend_payload_values, select_diverse_nodes).
THEOREM PlanTriesPayloads == PlanSpec => []PayloadsTried
  <1> QED
    BY PlanInitInv, PlanStep, PlanTries, PTL DEF PlanSpec

\* What a candidate says: what is before its function, and its function.
LEMMA ArgsAre ==
  ASSUME NEW v \in Variant, NEW s \in Seq(Leading), NEW t \in Seq(Leading), v.before = s \o t
  PROVE  Range(Args(v)) = Range(s) \cup Range(t) \cup {v.lua}
  <1>1. Range(s \o t) = Range(s) \cup Range(t)
    BY RangeConcatenation
  <1>2. s \o t \in Seq(Leading)
    BY ConcatProperties
  <1>3. ASSUME NEW u \in Seq(Leading), NEW x PROVE Range(Append(u, x)) = Range(u) \cup {x}
    <2>1. /\ DOMAIN Append(u, x) = DOMAIN u \cup {Len(u) + 1}
          /\ Append(u, x)[Len(u) + 1] = x
          /\ \A i \in DOMAIN u : Append(u, x)[i] = u[i]
      OBVIOUS
    <2> QED
      BY <2>1 DEF Range
  <1> QED
    BY <1>1, <1>2, <1>3 DEF Args

\* A file's payload definition names a file configured, another a builtin.
LEMMA RegistryOf ==
  ASSUME RegistryInv, status = "built", NEW b \in Registry!Offers(Key)
  PROVE  \E d \in registry :
           /\ d.alias = b /\ d.protocol = Registry!ProtocolOf(Key)
           /\ IF d \in Registry!BlobArgs THEN d.path \in Registry!Configured(d.protocol)
              ELSE b \in Range(payloads.protocol[d.protocol].builtin)
  <1>1. PICK d \in registry : d.alias = b /\ d.protocol = Registry!ProtocolOf(Key)
    BY DEF Registry!Offers
  <1>2. /\ pushed = 3 /\ Registry!PayloadConfigOK(payloads)
        /\ \A e : e \in registry <=> \E i \in 1 .. pushed : e \in PushedOf(i)
    BY ProtocolList DEF RegistryInv, Registry!RegistryTypeOK
  <1>3. PICK i \in 1 .. 3 : d \in PushedOf(i)
    BY <1>2
  <1> DEFINE p == Registry!Protocols[i]
             c == payloads.protocol[p]
  <1>4. \/ \E a \in Range(c.builtin) : d = [protocol |-> p, alias |-> a, path |-> NoFile]
        \/ \E a \in Registry!Loaded(c) :
             d = [protocol |-> p, alias |-> a, path |-> Registry!PathOf(c, a)]
    BY <1>3, DefsAre DEF PushedOf, Config
  <1>5. p \in ProtocolNames
    BY ConfigOf
  <1> HIDE DEF p, c
  <1>6. CASE \E a \in Range(c.builtin) : d = [protocol |-> p, alias |-> a, path |-> NoFile]
    <2>1. d.path = NoFile /\ d.alias \in Range(c.builtin) /\ d.protocol = p
      BY <1>6
    <2> QED
      BY <1>1, <2>1 DEF Registry!BlobArgs, c
  <1>7. CASE \E a \in Registry!Loaded(c) :
               d = [protocol |-> p, alias |-> a, path |-> Registry!PathOf(c, a)]
    <2>1. PICK a \in Registry!Loaded(c) :
            d = [protocol |-> p, alias |-> a, path |-> Registry!PathOf(c, a)]
      BY <1>7
    <2>2. Registry!PathOf(c, a) \in Files /\ Registry!PathOf(c, a) \in Registry!Configured(p)
      BY <1>2, <1>5, <2>1, PathTyped DEF c
    <2>3. d.path \in Files /\ d.path \in Registry!Configured(p) /\ d.protocol = p
      BY <2>1, <2>2
    <2>4. d \in Registry!BlobArgs
      BY <2>3, PlanAssumption DEF Registry!BlobArgs
    <2> QED
      BY <1>1, <2>3, <2>4
  <1> QED
    BY <1>4, <1>6, <1>7

LEMMA PlanDeclares == PlanInv => BlobsDeclared
  <1> SUFFICES ASSUME PlanInv, phase = "done", options.catalog
               PROVE  /\ Registry!AliasesUnique
                      /\ \A n \in nodes : \A b \in BlobsOf(n) \ BlobsGiven :
                           IF BlobsOfItsOwn(n) # {}
                           THEN \A own \in BlobsOfItsOwn(n) :
                                  /\ own.blob = b
                                  /\ \/ own.file \in BlobsGiven
                                     \/ \E m \in BlobsGiven \cap DOMAIN Found : own.file \in Found[m]
                           ELSE \E d \in registry :
                                  /\ d.alias = b /\ d.protocol = Registry!ProtocolOf(Key)
                                  /\ IF d \in Registry!BlobArgs
                                     THEN d.path \in Registry!Configured(d.protocol)
                                     ELSE b \in Range(payloads.protocol[d.protocol].builtin)
    BY Counting DEF BlobsDeclared
  <1>1. /\ Prepared /\ variants = PlanRendered /\ Drawn /\ RegistryInv /\ status = "built"
        /\ Range(Aliases) = Registry!Offers(Key) /\ Registry!AliasesUnique
        /\ \A b \in Registry!Offers(Key) : b \in Valid
    <2>1. Prepared /\ variants = PlanRendered /\ Drawn /\ RegistryInv /\ status = "built"
      BY DoneIsSelected
    <2>2. \A b \in Registry!Offers(Key) : b \in Valid
      BY <2>1 DEF RegistryInv, Registry!Offers
    <2> QED
      BY <2>1, <2>2, AliasesAre DEF RegistryInv
  <1>2. ASSUME NEW n \in nodes, NEW b \in BlobsOf(n) \ BlobsGiven
        PROVE  \/ /\ BlobsOfItsOwn(n) # {}
                  /\ \A own \in BlobsOfItsOwn(n) :
                       /\ own.blob = b
                       /\ \/ own.file \in BlobsGiven
                          \/ \E m \in BlobsGiven \cap DOMAIN Found : own.file \in Found[m]
               \/ BlobsOfItsOwn(n) = {} /\ b \in Registry!Offers(Key)
    <2>1. PICK v \in Range(PlanRendered) : n.args = Args(v)
      BY <1>1 DEF Drawn
    <2>2. PICK g \in DOMAIN PlanGenerators : \E a \in ActionsIn(g) :
            \E c \in Combinations(ParamsIn(g, a)) : v = VariantIn(g, a, c)
      BY <1>1, RenderedIs
    <2>3. PICK a \in ActionsIn(g) : \E c \in Combinations(ParamsIn(g, a)) : v = VariantIn(g, a, c)
      BY <2>2
    <2>4. PICK c \in Combinations(ParamsIn(g, a)) : v = VariantIn(g, a, c)
      BY <2>3
    <2> DEFINE action == ActionIn(g, a)
               template == action.template
               params == ParamsIn(g, a)
               value == ValueOf(params, c, Blob)
               blobs == BlobOption(template, params, c)
               filters == PayloadOption(template, params, c, Key)
               lua == Lua(template, params, c)
    <2>5. /\ action \in CatalogAction /\ params \in Seq(CatalogOverride)
          /\ a \in Chosen(plan.catalog, PlanGenerators[g], Key) /\ template \in Templates
          /\ Renderable(template, params) /\ Key \in Keys
      <3>1. a \in Chosen(plan.catalog, PlanGenerators[g], Key) /\ Renderable(template, params)
        BY DEF ActionsIn
      <3>2. action \in CatalogAction /\ params \in Seq(CatalogOverride)
        BY <1>1, <3>1, ParamsInTyped
      <3> QED
        BY <1>1, <3>1, <3>2 DEF CatalogAction, Prepared
    <2>6. v.before = blobs \o filters /\ v.lua = lua
      BY <2>4 DEF VariantIn, VariantOf, ActionIn
    <2>7. Range(n.args) = Range(blobs) \cup Range(filters) \cup {lua}
      <3>1. v \in Variant
        <4>1. PlanRendered \in Seq(Variant)
          BY <1>1, RenderedIs
        <4> QED
          BY <4>1 DEF Range
      <3>2. blobs \in Seq(Leading) /\ filters \in Seq(Leading)
        BY <2>5, OptionsBeforeTyped
      <3> QED
        BY <2>1, <2>6, <3>1, <3>2, ArgsAre
    <2> DEFINE declared == Blob \in template.holes /\ value \in DOMAIN BlobName
    <2>8. Range(blobs) = IF declared THEN {[blob |-> BlobName[value], file |-> value]} ELSE {}
      BY DEF BlobOption, Range
    <2>9. \A x \in Range(filters) : \E w : x = [payload |-> w]
      BY DEF PayloadOption, Range
    <2>10. /\ DOMAIN lua = {"template", "fill"}
           /\ DOMAIN lua.fill = template.holes \cup template.suffixes
           /\ Blob \in template.holes => lua.fill[Blob] = Filled(Blob, value)
      BY DEF Lua
    <2> HIDE DEF blobs, filters, lua, declared, value, template, params, action
    <2>11. Blob \in template.holes /\ b = Filled(Blob, value)
      <3>1. PICK x \in Range(n.args) : "fill" \in DOMAIN x /\ Blob \in DOMAIN x.fill /\ b = x.fill[Blob]
        BY DEF BlobsOf
      <3>2. x = lua
        BY <2>7, <2>8, <2>9, <3>1
      <3>3. Blob \notin template.suffixes
        BY <2>5, CatalogAssumption
      <3> QED
        BY <2>10, <3>1, <3>2, <3>3
    <2>12. BlobsOfItsOwn(n) = Range(blobs)
      <3>1. \A x \in Range(filters) : "file" \notin DOMAIN x
        BY <2>9
      <3>2. "file" \notin DOMAIN lua
        BY <2>10
      <3>3. \A x \in Range(blobs) : "file" \in DOMAIN x
        BY <2>8
      <3> QED
        BY <2>7, <3>1, <3>2, <3>3 DEF BlobsOfItsOwn
    <2>13. \/ value \in Range(Aliases) \/ value \in BlobsGiven
           \/ \E m \in BlobsGiven \cap DOMAIN Found : value \in Found[m]
      <3>1. Blob \in ParamNames(params)
        BY <2>5, <2>11 DEF Renderable
      <3>2. PICK i \in DOMAIN params : /\ params[i] \in Range(params) /\ params[i].name = Blob
                                       /\ value \in Range(params[i].values)
        BY <2>5, <3>1, ValueTyped DEF value, params
      <3> QED
        BY <1>1, <2>5, <3>2, BlobValues DEF params
    <2>14. CASE declared
      <3>1. BlobsOfItsOwn(n) = {[blob |-> BlobName[value], file |-> value]}
        BY <2>8, <2>12, <2>14
      <3>2. b = BlobName[value] /\ value \in DOMAIN BlobName
        BY <2>11, <2>14 DEF Filled, declared
      <3>3. value \notin Range(Aliases)
        BY <1>1, <3>2, PlanAssumption
      <3> QED
        BY <2>13, <3>1, <3>2, <3>3
    <2>15. CASE ~declared
      <3>1. BlobsOfItsOwn(n) = {} /\ b = value /\ value \notin DOMAIN BlobName
        BY <2>8, <2>11, <2>12, <2>15 DEF Filled, declared
      <3>2. \A m \in DOMAIN Found : value \notin Found[m]
        BY <3>1, CatalogAssumption
      <3> QED
        BY <1>1, <2>13, <3>1, <3>2
    <2> QED
      BY <2>14, <2>15
  <1>3. ASSUME NEW b \in Registry!Offers(Key)
        PROVE  \E d \in registry :
                 /\ d.alias = b /\ d.protocol = Registry!ProtocolOf(Key)
                 /\ IF d \in Registry!BlobArgs THEN d.path \in Registry!Configured(d.protocol)
                    ELSE b \in Range(payloads.protocol[d.protocol].builtin)
    BY <1>1, RegistryOf
  <1> QED
    BY <1>1, <1>2, <1>3

\* What a candidate asks of nfqws2 is declared, for all plans: nfqws2 is never started
\* with the name of a blob that neither the catalog, the settings nor the registry knows.
THEOREM PlanDeclaresBlobs == PlanSpec => []BlobsDeclared
  <1> QED
    BY PlanInitInv, PlanStep, PlanDeclares, PTL DEF PlanSpec
=============================================================================
