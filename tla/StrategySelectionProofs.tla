---------------------- MODULE StrategySelectionProofs -----------------------
(***************************************************************************)
(* Theorems about StrategySelection for all catalogs, ranks and options.   *)
(***************************************************************************)
EXTENDS StrategySelection, FiniteSetTheorems, SequenceTheorems, TLAPS

LEMMA OptionsTyped ==
  ASSUME TypeOK
  PROVE  /\ options \in Options /\ variants \in Seq(Variant)
         /\ Len(variants) \in Nat /\ options.candidates \in Nat
         /\ options.perFamily \in Nat /\ options.perAction \in Nat
  <1>1. options \in Options /\ variants \in Seq(Variant)
    BY SelectionAssumption DEF TypeOK
  <1> QED
    BY <1>1 DEF Options

LEMMA ArgsTyped ==
  ASSUME NEW v \in Variant
  PROVE  Args(v) \in Seq(Leading \cup Luas)
  <1>1. v.before \in Seq(Leading \cup Luas) /\ v.lua \in Leading \cup Luas
    BY DEF Variant
  <1> QED
    BY <1>1 DEF Args

LEMMA NewNodeTyped ==
  ASSUME NEW v \in Variant, NEW n \in Nat
  PROVE  NewNode(v, n) \in Node
  <1>1. v.family \in Families /\ v.action \in Actions
    BY DEF Variant
  <1> QED
    BY <1>1, ArgsTyped DEF NewNode, Node

\* Reindexing keeps the list but for the indexes.
LEMMA ReindexedList ==
  ASSUME selected \in Seq(Node)
  PROVE  /\ Reindexed \in Seq(Node)
         /\ Len(Reindexed) = Len(selected) /\ DOMAIN Reindexed = DOMAIN selected
         /\ \A i \in DOMAIN selected :
              /\ Reindexed[i].family = selected[i].family
              /\ Reindexed[i].action = selected[i].action
              /\ Reindexed[i].args = selected[i].args
              /\ Reindexed[i].index = i - 1
  <1>1. Len(selected) \in Nat /\ DOMAIN selected = 1 .. Len(selected)
    OBVIOUS
  <1>2. ASSUME NEW i \in 1 .. Len(selected)
        PROVE  LET n == [selected[i] EXCEPT !.index = i - 1]
               IN  /\ n \in Node /\ n.family = selected[i].family
                   /\ n.action = selected[i].action /\ n.args = selected[i].args
                   /\ n.index = i - 1
    <2>1. selected[i] \in Node /\ i - 1 \in Nat
      BY <1>1
    <2> QED
      BY <2>1 DEF Node
  <1>3. Reindexed = [i \in 1 .. Len(selected) |-> [selected[i] EXCEPT !.index = i - 1]]
    BY <1>1 DEF Reindexed
  <1>4. Reindexed \in [1 .. Len(selected) -> Node]
    BY <1>2, <1>3
  <1>5. Reindexed \in Seq(Node) /\ Len(Reindexed) = Len(selected)
    BY <1>1, <1>4
  <1> QED
    BY <1>1, <1>2, <1>3, <1>5

LEMMA PairsTyped ==
  ASSUME NEW list \in Seq(Node)
  PROVE  Pairs(list) \subseteq Pair
  <1>1. Range(list) \subseteq Node
    BY DEF Range
  <1> QED
    BY <1>1 DEF Pairs, Singles, Pair

-----------------------------------------------------------------------------
(***************************************************************************)
(* Orders: a node that comes first belongs to the family that does.        *)
(***************************************************************************)
\* The first two keys of a node are those of its family.
LEMMA FamilyDecides ==
  ASSUME NEW a \in Node, NEW b \in Node, QualityBefore(a, b), a.family # b.family
  PROVE  FamilyBefore(a.family, b.family)
  <1> DEFINE s == QualityKey(a)
             t == QualityKey(b)
  <1>1. /\ s = <<DiversityRank[a.family], a.family, a.action, Digits[a.index]>>
        /\ t = <<DiversityRank[b.family], b.family, b.action, Digits[b.index]>>
    BY DEF QualityKey
  <1>2. PICK i \in 1 .. 4 : s[i] < t[i] /\ \A j \in 1 .. i - 1 : s[j] = t[j]
    BY <1>1 DEF QualityBefore, Lexicographic
  <1>3. s[1] = DiversityRank[a.family] /\ t[1] = DiversityRank[b.family]
        /\ s[2] = a.family /\ t[2] = b.family
    BY <1>1
  <1>4. i \in 1 .. 2
    BY <1>2, <1>3
  <1>5. s[1] < t[1] \/ (s[2] < t[2] /\ s[1] = t[1])
    BY <1>2, <1>4
  <1> QED
    BY <1>3, <1>5 DEF FamilyBefore, Lexicographic

LEMMA FamilyOrderStrict ==
  ASSUME NEW f \in Families, NEW g \in Families, FamilyBefore(f, g)
  PROVE  ~FamilyBefore(g, f)
  <1>1. /\ f \in Nat /\ g \in Nat /\ DiversityRank[f] \in Nat /\ DiversityRank[g] \in Nat
    BY SelectionAssumption
  <1>2. ASSUME NEW x \in Families, NEW y \in Families, FamilyBefore(x, y)
        PROVE  DiversityRank[x] < DiversityRank[y] \/ (x < y /\ DiversityRank[x] = DiversityRank[y])
    BY <1>2 DEF FamilyBefore, Lexicographic
  <1> QED
    BY <1>1, <1>2

\* Who is selected comes before every other family whose turn is open.
LEMMA LeastFamily ==
  ASSUME TypeOK, NEW n \in Open, LeastNode(n, Open), NEW m \in Open, m.family # n.family
  PROVE  FamilyBefore(n.family, m.family)
  <1>1. n \in Node /\ m \in Node
    BY DEF TypeOK, Open
  <1>2. QualityBefore(n, m)
    BY DEF LeastNode
  <1> QED
    BY <1>1, <1>2, FamilyDecides

-----------------------------------------------------------------------------
(***************************************************************************)
(* Types.                                                                  *)
(***************************************************************************)
TypeInv ==
  /\ TypeOK /\ IsFiniteSet(nodes)
  /\ phase \in {"walk", "filter"} => selected = <<>> /\ served = {}

\* before the walk over any list of variants whose indexes Digits knows
Ready == /\ options \in OptionSet /\ variants \in Seq(Variant)
         /\ Len(variants) \in DOMAIN Digits /\ Unstarted

LEMMA InitReady == Init => Ready
  BY SelectionAssumption DEF Init, Ready

LEMMA TypeInit == Ready => TypeInv
  <1> SUFFICES ASSUME Ready PROVE TypeInv
    OBVIOUS
  <1>1. IsFiniteSet(nodes)
    BY FS_EmptySet DEF Ready, Unstarted
  <1>2. variants \in Seq(Variant)
    BY DEF Ready
  <1>3. next \in 1 .. Len(variants) + 1
    BY <1>2 DEF Ready, Unstarted
  <1> QED
    BY <1>1, <1>2, <1>3 DEF Ready, Unstarted, TypeInv, TypeOK

LEMMA TypeStep == TypeInv /\ [Next]_vars => TypeInv'
  <1> SUFFICES ASSUME TypeInv, [Next]_vars PROVE TypeInv'
    OBVIOUS
  <1> USE DEF TypeInv, input
  <1>0. TypeOK /\ IsFiniteSet(nodes)
    OBVIOUS
  <1>1. CASE AppendVariant
    <2>1. variants \in Seq(Variant) /\ next \in 1 .. Len(variants)
      BY <1>1, OptionsTyped DEF AppendVariant, TypeOK
    <2>2. variants[next] \in Variant /\ Cardinality(nodes) \in Nat
      BY <2>1, <1>0, FS_CardinalityType
    <2>3. NewNode(variants[next], Cardinality(nodes)) \in Node
      BY <2>2, NewNodeTyped
    <2>4. nodes' \subseteq Node /\ nodes \subseteq nodes'
      BY <1>1, <2>3 DEF AppendVariant, TypeOK
    <2>5. IsFiniteSet(nodes')
      BY <1>1, FS_AddElement DEF AppendVariant
    <2>6. next' \in 1 .. Len(variants) + 1
      BY <1>1, <2>1, OptionsTyped DEF AppendVariant
    <2> QED
      BY <1>1, <2>4, <2>5, <2>6 DEF AppendVariant, TypeOK
  <1>2. CASE WalkEnds
    BY <1>2 DEF WalkEnds, TypeOK
  <1>3. CASE Filter
    BY <1>3 DEF Filter, TypeOK
  <1>4. CASE FilterEnds
    BY <1>4 DEF FilterEnds, TypeOK
  <1>5. CASE Select
    <2>1. PICK n \in Open : /\ selected' = Append(selected, n)
                            /\ waiting' = waiting \ {n}
                            /\ served' = IF options.roundRobin THEN served \cup {n.family}
                                         ELSE served
      BY <1>5 DEF Select
    <2>2. n \in Node /\ n.family \in Families
      BY <2>1 DEF Open, TypeOK, Node
    <2>3. selected' \in Seq(Node) /\ served' \subseteq Families
      BY <2>1, <2>2 DEF TypeOK
    <2> QED
      BY <1>5, <2>1, <2>3 DEF Select, TypeOK
  <1>6. CASE NextRound
    BY <1>6 DEF NextRound, TypeOK
  <1>7. CASE SelectEnds
    <2>1. selected' \in Seq(Node)
      BY <1>7, ReindexedList DEF SelectEnds, TypeOK
    <2>2. Pairs(Reindexed) \subseteq Pair
      BY <1>7, <2>1, PairsTyped DEF SelectEnds
    <2>3. \/ phase' = "combine" /\ todo' \subseteq Pair
          \/ phase' = "done" /\ todo' = {}
      BY <1>7, <2>2 DEF SelectEnds
    <2> QED
      BY <1>7, <2>1, <2>3 DEF SelectEnds, TypeOK
  <1>8. CASE Combine
    <2>1. PICK p \in todo : /\ todo' = todo \ {p}
                            /\ combined' \in {Append(combined, p), combined}
      BY <1>8 DEF Combine
    <2>2. p \in Pair
      BY <1>8, <2>1 DEF Combine, TypeOK
    <2>3. combined' \in Seq(Pair)
      BY <2>1, <2>2 DEF TypeOK
    <2> QED
      BY <1>8, <2>1, <2>3 DEF Combine, TypeOK
  <1>9. CASE CombineEnds
    <2>1. Len(selected) \in Nat /\ Len(combined) \in Nat /\ options.candidates \in Nat
      BY OptionsTyped DEF TypeOK
    <2>2. Remaining \in Int
      BY <2>1 DEF Remaining
    <2>3. CASE Len(combined) > Remaining
      <3>1. 1 \in Int /\ SubSeq(combined, 1, Remaining) \in Seq(Pair)
        BY <2>1, <2>2, <2>3 DEF TypeOK
      <3> QED
        BY <1>9, <2>1, <2>2, <2>3, <3>1 DEF CombineEnds, Truncated, TypeOK
    <2>4. CASE Len(combined) <= Remaining
      BY <1>9, <2>4 DEF CombineEnds, Truncated, TypeOK
    <2> QED
      BY <2>1, <2>2, <2>3, <2>4
  <1>10. CASE UNCHANGED vars
    BY <1>10 DEF vars, TypeOK
  <1> QED
    BY <1>1, <1>2, <1>3, <1>4, <1>5, <1>6, <1>7, <1>8, <1>9, <1>10 DEF Next, Step, vars

\* The list and its combinations are made of nodes of the catalog, and the loops
\* look only at what the one before left them.
THEOREM SelectionTypeCorrect == Spec => []TypeOK
  <1>1. TypeInv => TypeOK
    BY DEF TypeInv
  <1> QED
    BY <1>1, InitReady, TypeInit, TypeStep, PTL DEF Spec

-----------------------------------------------------------------------------
(***************************************************************************)
(* The round robin.                                                        *)
(***************************************************************************)
\* The lists without indexes: what is selected keeps its family, and what was
\* served since stays so.
LEMMA ServedStays ==
  ASSUME selected \in Seq(Node), selected' \in Seq(Node), Len(selected) <= Len(selected)',
         \A k \in DOMAIN selected : selected'[k].family = selected[k].family,
         NEW i \in DOMAIN selected, NEW f \in Families, ServedSince(i, f)
  PROVE  ServedSince(i, f)'
  BY DEF ServedSince

\* One more selection keeps the turns in order.
LEMMA SelectInTurn ==
  ASSUME TypeOK, InTurn, options.roundRobin, NEW n \in Open, LeastNode(n, Open),
         waiting' = waiting \ {n}, served' = served \cup {n.family}
  PROVE  InTurn'
  <1> SUFFICES ASSUME NEW f \in served \cup {n.family}, NEW m \in Open'
               PROVE  FamilyBefore(f, m.family)
    BY DEF InTurn
  <1>1. m \in Open /\ m.family # n.family
    BY DEF Open
  <1>2. CASE f \in served
    BY <1>1, <1>2 DEF InTurn
  <1>3. CASE f = n.family
    BY <1>1, <1>3, LeastFamily
  <1> QED
    BY <1>2, <1>3

\* Whoever waits when a family has another turn has been served since its last.
LEMMA TurnAfterOthers ==
  ASSUME TypeOK, Owed, NEW n \in Open, LeastNode(n, Open),
         NEW i \in DOMAIN selected, selected[i].family = n.family,
         NEW m \in waiting, m.family # n.family
  PROVE  ServedSince(i, m.family)
  <1>1. n \in Node /\ m \in Node /\ n.family \notin served
    BY DEF Open, TypeOK
  <1>2. n.family \in Families /\ m.family \in Families
    BY <1>1 DEF Node
  <1>3. \/ ServedSince(i, m.family)
        \/ m.family \notin served /\ FamilyBefore(m.family, n.family)
    BY <1>1 DEF Owed
  <1>4. CASE m.family \notin served /\ FamilyBefore(m.family, n.family)
    <2>1. m \in Open
      BY <1>4 DEF Open
    <2>2. FamilyBefore(n.family, m.family)
      BY <2>1, LeastFamily
    <2> QED
      BY <1>2, <1>4, <2>2, FamilyOrderStrict
  <1> QED
    BY <1>3, <1>4

LEMMA SelectOwed ==
  ASSUME TypeOK, InTurn, Owed, options.roundRobin, NEW n \in Open, LeastNode(n, Open),
         selected' = Append(selected, n), selected' \in Seq(Node),
         waiting' = waiting \ {n}, served' = served \cup {n.family}
  PROVE  Owed'
  <1> DEFINE last == Len(selected) + 1
  <1>1. /\ selected \in Seq(Node) /\ Len(selected) \in Nat /\ Len(selected)' = last
        /\ DOMAIN selected' = 1 .. last /\ DOMAIN selected = 1 .. Len(selected)
        /\ selected'[last] = n
        /\ \A k \in DOMAIN selected : selected'[k] = selected[k]
    BY DEF TypeOK
  <1>2. n \in waiting /\ n \in Node /\ n.family \notin served /\ n.family \in Families
    BY DEF Open, TypeOK, Node
  <1> SUFFICES ASSUME NEW i \in DOMAIN selected', NEW m \in waiting'
               PROVE  \/ ServedSince(i, m.family)'
                      \/ selected'[i].family \in served' /\ m.family \notin served'
                      \/ /\ selected'[i].family \in served' <=> m.family \in served'
                         /\ FamilyBefore(m.family, selected'[i].family)
    BY DEF Owed
  <1>3. m \in waiting /\ m \in Node /\ m.family \in Families
    BY DEF TypeOK, Node
  <1>4. CASE m.family = n.family
    <2>1. last \in i .. last /\ selected'[last].family = m.family
      BY <1>1, <1>4
    <2> QED
      BY <1>1, <2>1 DEF ServedSince
  <1>5. CASE m.family # n.family /\ i = last
    <2>1. selected'[i].family = n.family
      BY <1>1, <1>5
    <2>2. CASE m.family \in served
      <3>1. FamilyBefore(m.family, n.family)
        BY <1>2, <2>2 DEF InTurn
      <3> QED
        BY <2>1, <2>2, <3>1
    <2>3. CASE m.family \notin served
      BY <1>5, <2>1, <2>3
    <2> QED
      BY <2>2, <2>3
  <1>6. CASE m.family # n.family /\ i # last
    <2>1. i \in DOMAIN selected /\ selected'[i] = selected[i]
      BY <1>1, <1>6
    <2>2. ServedSince(i, m.family) => ServedSince(i, m.family)'
      BY <1>1, <1>3, <2>1, ServedStays
    <2>3. CASE selected[i].family = n.family
      BY <1>3, <1>6, <2>1, <2>2, <2>3, TurnAfterOthers
    <2>4. CASE selected[i].family # n.family
      BY <1>3, <1>6, <2>1, <2>2, <2>4 DEF Owed
    <2> QED
      BY <2>3, <2>4
  <1> QED
    BY <1>4, <1>5, <1>6

LEMMA SelectInterleaved ==
  ASSUME TypeOK, Owed, Interleaved, options.roundRobin, options' = options,
         NEW n \in Open, LeastNode(n, Open),
         selected' = Append(selected, n), selected' \in Seq(Node), waiting' = waiting \ {n}
  PROVE  Interleaved'
  <1> DEFINE last == Len(selected) + 1
  <1>1. /\ selected \in Seq(Node) /\ Len(selected) \in Nat /\ Len(selected)' = last
        /\ DOMAIN selected' = 1 .. last /\ DOMAIN selected = 1 .. Len(selected)
        /\ selected'[last] = n
        /\ \A k \in DOMAIN selected : selected'[k] = selected[k]
    BY DEF TypeOK
  <1>2. n \in waiting /\ waiting' \subseteq waiting
    BY DEF Open
  <1> SUFFICES ASSUME NEW i \in DOMAIN selected', NEW j \in DOMAIN selected',
                      i < j, selected'[i].family = selected'[j].family,
                      NEW m \in waiting' \cup {selected'[k] : k \in j + 1 .. last}
               PROVE  \E k \in i .. j : selected'[k].family = m.family
    BY <1>1 DEF Interleaved
  <1>3. i \in DOMAIN selected /\ selected'[i] = selected[i]
    BY <1>1
  <1>4. CASE j = last
    <2>1. m \in waiting /\ selected[i].family = n.family
      BY <1>1, <1>2, <1>3, <1>4
    <2>2. CASE m.family = n.family
      BY <1>1, <1>3, <2>1, <2>2
    <2>3. CASE m.family # n.family
      <3>1. PICK k \in i .. Len(selected) : selected[k].family = m.family
        BY <1>3, <2>1, <2>3, TurnAfterOthers DEF ServedSince
      <3> QED
        BY <1>1, <1>3, <1>4, <3>1
    <2> QED
      BY <2>2, <2>3
  <1>5. CASE j # last
    <2>1. j \in DOMAIN selected /\ selected[i].family = selected[j].family
      BY <1>1, <1>3, <1>5
    <2>2. m \in waiting \cup {selected[k] : k \in j + 1 .. Len(selected)}
      BY <1>1, <1>2, <2>1
    <2>3. PICK k \in i .. j : selected[k].family = m.family
      BY <1>3, <2>1, <2>2 DEF Interleaved
    <2> QED
      BY <1>1, <1>3, <2>1, <2>3
  <1> QED
    BY <1>4, <1>5

\* Before the first selection there is nothing to compare.
LEMMA NothingSelected ==
  ASSUME selected' = <<>>, served' = {}
  PROVE  InTurn' /\ Owed' /\ Interleaved'
  <1>1. DOMAIN selected' = {}
    OBVIOUS
  <1> QED
    BY <1>1 DEF InTurn, Owed, Interleaved

\* Only the families of what is selected matter.
LEMMA SameFamilies ==
  ASSUME selected \in Seq(Node), selected' \in Seq(Node), Len(selected)' = Len(selected),
         \A k \in DOMAIN selected : selected'[k].family = selected[k].family,
         options' = options, waiting' = waiting, served' = served
  PROVE  /\ InTurn => InTurn'
         /\ Owed => Owed'
         /\ Interleaved => Interleaved'
  <1>1. DOMAIN selected' = DOMAIN selected /\ DOMAIN selected = 1 .. Len(selected)
        /\ Len(selected) \in Nat
    OBVIOUS
  <1>2. InTurn => InTurn'
    BY DEF InTurn, Open
  <1>3. ASSUME NEW i \in DOMAIN selected, NEW f, ServedSince(i, f)
        PROVE  ServedSince(i, f)'
    BY <1>1, <1>3 DEF ServedSince
  <1>4. Owed => Owed'
    <2> SUFFICES ASSUME Owed, NEW i \in DOMAIN selected, NEW n \in waiting
                 PROVE  \/ ServedSince(i, n.family)'
                        \/ selected'[i].family \in served /\ n.family \notin served
                        \/ /\ selected'[i].family \in served <=> n.family \in served
                           /\ FamilyBefore(n.family, selected'[i].family)
      BY <1>1 DEF Owed
    <2> QED
      BY <1>3 DEF Owed
  <1>5. Interleaved => Interleaved'
    <2> SUFFICES ASSUME Interleaved, options.roundRobin,
                        NEW i \in DOMAIN selected, NEW j \in DOMAIN selected,
                        i < j, selected'[i].family = selected'[j].family,
                        NEW n \in waiting \cup {selected'[k] : k \in j + 1 .. Len(selected)}
                 PROVE  \E m \in i .. j : selected'[m].family = n.family
      BY <1>1 DEF Interleaved
    <2>1. selected[i].family = selected[j].family
      OBVIOUS
    <2>2. \E o \in waiting \cup {selected[k] : k \in j + 1 .. Len(selected)} : o.family = n.family
      <3>1. CASE n \in waiting
        BY <3>1
      <3>2. CASE n \in {selected'[k] : k \in j + 1 .. Len(selected)}
        <4>1. PICK k \in j + 1 .. Len(selected) : n = selected'[k]
          BY <3>2
        <4>2. k \in DOMAIN selected
          BY <1>1, <4>1
        <4> QED
          BY <4>1, <4>2
      <3> QED
        BY <3>1, <3>2
    <2>3. PICK m \in i .. j : selected[m].family = n.family
      BY <2>1, <2>2 DEF Interleaved
    <2>4. m \in DOMAIN selected
      BY <1>1, <2>3
    <2> QED
      BY <2>3, <2>4
  <1> QED
    BY <1>2, <1>4, <1>5

LEMMA InterleavedInit == Ready => InterleavedInductive
  <1> SUFFICES ASSUME Ready PROVE InterleavedInductive
    OBVIOUS
  <1>1. TypeInv
    BY TypeInit
  <1>2. selected = <<>> /\ served = {}
    BY DEF Ready, Unstarted
  <1>3. DOMAIN selected = {}
    BY <1>2
  <1>4. InTurn /\ Owed /\ Interleaved
    BY <1>2, <1>3 DEF InTurn, Owed, Interleaved
  <1> QED
    BY <1>1, <1>4 DEF InterleavedInductive, TypeInv

LEMMA InterleavedStep == InterleavedInductive /\ [Next]_vars => InterleavedInductive'
  <1> SUFFICES ASSUME InterleavedInductive, [Next]_vars PROVE InterleavedInductive'
    OBVIOUS
  <1>1. TypeInv /\ TypeOK /\ Interleaved /\ (options.roundRobin => InTurn /\ Owed)
    BY DEF InterleavedInductive, TypeInv
  <1>2. TypeInv'
    BY <1>1, TypeStep
  <1>3. selected \in Seq(Node) /\ selected' \in Seq(Node)
    BY <1>1, <1>2 DEF TypeInv, TypeOK
  <1> SUFFICES (options.roundRobin => InTurn /\ Owed)' /\ Interleaved'
    BY <1>2 DEF InterleavedInductive, TypeInv
  <1>4. CASE AppendVariant \/ WalkEnds \/ Filter \/ FilterEnds
    <2>1. selected' = <<>> /\ served' = {}
      BY <1>1, <1>4 DEF TypeInv, AppendVariant, WalkEnds, Filter, FilterEnds
    <2>2. InTurn' /\ Owed' /\ Interleaved'
      BY <2>1, NothingSelected
    <2> QED
      BY <2>2
  <1>5. CASE Select
    <2>1. PICK n \in Open : /\ LeastNode(n, Open)
                            /\ selected' = Append(selected, n)
                            /\ waiting' = waiting \ {n}
                            /\ served' = IF options.roundRobin THEN served \cup {n.family}
                                         ELSE served
      BY <1>5 DEF Select
    <2>2. options' = options
      BY <1>5 DEF Select, input
    <2>3. CASE options.roundRobin
      <3>1. InTurn'
        BY <1>1, <2>1, <2>3, SelectInTurn
      <3>2. Owed'
        BY <1>1, <1>3, <2>1, <2>3, SelectOwed
      <3>3. Interleaved'
        BY <1>1, <1>3, <2>1, <2>2, <2>3, SelectInterleaved
      <3> QED
        BY <3>1, <3>2, <3>3
    <2>4. CASE ~options.roundRobin
      BY <2>2, <2>4 DEF Interleaved
    <2> QED
      BY <2>3, <2>4
  <1>6. CASE NextRound
    <2>1. /\ served' = {} /\ selected' = selected /\ waiting' = waiting /\ options' = options
          /\ Open = {}
      BY <1>6 DEF NextRound, input
    <2>2. Interleaved'
      BY <1>1, <2>1 DEF Interleaved
    <2>3. InTurn'
      BY <2>1 DEF InTurn
    <2>4. options.roundRobin => Owed'
      <3> SUFFICES ASSUME options.roundRobin, NEW i \in DOMAIN selected, NEW n \in waiting
                   PROVE  ServedSince(i, n.family)' \/ FamilyBefore(n.family, selected[i].family)
        BY <2>1 DEF Owed
      <3>1. n.family \in served
        BY <2>1 DEF Open
      <3>2. ServedSince(i, n.family) => ServedSince(i, n.family)'
        BY <2>1 DEF ServedSince
      <3> QED
        BY <1>1, <3>1, <3>2 DEF Owed
    <2> QED
      BY <2>1, <2>2, <2>3, <2>4
  <1>7. CASE SelectEnds
    <2>1. selected' = Reindexed /\ options' = options /\ waiting' = waiting /\ served' = served
      BY <1>7 DEF SelectEnds, input
    <2>2. /\ Len(selected)' = Len(selected)
          /\ \A k \in DOMAIN selected : selected'[k].family = selected[k].family
      BY <1>3, <2>1, ReindexedList
    <2> QED
      BY <1>1, <1>3, <2>1, <2>2, SameFamilies
  <1>8. CASE Combine \/ CombineEnds \/ UNCHANGED vars
    <2>1. selected' = selected /\ options' = options /\ waiting' = waiting /\ served' = served
      BY <1>8 DEF Combine, CombineEnds, vars, input
    <2> QED
      BY <1>1, <1>3, <2>1, SameFamilies
  <1> QED
    BY <1>4, <1>5, <1>6, <1>7, <1>8 DEF Next, Step

\* With the round robin on, no family waits while another has two turns, whatever
\* the catalog, the ranks and the limits.
THEOREM SelectionInterleaved == Spec => []Interleaved
  <1>1. InterleavedInductive => Interleaved
    BY DEF InterleavedInductive
  <1> QED
    BY <1>1, InitReady, InterleavedInit, InterleavedStep, PTL DEF Spec
-----------------------------------------------------------------------------
(***************************************************************************)
(* Nothing is lost.                                                        *)
(***************************************************************************)
\* The walk leaves a node for every strategy it has met.
Passed ==
  /\ phase # "walk" => next > Len(variants)
  /\ \A k \in 1 .. next - 1 :
       ~(options.catalog /\ variants[k].action \in Legacy) =>
         \E m \in nodes : m.args = Args(variants[k])

\* the places of a kind of nodes, in the list and in waiting
Places(kind) == {i \in DOMAIN selected : selected[i] \in kind}
Taken(kind)  == Cardinality(waiting \cap kind) + Cardinality(Places(kind))

OfFamily(f)    == {m \in Node : m.family = f}
OfAction(f, a) == {m \in Node : m.family = f /\ m.action = a}

\* a limit that will keep n out of the list
Full(n) ==
  \/ Taken(OfFamily(n.family)) >= options.perFamily
  \/ Taken(OfAction(n.family, n.action)) >= options.perAction

Listed(n) == \E i \in DOMAIN selected : selected[i].args = n.args

LookedAt == IF phase = "filter" THEN nodes \ todo ELSE nodes

Kept ==
  /\ phase \in {"filter", "select"} =>
       \A n \in LookedAt :
         Listed(n) \/ \E m \in nodes : m.args = n.args /\ (m \in waiting \/ Full(m))
  /\ phase \in {"combine", "done"} =>
       \A n \in nodes : Listed(n) \/ \E m \in nodes : m.args = n.args /\ LimitReached(m)

\* No two that are admitted have the same arguments.
ArgsOnce ==
  /\ phase = "walk" => waiting = {}
  /\ phase = "filter" => waiting \cap todo = {}
  /\ \A m, n \in waiting : m.args = n.args => m = n
  /\ \A n \in waiting, i \in DOMAIN selected : selected[i].args # n.args
  /\ \A i, j \in DOMAIN selected : selected[i].args = selected[j].args => i = j

KeptInv == TypeInv /\ Passed /\ Kept /\ ArgsOnce

LEMMA KindsFinite ==
  ASSUME TypeInv, NEW kind
  PROVE  /\ IsFiniteSet(waiting \cap kind) /\ Cardinality(waiting \cap kind) \in Nat
         /\ IsFiniteSet(Places(kind)) /\ Cardinality(Places(kind)) \in Nat
  <1>1. IsFiniteSet(waiting \cap kind)
    BY FS_Subset DEF TypeInv, TypeOK
  <1>2. DOMAIN selected = 1 .. Len(selected) /\ Len(selected) \in Nat
    BY DEF TypeInv, TypeOK
  <1>3. IsFiniteSet(1 .. Len(selected)) /\ Places(kind) \subseteq 1 .. Len(selected)
    BY <1>2, FS_Interval DEF Places
  <1>4. IsFiniteSet(Places(kind))
    BY <1>3, FS_Subset
  <1> QED
    BY <1>1, <1>4, FS_CardinalityType

\* Limits count the nodes of a kind.
LEMMA KindsCounted ==
  ASSUME TypeOK, NEW f \in Families, NEW a \in Actions
  PROVE  /\ InFamily(waiting, f) = waiting \cap OfFamily(f)
         /\ InAction(waiting, f, a) = waiting \cap OfAction(f, a)
         /\ FamilyPlaces(f) = Places(OfFamily(f))
         /\ ActionPlaces(f, a) = Places(OfAction(f, a))
  <1>1. waiting \subseteq Node /\ \A i \in DOMAIN selected : selected[i] \in Node
    BY DEF TypeOK
  <1>2. InFamily(waiting, f) = waiting \cap OfFamily(f)
    BY <1>1 DEF InFamily, OfFamily
  <1>3. InAction(waiting, f, a) = waiting \cap OfAction(f, a)
    BY <1>1 DEF InAction, OfAction
  <1>4. FamilyPlaces(f) = Places(OfFamily(f))
    BY <1>1 DEF FamilyPlaces, Places, OfFamily
  <1>5. ActionPlaces(f, a) = Places(OfAction(f, a))
    BY <1>1 DEF ActionPlaces, FamilyPlaces, Places, OfAction
  <1> QED
    BY <1>2, <1>3, <1>4, <1>5

\* A selection moves a node from waiting to the list.
LEMMA SelectMoves ==
  ASSUME TypeInv, NEW kind, NEW n \in waiting,
         selected' = Append(selected, n), waiting' = waiting \ {n}
  PROVE  Taken(kind)' = Taken(kind)
  <1> DEFINE last == Len(selected) + 1
             W == waiting \cap kind
             P == Places(kind)
  <1>1. /\ Len(selected) \in Nat /\ DOMAIN selected' = 1 .. last
        /\ DOMAIN selected = 1 .. Len(selected)
        /\ selected'[last] = n
        /\ \A k \in DOMAIN selected : selected'[k] = selected[k]
    BY DEF TypeInv, TypeOK
  <1>2. last \notin P
    BY <1>1 DEF Places
  <1>3. IsFiniteSet(W) /\ Cardinality(W) \in Nat /\ IsFiniteSet(P) /\ Cardinality(P) \in Nat
    BY KindsFinite
  <1> HIDE DEF last
  <1>4. CASE n \in kind
    <2>1. P' = P \cup {last}
      BY <1>1, <1>4 DEF Places, last
    <2>2. W' = W \ {n} /\ n \in W
      BY <1>4
    <2> HIDE DEF W, P
    <2>3. Cardinality(P') = Cardinality(P) + 1 /\ Cardinality(W') = Cardinality(W) - 1
      BY <1>2, <1>3, <2>1, <2>2, FS_AddElement, FS_RemoveElement
    <2>4. Cardinality(W') + Cardinality(P') = Cardinality(W) + Cardinality(P)
      BY <1>3, <2>3
    <2> QED
      BY <2>4 DEF Taken, W, P
  <1>5. CASE n \notin kind
    <2>1. P' = P
      BY <1>1, <1>5 DEF Places, last
    <2>2. W' = W
      BY <1>5
    <2> HIDE DEF W, P
    <2>3. Cardinality(W') + Cardinality(P') = Cardinality(W) + Cardinality(P)
      BY <2>1, <2>2
    <2> QED
      BY <2>3 DEF Taken, W, P
  <1> QED
    BY <1>4, <1>5

\* An admission only adds to what is taken.
LEMMA TakenGrows ==
  ASSUME TypeInv, TypeInv', NEW kind, selected' = selected, waiting \subseteq waiting'
  PROVE  Taken(kind)' >= Taken(kind) /\ Taken(kind) \in Nat /\ Taken(kind)' \in Nat
  <1>1. /\ IsFiniteSet(waiting \cap kind) /\ Cardinality(waiting \cap kind) \in Nat
        /\ Cardinality(Places(kind)) \in Nat
    BY KindsFinite
  <1>2. IsFiniteSet(waiting' \cap kind) /\ Cardinality(waiting' \cap kind) \in Nat
    <2>1. IsFiniteSet(nodes') /\ waiting' \subseteq nodes'
      BY DEF TypeInv, TypeOK
    <2>2. IsFiniteSet(waiting' \cap kind)
      BY <2>1, FS_Subset
    <2> QED
      BY <2>2, FS_CardinalityType
  <1>3. Cardinality(waiting \cap kind) <= Cardinality(waiting' \cap kind)
    <2>1. waiting \cap kind \subseteq waiting' \cap kind
      OBVIOUS
    <2> QED
      BY <1>2, <2>1, FS_Subset
  <1>4. Places(kind)' = Places(kind)
    BY DEF Places
  <1> QED
    BY <1>1, <1>2, <1>3, <1>4 DEF Taken

LEMMA KeptInit == Ready => KeptInv
  <1> SUFFICES ASSUME Ready PROVE KeptInv
    OBVIOUS
  <1>1. DOMAIN selected = {} /\ waiting = {} /\ phase = "walk" /\ next = 1
    BY DEF Ready, Unstarted
  <1>2. Passed
    BY <1>1 DEF Passed
  <1>3. Kept /\ ArgsOnce
    BY <1>1 DEF Kept, ArgsOnce
  <1> QED
    BY <1>2, <1>3, TypeInit DEF KeptInv

\* The walk meets one more strategy, which leaves a node unless one is there.
LEMMA WalkKeeps ==
  ASSUME KeptInv, AppendVariant
  PROVE  Passed' /\ Kept' /\ ArgsOnce'
  <1>1. /\ phase = "walk" /\ phase' = "walk" /\ options' = options /\ variants' = variants
        /\ next \in Nat /\ next' = next + 1
        /\ waiting' = waiting /\ selected' = selected
    BY OptionsTyped DEF AppendVariant, input, KeptInv, TypeInv, TypeOK
  <1>2. nodes \subseteq nodes'
    BY DEF AppendVariant
  <1>3. ASSUME ~(options.catalog /\ variants[next].action \in Legacy)
        PROVE  \E m \in nodes' : m.args = Args(variants[next])
    <2>1. CASE Skipped(variants[next])
      BY <1>2, <1>3, <2>1 DEF Skipped, SameArgs
    <2>2. CASE ~Skipped(variants[next])
      <3>1. NewNode(variants[next], Cardinality(nodes)) \in nodes'
        BY <2>2 DEF AppendVariant
      <3> QED
        BY <3>1 DEF NewNode
    <2> QED
      BY <2>1, <2>2
  <1>4. Passed'
    <2> SUFFICES ASSUME NEW k \in 1 .. next,
                        ~(options.catalog /\ variants[k].action \in Legacy)
                 PROVE  \E m \in nodes' : m.args = Args(variants[k])
      BY <1>1 DEF Passed, Args
    <2>1. CASE k = next
      BY <1>3, <2>1
    <2>2. CASE k # next
      <3>1. k \in 1 .. next - 1
        BY <1>1, <2>2
      <3> QED
        BY <1>2, <3>1 DEF KeptInv, Passed
    <2> QED
      BY <2>1, <2>2
  <1>5. Kept'
    BY <1>1 DEF Kept
  <1>6. ArgsOnce'
    BY <1>1 DEF KeptInv, ArgsOnce
  <1> QED
    BY <1>4, <1>5, <1>6

\* Whoever is refused has the arguments of one looked at before, or a limit is full.
LEMMA FilterKeeps ==
  ASSUME KeptInv, TypeInv', Filter
  PROVE  Passed' /\ Kept' /\ ArgsOnce'
  <1> USE DEF KeptInv, TypeInv
  <1>1. PICK n \in todo : /\ todo' = todo \ {n}
                          /\ waiting' = IF Admitted(n) THEN waiting \cup {n} ELSE waiting
    BY DEF Filter
  <1>2. /\ phase = "filter" /\ phase' = "filter" /\ options' = options
        /\ variants' = variants /\ next' = next /\ nodes' = nodes
        /\ selected' = selected /\ selected = <<>> /\ DOMAIN selected = {}
        /\ waiting \subseteq waiting' /\ todo \subseteq nodes
    BY <1>1 DEF Filter, input, TypeOK
  <1>3. n \in nodes /\ n \in Node /\ n.family \in Families /\ n.action \in Actions
    BY <1>1, <1>2 DEF TypeOK, Node
  <1>4. ASSUME NEW m \in nodes, Full(m) PROVE Full(m)'
    <2> DEFINE f == OfFamily(m.family)
               a == OfAction(m.family, m.action)
    <2>1. /\ Taken(f)' >= Taken(f) /\ Taken(f) \in Nat /\ Taken(f)' \in Nat
          /\ Taken(a)' >= Taken(a) /\ Taken(a) \in Nat /\ Taken(a)' \in Nat
      BY <1>2, TakenGrows
    <2> HIDE DEF f, a
    <2>2. Taken(f) >= options.perFamily \/ Taken(a) >= options.perAction
      BY <1>4 DEF Full, f, a
    <2>3. Taken(f)' >= options.perFamily \/ Taken(a)' >= options.perAction
      BY <2>1, <2>2, OptionsTyped
    <2> QED
      BY <1>2, <2>3 DEF Full, f, a
  <1>5. ASSUME NEW m \in nodes, m \in waiting \/ Full(m) PROVE m \in waiting' \/ Full(m)'
    BY <1>2, <1>4, <1>5
  <1>6. \E m \in nodes : m.args = n.args /\ (m \in waiting' \/ Full(m)')
    <2>1. CASE Admitted(n)
      BY <1>1, <1>3, <2>1
    <2>2. CASE \E m \in nodes \ todo : m.args = n.args
      <3>1. PICK m \in nodes \ todo : m.args = n.args
        BY <2>2
      <3>2. PICK o \in nodes : o.args = m.args /\ (o \in waiting \/ Full(o))
        BY <1>2, <3>1 DEF Kept, LookedAt, Listed
      <3> QED
        BY <1>5, <3>1, <3>2
    <2>3. CASE \/ ~(Cardinality(InFamily(waiting, n.family)) < options.perFamily)
               \/ ~(Cardinality(InAction(waiting, n.family, n.action)) < options.perAction)
      <3> DEFINE f == OfFamily(n.family)
                 a == OfAction(n.family, n.action)
      <3>1. /\ Cardinality(waiting \cap f) \in Nat /\ Cardinality(Places(f)) \in Nat
            /\ Cardinality(waiting \cap a) \in Nat /\ Cardinality(Places(a)) \in Nat
        BY KindsFinite
      <3>2. InFamily(waiting, n.family) = waiting \cap f
            /\ InAction(waiting, n.family, n.action) = waiting \cap a
        BY <1>3, KindsCounted
      <3> HIDE DEF f, a
      <3>3. Taken(f) >= options.perFamily \/ Taken(a) >= options.perAction
        BY <2>3, <3>1, <3>2, OptionsTyped DEF Taken
      <3>4. Full(n)
        BY <3>3 DEF Full, f, a
      <3> QED
        BY <1>3, <1>4, <3>4
    <2> QED
      BY <2>1, <2>2, <2>3 DEF Admitted
  <1>7. Kept'
    <2> SUFFICES ASSUME NEW m \in nodes \ todo'
                 PROVE  \E o \in nodes : o.args = m.args /\ (o \in waiting' \/ Full(o)')
      BY <1>2 DEF Kept, LookedAt
    <2>1. CASE m = n
      BY <1>6, <2>1
    <2>2. CASE m # n
      <3>1. m \in nodes \ todo
        BY <1>1, <2>2
      <3>2. PICK o \in nodes : o.args = m.args /\ (o \in waiting \/ Full(o))
        BY <1>2, <3>1 DEF Kept, LookedAt, Listed
      <3> QED
        BY <1>5, <3>2
    <2> QED
      BY <2>1, <2>2
  <1>8. ArgsOnce'
    <2>1. waiting \subseteq nodes \ todo
      BY <1>2 DEF ArgsOnce, TypeOK
    <2>2. waiting' \cap todo' = {}
      BY <1>1, <2>1
    <2>3. \A m, o \in waiting' : m.args = o.args => m = o
      <3>1. CASE Admitted(n)
        <4>1. \A m \in waiting : m.args # n.args
          BY <2>1, <3>1 DEF Admitted
        <4> QED
          BY <1>1, <3>1, <4>1 DEF ArgsOnce
      <3>2. CASE ~Admitted(n)
        BY <1>1, <3>2 DEF ArgsOnce
      <3> QED
        BY <3>1, <3>2
    <2> QED
      BY <1>2, <2>2, <2>3 DEF ArgsOnce
  <1>9. Passed'
    BY <1>2 DEF Passed, Args
  <1> QED
    BY <1>7, <1>8, <1>9

LEMMA SelectKeeps ==
  ASSUME KeptInv, TypeInv', Select
  PROVE  Passed' /\ Kept' /\ ArgsOnce'
  <1> USE DEF KeptInv, TypeInv
  <1>1. PICK n \in waiting : selected' = Append(selected, n) /\ waiting' = waiting \ {n}
    BY DEF Select, Open
  <1>2. /\ phase = "select" /\ phase' = "select" /\ options' = options
        /\ variants' = variants /\ next' = next /\ nodes' = nodes
    BY DEF Select, input
  <1>3. /\ Len(selected) \in Nat /\ DOMAIN selected = 1 .. Len(selected)
        /\ DOMAIN selected' = 1 .. Len(selected) + 1
        /\ selected'[Len(selected) + 1] = n
        /\ \A k \in DOMAIN selected : selected'[k] = selected[k]
    BY <1>1 DEF TypeOK
  <1>4. ASSUME NEW m \in nodes, Full(m) PROVE Full(m)'
    <2>1. /\ Taken(OfFamily(m.family))' = Taken(OfFamily(m.family))
          /\ Taken(OfAction(m.family, m.action))' = Taken(OfAction(m.family, m.action))
      BY <1>1, SelectMoves
    <2> QED
      BY <1>2, <1>4, <2>1 DEF Full
  <1>5. Kept'
    <2> SUFFICES ASSUME NEW m \in nodes
                 PROVE  \/ Listed(m)'
                        \/ \E o \in nodes : o.args = m.args /\ (o \in waiting' \/ Full(o)')
      BY <1>2 DEF Kept, LookedAt
    <2>1. CASE Listed(m)
      BY <1>3, <2>1 DEF Listed
    <2>2. CASE \E o \in nodes : o.args = m.args /\ (o \in waiting \/ Full(o))
      <3>1. PICK o \in nodes : o.args = m.args /\ (o \in waiting \/ Full(o))
        BY <2>2
      <3>2. CASE o = n
        <4>1. Len(selected) + 1 \in DOMAIN selected'
          BY <1>3
        <4> QED
          BY <1>3, <3>1, <3>2, <4>1 DEF Listed
      <3>3. CASE o # n
        BY <1>1, <1>4, <3>1, <3>3
      <3> QED
        BY <3>2, <3>3
    <2> QED
      BY <1>2, <2>1, <2>2 DEF Kept, LookedAt
  <1>6. ArgsOnce'
    <2>1. \A m \in waiting' : m.args # n.args
      BY <1>1 DEF ArgsOnce
    <2>2. ASSUME NEW i \in DOMAIN selected', i # Len(selected) + 1
          PROVE  i \in DOMAIN selected /\ selected'[i] = selected[i]
      BY <1>3, <2>2
    <2>3. \A m \in waiting', i \in DOMAIN selected' : selected'[i].args # m.args
      BY <1>1, <1>3, <2>1, <2>2 DEF ArgsOnce
    <2>4. \A i, j \in DOMAIN selected' : selected'[i].args = selected'[j].args => i = j
      BY <1>1, <1>3, <2>2 DEF ArgsOnce
    <2>5. \A m, o \in waiting' : m.args = o.args => m = o
      BY <1>1 DEF ArgsOnce
    <2> QED
      BY <1>2, <2>3, <2>4, <2>5 DEF ArgsOnce
  <1>7. Passed'
    BY <1>2 DEF Passed, Args
  <1> QED
    BY <1>5, <1>6, <1>7

\* The selection ends at a limit or when nobody waits: what is full now is reached.
LEMMA SelectEndKeeps ==
  ASSUME KeptInv, TypeInv', SelectEnds
  PROVE  Passed' /\ Kept' /\ ArgsOnce'
  <1> USE DEF KeptInv, TypeInv
  <1>1. /\ phase = "select" /\ phase' \in {"combine", "done"} /\ options' = options
        /\ variants' = variants /\ next' = next /\ nodes' = nodes /\ waiting' = waiting
        /\ selected' = Reindexed /\ (Room => Open = {} /\ served = {})
    BY DEF SelectEnds, input
  <1>2. /\ Len(selected)' = Len(selected) /\ DOMAIN selected' = DOMAIN selected
        /\ \A i \in DOMAIN selected : /\ selected'[i].family = selected[i].family
                                      /\ selected'[i].action = selected[i].action
                                      /\ selected'[i].args = selected[i].args
    BY <1>1, ReindexedList DEF TypeOK
  <1>3. Room => waiting = {}
    BY <1>1 DEF Open
  <1>4. ASSUME NEW m \in nodes, LimitReached(m) PROVE LimitReached(m)'
    <2>1. /\ FamilyPlaces(m.family)' = FamilyPlaces(m.family)
          /\ ActionPlaces(m.family, m.action)' = ActionPlaces(m.family, m.action)
      BY <1>2 DEF FamilyPlaces, ActionPlaces
    <2> QED
      BY <1>1, <1>2, <1>4, <2>1 DEF LimitReached
  <1>5. ASSUME NEW m \in nodes, m \in waiting \/ Full(m) PROVE LimitReached(m)
    <2>1. CASE ~Room
      <3>1. Len(selected) \in Nat
        BY DEF TypeOK
      <3> QED
        BY <2>1, <3>1, OptionsTyped DEF Room, LimitReached
    <2>2. CASE Room
      <3> DEFINE f == OfFamily(m.family)
                 a == OfAction(m.family, m.action)
      <3>1. m.family \in Families /\ m.action \in Actions
        BY DEF TypeOK, Node
      <3>2. FamilyPlaces(m.family) = Places(f)
            /\ ActionPlaces(m.family, m.action) = Places(a)
        BY <3>1, KindsCounted
      <3>3. Cardinality(waiting \cap f) = 0 /\ Cardinality(waiting \cap a) = 0
        BY <1>3, <2>2, FS_EmptySet
      <3>4. Cardinality(Places(f)) \in Nat /\ Cardinality(Places(a)) \in Nat
        BY KindsFinite
      <3>5. Full(m)
        BY <1>3, <1>5, <2>2
      <3> HIDE DEF f, a
      <3>6. Taken(f) >= options.perFamily \/ Taken(a) >= options.perAction
        BY <3>5 DEF Full, f, a
      <3>7. Cardinality(Places(f)) >= options.perFamily
            \/ Cardinality(Places(a)) >= options.perAction
        BY <3>3, <3>4, <3>6 DEF Taken
      <3> QED
        BY <3>2, <3>7 DEF LimitReached
    <2> QED
      BY <2>1, <2>2
  <1>6. Kept'
    <2> SUFFICES ASSUME NEW m \in nodes
                 PROVE  Listed(m)' \/ \E o \in nodes : o.args = m.args /\ LimitReached(o)'
      BY <1>1 DEF Kept
    <2>1. Listed(m) \/ \E o \in nodes : o.args = m.args /\ (o \in waiting \/ Full(o))
      BY <1>1 DEF Kept, LookedAt
    <2>2. Listed(m) => Listed(m)'
      BY <1>2 DEF Listed
    <2> QED
      BY <1>4, <1>5, <2>1, <2>2
  <1>7. ArgsOnce'
    BY <1>1, <1>2 DEF ArgsOnce
  <1>8. Passed'
    BY <1>1 DEF Passed, Args
  <1> QED
    BY <1>6, <1>7, <1>8

LEMMA KeptStep == KeptInv /\ [Next]_vars => KeptInv'
  <1> SUFFICES ASSUME KeptInv, [Next]_vars PROVE KeptInv'
    OBVIOUS
  <1>1. TypeInv' /\ TypeInv /\ Passed /\ Kept /\ ArgsOnce /\ TypeOK
    BY TypeStep DEF KeptInv, TypeInv
  <1> SUFFICES Passed' /\ Kept' /\ ArgsOnce'
    BY <1>1 DEF KeptInv
  <1>2. CASE WalkEnds
    <2>1. /\ phase = "walk" /\ phase' \in {"empty", "filter"} /\ options' = options
          /\ variants' = variants /\ next' = next /\ nodes' = nodes /\ waiting' = waiting
          /\ selected' = selected /\ waiting = {} /\ todo' = nodes
          /\ next > Len(variants) /\ phase' # "walk"
      BY <1>1, <1>2 DEF WalkEnds, input, ArgsOnce
    <2>2. Passed'
      BY <1>1, <2>1 DEF Passed, Args
    <2>3. Kept'
      BY <2>1 DEF Kept, LookedAt
    <2>4. ArgsOnce'
      BY <1>1, <2>1 DEF ArgsOnce
    <2> QED
      BY <2>2, <2>3, <2>4
  <1>3. CASE FilterEnds \/ NextRound
    <2>1. /\ phase \in {"filter", "select"} /\ phase' = "select" /\ options' = options
          /\ variants' = variants /\ next' = next /\ nodes' = nodes /\ waiting' = waiting
          /\ selected' = selected /\ LookedAt = nodes
      BY <1>3 DEF FilterEnds, NextRound, input, LookedAt
    <2>2. Passed'
      BY <1>1, <2>1 DEF Passed, Args
    <2>3. \A m \in nodes : Full(m)' = Full(m) /\ Listed(m)' = Listed(m)
      BY <2>1 DEF Full, Taken, Places, Listed
    <2>4. Kept'
      BY <1>1, <2>1, <2>3 DEF Kept, LookedAt
    <2>5. ArgsOnce'
      BY <1>1, <2>1 DEF ArgsOnce
    <2> QED
      BY <2>2, <2>4, <2>5
  <1>4. CASE Combine \/ CombineEnds
    <2>1. /\ phase = "combine" /\ phase' \in {"combine", "done"} /\ options' = options
          /\ variants' = variants /\ next' = next /\ nodes' = nodes /\ waiting' = waiting
          /\ selected' = selected
      BY <1>4 DEF Combine, CombineEnds, input
    <2>2. Passed'
      BY <1>1, <2>1 DEF Passed, Args
    <2>3. \A m \in nodes : LimitReached(m)' = LimitReached(m) /\ Listed(m)' = Listed(m)
      BY <2>1 DEF LimitReached, FamilyPlaces, ActionPlaces, Listed
    <2>4. Kept'
      BY <1>1, <2>1, <2>3 DEF Kept
    <2>5. ArgsOnce'
      BY <1>1, <2>1 DEF ArgsOnce
    <2> QED
      BY <2>2, <2>4, <2>5
  <1>5. CASE UNCHANGED vars
    <2>1. Passed' /\ ArgsOnce'
      BY <1>1, <1>5 DEF vars, Passed, Args, ArgsOnce
    <2>2. \A m \in nodes : /\ Full(m)' = Full(m) /\ Listed(m)' = Listed(m)
                           /\ LimitReached(m)' = LimitReached(m)
      BY <1>5 DEF vars, Full, Taken, Places, Listed, LimitReached, FamilyPlaces, ActionPlaces
    <2>3. /\ phase' = phase /\ nodes' = nodes /\ waiting' = waiting
          /\ LookedAt' = LookedAt /\ LookedAt \subseteq nodes
      BY <1>5 DEF vars, LookedAt
    <2>4. Kept'
      BY <1>1, <2>2, <2>3 DEF Kept
    <2> QED
      BY <2>1, <2>4
  <1> QED
    BY <1>1, <1>2, <1>3, <1>4, <1>5, WalkKeeps, FilterKeeps, SelectKeeps, SelectEndKeeps
       DEF Next, Step

\* At the end nothing is lost.
LEMMA KeptMeans == KeptInv => NothingLost
  <1> SUFFICES ASSUME KeptInv, phase = "done" PROVE NothingLost
    BY DEF NothingLost
  <1>1. ASSUME NEW v \in Offered
        PROVE  \/ \E i \in DOMAIN selected : selected[i].args = Args(v)
               \/ \E m \in nodes : m.args = Args(v) /\ LimitReached(m)
    <2>1. PICK k \in DOMAIN variants : v = variants[k]
      BY <1>1 DEF Offered, Range
    <2>2. k \in 1 .. next - 1
      BY <2>1, OptionsTyped DEF KeptInv, Passed, TypeInv, TypeOK
    <2>3. PICK m \in nodes : m.args = Args(v)
      BY <1>1, <2>1, <2>2 DEF KeptInv, Passed, Offered
    <2>4. Listed(m) \/ \E o \in nodes : o.args = m.args /\ LimitReached(o)
      BY DEF KeptInv, Kept
    <2> QED
      BY <2>3, <2>4 DEF Listed
  <1> QED
    BY <1>1 DEF NothingLost, KeptInv, ArgsOnce

\* Every strategy the catalog offers is in the list, once, unless a limit, or another
\* with the same arguments, keeps it out: for all catalogs, orders and limits.
THEOREM SelectionLosesNothing == Spec => []NothingLost
  <1> QED
    BY KeptMeans, InitReady, KeptInit, KeptStep, PTL DEF Spec

-----------------------------------------------------------------------------
(***************************************************************************)
(* The order of the nodes and of their arguments.                          *)
(***************************************************************************)
LEMMA FourKeys ==
  ASSUME NEW s, NEW t, DOMAIN s = 1 .. 4
  PROVE  Lexicographic(s, t) <=>
           \/ s[1] < t[1]
           \/ s[1] = t[1] /\ s[2] < t[2]
           \/ s[1] = t[1] /\ s[2] = t[2] /\ s[3] < t[3]
           \/ s[1] = t[1] /\ s[2] = t[2] /\ s[3] = t[3] /\ s[4] < t[4]
  <1>1. ASSUME NEW i \in 1 .. 4 PROVE i = 1 \/ i = 2 \/ i = 3 \/ i = 4
    OBVIOUS
  <1>2. ASSUME Lexicographic(s, t)
        PROVE  \/ s[1] < t[1]
               \/ s[1] = t[1] /\ s[2] < t[2]
               \/ s[1] = t[1] /\ s[2] = t[2] /\ s[3] < t[3]
               \/ s[1] = t[1] /\ s[2] = t[2] /\ s[3] = t[3] /\ s[4] < t[4]
    <2>1. PICK i \in 1 .. 4 : s[i] < t[i] /\ \A j \in 1 .. i - 1 : s[j] = t[j]
      BY <1>2 DEF Lexicographic
    <2>2. /\ 1 \in 1 .. 2 - 1 /\ 1 \in 1 .. 3 - 1 /\ 1 \in 1 .. 4 - 1
          /\ 2 \in 1 .. 3 - 1 /\ 2 \in 1 .. 4 - 1 /\ 3 \in 1 .. 4 - 1
      OBVIOUS
    <2> QED
      BY <1>1, <2>1, <2>2
  <1>3. ASSUME NEW i \in 1 .. 4, s[i] < t[i], \A j \in 1 .. i - 1 : s[j] = t[j]
        PROVE  Lexicographic(s, t)
    BY <1>3 DEF Lexicographic
  <1>4. s[1] < t[1] => Lexicographic(s, t)
    BY <1>3
  <1>5. s[1] = t[1] /\ s[2] < t[2] => Lexicographic(s, t)
    <2>1. \A j \in 1 .. 2 - 1 : j = 1
      OBVIOUS
    <2> QED
      BY <1>3, <2>1
  <1>6. s[1] = t[1] /\ s[2] = t[2] /\ s[3] < t[3] => Lexicographic(s, t)
    <2>1. \A j \in 1 .. 3 - 1 : j = 1 \/ j = 2
      OBVIOUS
    <2> QED
      BY <1>3, <2>1
  <1>7. s[1] = t[1] /\ s[2] = t[2] /\ s[3] = t[3] /\ s[4] < t[4] => Lexicographic(s, t)
    <2>1. \A j \in 1 .. 4 - 1 : j = 1 \/ j = 2 \/ j = 3
      OBVIOUS
    <2> QED
      BY <1>3, <2>1
  <1> QED
    BY <1>2, <1>4, <1>5, <1>6, <1>7

\* Nodes with different places in the list are ordered, one way only.
LEMMA CombinationOrder ==
  ASSUME NEW a \in Node, NEW b \in Node,
         Digits[a.index] \in Nat, Digits[b.index] \in Nat
  PROVE  /\ Digits[a.index] # Digits[b.index] =>
              CombinationBefore(a, b) \/ CombinationBefore(b, a)
         /\ ~(CombinationBefore(a, b) /\ CombinationBefore(b, a))
         /\ ~CombinationBefore(a, a)
         /\ CombinationBefore(a, b) =>
              CombinationRank[a.family] <= CombinationRank[b.family]
  <1> DEFINE r(n) == CombinationRank[n.family]
             d(n) == Digits[n.index]
             Before(x, y) == \/ r(x) < r(y)
                             \/ r(x) = r(y) /\ x.family < y.family
                             \/ r(x) = r(y) /\ x.family = y.family /\ x.action < y.action
                             \/ /\ r(x) = r(y) /\ x.family = y.family
                                /\ x.action = y.action /\ d(x) < d(y)
  <1>1. ASSUME NEW n \in Node
        PROVE  r(n) \in Nat /\ n.family \in Nat /\ n.action \in Nat
    <2>1. n.family \in Families /\ n.action \in Actions
      BY DEF Node
    <2> QED
      BY <2>1, SelectionAssumption
  <1>2. ASSUME NEW x \in {a, b}, NEW y \in {a, b}
        PROVE  CombinationBefore(x, y) <=> Before(x, y)
    <2> DEFINE k == CombinationKey(x)
               l == CombinationKey(y)
    <2>1. /\ DOMAIN k = 1 .. 4
          /\ k[1] = r(x) /\ k[2] = x.family /\ k[3] = x.action /\ k[4] = d(x)
          /\ l[1] = r(y) /\ l[2] = y.family /\ l[3] = y.action /\ l[4] = d(y)
      BY DEF CombinationKey
    <2> HIDE DEF k, l
    <2>2. Lexicographic(k, l) <=>
            \/ k[1] < l[1]
            \/ k[1] = l[1] /\ k[2] < l[2]
            \/ k[1] = l[1] /\ k[2] = l[2] /\ k[3] < l[3]
            \/ k[1] = l[1] /\ k[2] = l[2] /\ k[3] = l[3] /\ k[4] < l[4]
      BY <2>1, FourKeys
    <2>3. CombinationBefore(x, y) <=> Lexicographic(k, l)
      BY DEF CombinationBefore, k, l
    <2> HIDE DEF r, d
    <2> QED
      BY <2>1, <2>2, <2>3
  <1>3. /\ r(a) \in Nat /\ a.family \in Nat /\ a.action \in Nat /\ d(a) \in Nat
        /\ r(b) \in Nat /\ b.family \in Nat /\ b.action \in Nat /\ d(b) \in Nat
    BY <1>1
  <1>4. /\ CombinationBefore(a, b) <=> Before(a, b)
        /\ CombinationBefore(b, a) <=> Before(b, a)
        /\ CombinationBefore(a, a) <=> Before(a, a)
    BY <1>2
  <1>5. /\ d(a) # d(b) => Before(a, b) \/ Before(b, a)
        /\ ~(Before(a, b) /\ Before(b, a))
        /\ ~Before(a, a)
        /\ Before(a, b) => r(a) <= r(b)
    BY <1>3
  <1> QED
    BY <1>4, <1>5

\* Arguments end with the first that is a function.
LEMMA ArgsShape ==
  ASSUME NEW v \in Variant
  PROVE  /\ Args(v) \in Seq(Leading \cup Luas) /\ Len(Args(v)) \in Nat \ {0}
         /\ DOMAIN Args(v) = 1 .. Len(Args(v))
         /\ Args(v)[Len(Args(v))] \in Luas
         /\ \A k \in 1 .. Len(Args(v)) - 1 : Args(v)[k] \in Leading
  <1>1. v.before \in Seq(Leading) /\ v.lua \in Luas
    BY DEF Variant
  <1>2. Args(v) = Append(v.before, v.lua)
    BY DEF Args
  <1>3. /\ Len(v.before) \in Nat /\ Len(Args(v)) = Len(v.before) + 1
        /\ Args(v)[Len(v.before) + 1] = v.lua
        /\ \A k \in 1 .. Len(v.before) : Args(v)[k] = v.before[k] /\ v.before[k] \in Leading
    BY <1>1, <1>2
  <1>4. Args(v) \in Seq(Leading \cup Luas)
    BY ArgsTyped
  <1>5. DOMAIN Args(v) = 1 .. Len(Args(v))
    BY <1>4
  <1> QED
    BY <1>1, <1>3, <1>4, <1>5

Shaped(args) == \E v \in Variant : args = Args(v)

\* Two pairs of arguments that read the same are the same.
LEMMA JoinedTellsPair ==
  ASSUME NEW p, NEW q, Joined(p) = Joined(q),
         Shaped(p.first.args), Shaped(p.second.args),
         Shaped(q.first.args), Shaped(q.second.args)
  PROVE  p.first.args = q.first.args /\ p.second.args = q.second.args
  <1>0. PICK v1 \in Variant, v2 \in Variant, w1 \in Variant, w2 \in Variant :
          /\ p.first.args = Args(v1) /\ p.second.args = Args(v2)
          /\ q.first.args = Args(w1) /\ q.second.args = Args(w2)
          /\ Args(v1) \o Args(v2) = Args(w1) \o Args(w2)
    BY DEF Shaped, Joined
  <1> DEFINE x == Args(v1)
             u == Args(v2)
             y == Args(w1)
             w == Args(w2)
             S == Leading \cup Luas
             z == x \o u
  <1>1. /\ x \in Seq(S) /\ Len(x) \in Nat \ {0} /\ DOMAIN x = 1 .. Len(x)
        /\ x[Len(x)] \in Luas /\ \A k \in 1 .. Len(x) - 1 : x[k] \in Leading
        /\ y \in Seq(S) /\ Len(y) \in Nat \ {0} /\ DOMAIN y = 1 .. Len(y)
        /\ y[Len(y)] \in Luas /\ \A k \in 1 .. Len(y) - 1 : y[k] \in Leading
        /\ u \in Seq(S) /\ Len(u) \in Nat \ {0} /\ DOMAIN u = 1 .. Len(u)
        /\ w \in Seq(S) /\ Len(w) \in Nat \ {0} /\ DOMAIN w = 1 .. Len(w)
    BY ArgsShape
  <1> HIDE DEF x, u, y, w, S
  <1>2. /\ Len(z) = Len(x) + Len(u)
        /\ \A k \in 1 .. Len(x) + Len(u) : z[k] = IF k <= Len(x) THEN x[k] ELSE u[k - Len(x)]
    BY <1>1, ConcatProperties
  <1>3. /\ Len(z) = Len(y) + Len(w)
        /\ \A k \in 1 .. Len(y) + Len(w) : z[k] = IF k <= Len(y) THEN y[k] ELSE w[k - Len(y)]
    <2>1. z = y \o w
      BY <1>0 DEF x, u, y, w
    <2> HIDE DEF z
    <2>2. /\ Len(y \o w) = Len(y) + Len(w)
          /\ \A k \in 1 .. Len(y) + Len(w) :
               (y \o w)[k] = IF k <= Len(y) THEN y[k] ELSE w[k - Len(y)]
      BY <1>1, ConcatProperties
    <2> QED
      BY <2>1, <2>2
  <1> HIDE DEF z
  <1>4. Leading \cap Luas = {}
    BY SelectionAssumption
  <1>5. ~(Len(x) < Len(y))
    <2> SUFFICES ASSUME Len(x) < Len(y) PROVE FALSE
      OBVIOUS
    <2>1. /\ Len(x) \in 1 .. Len(x) + Len(u) /\ Len(x) \in 1 .. Len(y) + Len(w)
          /\ Len(x) \in 1 .. Len(y) - 1 /\ Len(x) <= Len(x) /\ Len(x) <= Len(y)
      BY <1>1
    <2>2. z[Len(x)] = x[Len(x)] /\ z[Len(x)] = y[Len(x)]
      BY <1>2, <1>3, <2>1
    <2>3. y[Len(x)] \in Leading
      BY <1>1, <2>1
    <2> QED
      BY <1>1, <1>4, <2>2, <2>3
  <1>6. ~(Len(y) < Len(x))
    <2> SUFFICES ASSUME Len(y) < Len(x) PROVE FALSE
      OBVIOUS
    <2>1. /\ Len(y) \in 1 .. Len(x) + Len(u) /\ Len(y) \in 1 .. Len(y) + Len(w)
          /\ Len(y) \in 1 .. Len(x) - 1 /\ Len(y) <= Len(x) /\ Len(y) <= Len(y)
      BY <1>1
    <2>2. z[Len(y)] = x[Len(y)] /\ z[Len(y)] = y[Len(y)]
      BY <1>2, <1>3, <2>1
    <2>3. x[Len(y)] \in Leading
      BY <1>1, <2>1
    <2> QED
      BY <1>1, <1>4, <2>2, <2>3
  <1>7. Len(x) = Len(y) /\ Len(u) = Len(w)
    <2>1. Len(x) \in Nat /\ Len(y) \in Nat /\ Len(u) \in Nat /\ Len(w) \in Nat
      BY <1>1
    <2>2. Len(x) = Len(y)
      BY <1>5, <1>6, <2>1
    <2>3. Len(x) + Len(u) = Len(y) + Len(w)
      BY <1>2, <1>3
    <2> QED
      BY <2>1, <2>2, <2>3
  <1>8. ASSUME NEW k \in 1 .. Len(x) PROVE x[k] = y[k]
    BY <1>1, <1>2, <1>3, <1>7
  <1>9. ASSUME NEW k \in 1 .. Len(u) PROVE u[k] = w[k]
    <2>1. /\ k + Len(x) \in 1 .. Len(x) + Len(u) /\ ~(k + Len(x) <= Len(x))
          /\ (k + Len(x)) - Len(x) = k
      BY <1>1
    <2>2. z[k + Len(x)] = u[k]
      BY <1>2, <2>1
    <2>3. z[k + Len(x)] = w[k]
      BY <1>3, <1>7, <2>1
    <2> QED
      BY <2>2, <2>3
  <1>10. x = y
    BY <1>1, <1>7, <1>8, SeqEqual
  <1>11. u = w
    BY <1>1, <1>7, <1>9, SeqEqual
  <1> QED
    BY <1>0, <1>10, <1>11 DEF x, u, y, w

-----------------------------------------------------------------------------
(***************************************************************************)
(* The list that is combined: its nodes differ in their arguments and in   *)
(* their index, which is one of the decimal strings the order knows.       *)
(***************************************************************************)
ListInv ==
  /\ KeptInv /\ Len(variants) \in DOMAIN Digits
  /\ \A n \in nodes : Shaped(n.args)
  /\ \A i \in DOMAIN selected : Shaped(selected[i].args)
  /\ Cardinality(nodes) <= next - 1
  /\ Len(selected) + Cardinality(waiting) <= Cardinality(nodes)
  /\ phase \in {"combine", "done"} => \A i \in DOMAIN selected : selected[i].index = i - 1

LEMMA SetsFinite ==
  ASSUME TypeInv
  PROVE  /\ IsFiniteSet(nodes) /\ Cardinality(nodes) \in Nat
         /\ IsFiniteSet(waiting) /\ Cardinality(waiting) \in Nat
         /\ Cardinality(waiting) <= Cardinality(nodes)
         /\ Len(selected) \in Nat /\ next \in Nat /\ selected \in Seq(Node)
  <1>1. IsFiniteSet(nodes) /\ waiting \subseteq nodes /\ next \in Nat
    BY OptionsTyped DEF TypeInv, TypeOK
  <1>2. IsFiniteSet(waiting) /\ Cardinality(waiting) <= Cardinality(nodes)
    BY <1>1, FS_Subset
  <1>3. selected \in Seq(Node) /\ Len(selected) \in Nat
    BY DEF TypeInv, TypeOK
  <1> QED
    BY <1>1, <1>2, <1>3, FS_CardinalityType

LEMMA ListInit == Ready => ListInv
  <1> SUFFICES ASSUME Ready PROVE ListInv
    OBVIOUS
  <1>1. /\ nodes = {} /\ waiting = {} /\ selected = <<>> /\ next = 1 /\ phase = "walk"
        /\ DOMAIN selected = {} /\ Len(selected) = 0 /\ Len(variants) \in DOMAIN Digits
    BY DEF Ready, Unstarted
  <1>2. Cardinality(nodes) = 0 /\ Cardinality(waiting) = 0
    BY <1>1, FS_EmptySet
  <1> QED
    BY <1>1, <1>2, KeptInit DEF ListInv

LEMMA ListStep == ListInv /\ [Next]_vars => ListInv'
  <1> SUFFICES ASSUME ListInv, [Next]_vars PROVE ListInv'
    OBVIOUS
  <1>1. KeptInv' /\ KeptInv /\ TypeInv /\ TypeOK /\ TypeInv'
    BY KeptStep DEF ListInv, KeptInv, TypeInv
  <1>2. Len(variants') \in DOMAIN Digits
    <2>1. variants' = variants
      BY DEF Next, Step, vars, input, AppendVariant, WalkEnds, Filter, FilterEnds, Select,
             NextRound, SelectEnds, Combine, CombineEnds
    <2> QED
      BY <2>1 DEF ListInv
  <1>3. /\ Cardinality(nodes) \in Nat /\ Cardinality(waiting) \in Nat
        /\ Len(selected) \in Nat /\ next \in Nat /\ IsFiniteSet(nodes) /\ IsFiniteSet(waiting)
        /\ Cardinality(nodes') \in Nat /\ Cardinality(waiting') \in Nat
        /\ Len(selected') \in Nat /\ Cardinality(waiting') <= Cardinality(nodes')
        /\ selected \in Seq(Node)
    <2>1. /\ Cardinality(nodes) \in Nat /\ Cardinality(waiting) \in Nat
          /\ Len(selected) \in Nat /\ next \in Nat /\ IsFiniteSet(nodes) /\ IsFiniteSet(waiting)
          /\ selected \in Seq(Node)
      BY <1>1, SetsFinite
    <2>2. IsFiniteSet(nodes') /\ waiting' \subseteq nodes' /\ Len(selected') \in Nat
      BY <1>1 DEF TypeInv, TypeOK
    <2>3. IsFiniteSet(waiting') /\ Cardinality(waiting') <= Cardinality(nodes')
      BY <2>2, FS_Subset
    <2> QED
      BY <2>1, <2>2, <2>3, FS_CardinalityType
  <1> SUFFICES /\ \A n \in nodes' : Shaped(n.args)
               /\ \A i \in DOMAIN selected' : Shaped(selected'[i].args)
               /\ Cardinality(nodes') <= next' - 1
               /\ Len(selected') + Cardinality(waiting') <= Cardinality(nodes')
               /\ phase' \in {"combine", "done"} =>
                    \A i \in DOMAIN selected' : selected'[i].index = i - 1
    BY <1>1, <1>2 DEF ListInv, Shaped, Args
  <1>4. CASE AppendVariant
    <2> DEFINE n == NewNode(variants[next], Cardinality(nodes))
    <2>1. /\ phase' = "walk" /\ next' = next + 1 /\ selected' = <<>> /\ selected = <<>>
          /\ DOMAIN selected' = {} /\ Len(selected') = 0
          /\ nodes' \in {nodes, nodes \cup {n}}
      BY <1>1, <1>4 DEF AppendVariant, TypeInv
    <2> HIDE DEF n
    <2>2. IsFiniteSet(nodes) /\ Cardinality(nodes) \in Nat
      BY <1>3
    <2>3. Cardinality(nodes') <= Cardinality(nodes) + 1
      <3>1. Cardinality(nodes \cup {n}) \in {Cardinality(nodes), Cardinality(nodes) + 1}
        BY <2>2, FS_AddElement, Zenon
      <3>2. Cardinality(nodes') \in {Cardinality(nodes), Cardinality(nodes) + 1}
        BY <2>1, <3>1, Zenon
      <3> QED
        BY <2>2, <3>2
    <2>4. Shaped(n.args)
      <3>1. variants \in Seq(Variant) /\ next \in 1 .. Len(variants)
        BY <1>1, <1>4, OptionsTyped DEF AppendVariant, TypeOK
      <3>2. variants[next] \in Variant
        BY <3>1
      <3> QED
        BY <3>2 DEF n, NewNode, Shaped
    <2>5. \A m \in nodes' : Shaped(m.args)
      BY <2>1, <2>4 DEF ListInv
    <2> QED
      BY <1>3, <2>1, <2>3, <2>5 DEF ListInv
  <1>5. CASE WalkEnds \/ Filter
    <2>1. /\ phase' \in {"empty", "filter"} /\ next' = next /\ nodes' = nodes
          /\ selected' = <<>> /\ DOMAIN selected' = {} /\ Len(selected') = 0
      BY <1>1, <1>5 DEF WalkEnds, Filter, TypeInv
    <2> QED
      BY <1>3, <2>1 DEF ListInv
  <1>6. CASE Select
    <2>1. PICK n \in waiting : selected' = Append(selected, n) /\ waiting' = waiting \ {n}
      BY <1>6 DEF Select, Open
    <2>2. phase' = "select" /\ next' = next /\ nodes' = nodes
      BY <1>6 DEF Select
    <2>3. Cardinality(waiting') = Cardinality(waiting) - 1
      BY <1>3, <2>1, FS_RemoveElement
    <2>4. /\ Len(selected') = Len(selected) + 1
          /\ DOMAIN selected' = 1 .. Len(selected) + 1 /\ DOMAIN selected = 1 .. Len(selected)
          /\ selected'[Len(selected) + 1] = n
          /\ \A k \in DOMAIN selected : selected'[k] = selected[k]
      BY <1>3, <2>1
    <2>5. Shaped(n.args)
      BY <1>1, <2>1 DEF ListInv, TypeOK
    <2>6. ASSUME NEW i \in DOMAIN selected' PROVE Shaped(selected'[i].args)
      <3>1. CASE i = Len(selected) + 1
        BY <2>4, <2>5, <3>1
      <3>2. CASE i # Len(selected) + 1
        <4>1. i \in DOMAIN selected
          BY <1>3, <2>4, <3>2
        <4> QED
          BY <2>4, <4>1 DEF ListInv
      <3> QED
        BY <3>1, <3>2
    <2> QED
      BY <1>3, <2>2, <2>3, <2>4, <2>6 DEF ListInv
  <1>7. CASE SelectEnds
    <2>1. /\ phase = "select" /\ next' = next /\ nodes' = nodes /\ waiting' = waiting
          /\ selected' = Reindexed
      BY <1>7 DEF SelectEnds
    <2>2. /\ Len(selected') = Len(selected) /\ DOMAIN selected' = DOMAIN selected
          /\ \A i \in DOMAIN selected : /\ selected'[i].args = selected[i].args
                                        /\ selected'[i].index = i - 1
      BY <1>3, <2>1, ReindexedList
    <2> QED
      BY <2>1, <2>2 DEF ListInv
  <1>8. CASE FilterEnds \/ NextRound
    <2>1. /\ phase' = "select" /\ next' = next /\ nodes' = nodes /\ waiting' = waiting
          /\ selected' = selected
      BY <1>8 DEF FilterEnds, NextRound
    <2> QED
      BY <2>1 DEF ListInv
  <1>9. CASE Combine \/ CombineEnds \/ UNCHANGED vars
    <2>1. /\ phase' \in {"combine", "done"} => phase \in {"combine", "done"}
          /\ next' = next /\ nodes' = nodes /\ waiting' = waiting /\ selected' = selected
      BY <1>9 DEF Combine, CombineEnds, vars
    <2> QED
      BY <2>1 DEF ListInv
  <1> QED
    BY <1>4, <1>5, <1>6, <1>7, <1>8, <1>9 DEF Next, Step

-----------------------------------------------------------------------------
(***************************************************************************)
(* The combination.                                                        *)
(***************************************************************************)
\* combined holds the combinable pairs of S, each once
PairsTried(S) ==
  /\ \A p \in S : Combinable(p.first, p.second) => \E i \in DOMAIN combined : combined[i] = p
  /\ \A i \in DOMAIN combined :
       combined[i] \in S /\ Combinable(combined[i].first, combined[i].second)
  /\ \A i, j \in DOMAIN combined : combined[i] = combined[j] => i = j

PairInv ==
  /\ ListInv
  /\ phase \notin {"combine", "done"} => combined = <<>>
  /\ phase = "combine" =>
       Room /\ todo \subseteq Pairs(selected) /\ PairsTried(Pairs(selected) \ todo)
  /\ phase = "done" /\ options.combine /\ Len(selected) + Len(combined) < options.candidates =>
       PairsTried(Pairs(selected))

LEMMA ListedNodes ==
  ASSUME ListInv, NEW a \in Range(selected)
  PROVE  /\ a \in Node /\ Shaped(a.args)
         /\ \A b \in Range(selected) : a.args = b.args => a = b
  BY DEF ListInv, KeptInv, ArgsOnce, TypeInv, TypeOK, Range

\* Two pairs of the list have different arguments.
LEMMA PairsDiffer ==
  ASSUME ListInv, NEW p \in Pairs(selected), NEW q \in Pairs(selected), Joined(p) = Joined(q)
  PROVE  p = q
  <1>1. /\ p.first \in Range(selected) /\ p.second \in Range(selected)
        /\ q.first \in Range(selected) /\ q.second \in Range(selected)
        /\ p = [first |-> p.first, second |-> p.second]
        /\ q = [first |-> q.first, second |-> q.second]
    BY DEF Pairs, Singles
  <1>2. /\ Shaped(p.first.args) /\ Shaped(p.second.args)
        /\ Shaped(q.first.args) /\ Shaped(q.second.args)
    BY <1>1, ListedNodes
  <1>3. p.first.args = q.first.args /\ p.second.args = q.second.args
    BY <1>2, JoinedTellsPair
  <1>4. p.first = q.first /\ p.second = q.second
    BY <1>1, <1>3, ListedNodes
  <1> QED
    BY <1>1, <1>4

LEMMA PairInit == Ready => PairInv
  BY ListInit DEF Ready, Unstarted, PairInv

\* The next pair is appended if it can be: none before it has its arguments.
LEMMA CombineKeeps ==
  ASSUME PairInv, ListInv', Combine
  PROVE  PairInv'
  <1>1. PICK p \in todo :
          /\ todo' = todo \ {p}
          /\ combined' = IF /\ Combinable(p.first, p.second)
                            /\ \A q \in Range(combined) : Joined(q) # Joined(p)
                         THEN Append(combined, p) ELSE combined
    BY DEF Combine
  <1>2. /\ phase = "combine" /\ phase' = "combine" /\ options' = options /\ selected' = selected
    BY DEF Combine, input
  <1>3. /\ p \in Pairs(selected) /\ ListInv
        /\ todo \subseteq Pairs(selected) /\ PairsTried(Pairs(selected) \ todo)
        /\ Room' /\ Pairs(selected)' = Pairs(selected)
    BY <1>1, <1>2
       DEF PairInv, Room, Pairs, Singles, CombinationBefore, CombinationKey, Lexicographic
  <1> DEFINE old == Pairs(selected) \ todo
             new == old \cup {p}
  <1>4. p \notin old /\ Pairs(selected) \ todo' = new
    BY <1>1, <1>3
  <1>5. \A a, b : Combinable(a, b)' = Combinable(a, b)
    BY <1>2 DEF Combinable, Allowed
  <1>6. ASSUME NEW q \in Range(combined) PROVE Joined(q) # Joined(p)
    <2>1. q \in old
      BY <1>3 DEF PairsTried, Range
    <2> QED
      BY <1>3, <1>4, <2>1, PairsDiffer
  <1>7. /\ combined \in Seq(Pair) /\ Len(combined) \in Nat
        /\ DOMAIN combined = 1 .. Len(combined) /\ p \in Pair
    BY <1>1, <1>2 DEF PairInv, ListInv, KeptInv, TypeInv, TypeOK
  <1>8. /\ \A q \in old : Combinable(q.first, q.second) =>
                            \E i \in DOMAIN combined : combined[i] = q
        /\ \A i \in DOMAIN combined :
             combined[i] \in old /\ Combinable(combined[i].first, combined[i].second)
        /\ \A i, j \in DOMAIN combined : combined[i] = combined[j] => i = j
    BY <1>3 DEF PairsTried
  <1>9. /\ \A q \in new : Combinable(q.first, q.second) =>
                            \E i \in DOMAIN combined' : combined'[i] = q
        /\ \A i \in DOMAIN combined' :
             combined'[i] \in new /\ Combinable(combined'[i].first, combined'[i].second)
        /\ \A i, j \in DOMAIN combined' : combined'[i] = combined'[j] => i = j
    <2> HIDE DEF old, new
    <2>1. CASE Combinable(p.first, p.second)
      <3> DEFINE last == Len(combined) + 1
      <3>1. combined' = Append(combined, p)
        BY <1>1, <1>6, <2>1
      <3>2. /\ DOMAIN combined' = 1 .. last /\ combined'[last] = p /\ last \in 1 .. last
            /\ last \notin DOMAIN combined
            /\ \A i \in DOMAIN combined : combined'[i] = combined[i] /\ i \in 1 .. last
            /\ \A i \in 1 .. last : i = last \/ i \in DOMAIN combined
        BY <1>7, <3>1
      <3> HIDE DEF last
      <3>3. ASSUME NEW q \in new, Combinable(q.first, q.second)
            PROVE  \E i \in DOMAIN combined' : combined'[i] = q
        <4>1. CASE q = p
          BY <3>2, <4>1
        <4>2. CASE q # p
          <5>1. PICK i \in DOMAIN combined : combined[i] = q
            BY <1>4, <1>8, <3>3, <4>2 DEF new
          <5> QED
            BY <3>2, <5>1
        <4> QED
          BY <4>1, <4>2
      <3>4. ASSUME NEW i \in DOMAIN combined'
            PROVE  combined'[i] \in new /\ Combinable(combined'[i].first, combined'[i].second)
        BY <1>8, <2>1, <3>2 DEF new
      <3>5. ASSUME NEW i \in DOMAIN combined', NEW j \in DOMAIN combined',
                   combined'[i] = combined'[j]
            PROVE  i = j
        BY <1>4, <1>8, <3>2, <3>5 DEF new
      <3> QED
        BY <3>3, <3>4, <3>5
    <2>2. CASE ~Combinable(p.first, p.second)
      <3>1. combined' = combined
        BY <1>1, <2>2
      <3> QED
        BY <1>4, <1>8, <2>2, <3>1 DEF new
    <2> QED
      BY <2>1, <2>2
  <1>10. (Pairs(selected) \ todo)' = new /\ todo' \subseteq Pairs(selected)'
    BY <1>1, <1>3, <1>4
  <1> HIDE DEF new
  <1>11. PairsTried(Pairs(selected) \ todo)'
    BY <1>5, <1>9, <1>10 DEF PairsTried
  <1> QED
    BY <1>2, <1>3, <1>10, <1>11 DEF PairInv

LEMMA PairStep == PairInv /\ [Next]_vars => PairInv'
  <1> SUFFICES ASSUME PairInv, [Next]_vars PROVE PairInv'
    OBVIOUS
  <1>1. ListInv /\ ListInv' /\ TypeOK
    BY ListStep DEF PairInv, ListInv, KeptInv, TypeInv
  <1>2. CASE AppendVariant \/ WalkEnds \/ Filter \/ FilterEnds \/ Select \/ NextRound
    <2>1. /\ phase \notin {"combine", "done"} /\ phase' \notin {"combine", "done"}
          /\ combined' = combined
      BY <1>2 DEF AppendVariant, WalkEnds, Filter, FilterEnds, Select, NextRound
    <2> QED
      BY <1>1, <2>1 DEF PairInv
  <1>3. CASE SelectEnds
    <2>1. /\ phase = "select" /\ options' = options /\ selected' = Reindexed
          /\ combined' = <<>> /\ combined = <<>>
          /\ \/ Room /\ phase' = "combine" /\ todo' = Pairs(Reindexed)
             \/ (options.combine => ~Room) /\ phase' = "done"
      BY <1>3 DEF SelectEnds, PairInv, input
    <2>2. Len(selected') = Len(selected) /\ Len(selected) \in Nat /\ options.candidates \in Nat
      BY <1>1, <2>1, ReindexedList, OptionsTyped DEF TypeOK
    <2>3. CASE phase' = "combine"
      <3>1. Room' /\ Pairs(selected)' = Pairs(Reindexed)
        BY <2>1, <2>2, <2>3
           DEF Room, Pairs, Singles, CombinationBefore, CombinationKey, Lexicographic
      <3>2. todo' \subseteq Pairs(selected)' /\ (Pairs(selected) \ todo)' = {}
        BY <2>1, <2>3, <3>1
      <3>3. DOMAIN combined' = {}
        BY <2>1
      <3>4. PairsTried(Pairs(selected) \ todo)'
        BY <3>2, <3>3 DEF PairsTried
      <3> QED
        BY <1>1, <2>3, <3>1, <3>2, <3>4 DEF PairInv
    <2>4. CASE phase' = "done" /\ (options.combine => ~Room)
      <3>1. Len(combined') = 0
        BY <2>1
      <3>2. ~(options'.combine /\ Len(selected') + Len(combined') < options'.candidates)
        BY <2>1, <2>2, <2>4, <3>1 DEF Room
      <3> QED
        BY <1>1, <2>4, <3>2 DEF PairInv
    <2> QED
      BY <2>1, <2>3, <2>4
  <1>4. CASE CombineEnds
    <2>1. /\ phase = "combine" /\ phase' = "done" /\ todo = {} /\ options' = options
          /\ selected' = selected /\ combined' = Truncated /\ Room
          /\ PairsTried(Pairs(selected) \ todo)
      BY <1>4 DEF CombineEnds, PairInv, input
    <2>2. /\ Len(selected) \in Nat /\ options.candidates \in Nat /\ Len(combined) \in Nat
          /\ combined \in Seq(Pair)
      BY <1>1, OptionsTyped DEF TypeOK
    <2>3. CASE Len(combined) <= Remaining
      <3>1. combined' = combined
        BY <2>1, <2>3 DEF Truncated
      <3>2. Pairs(selected) \ todo = Pairs(selected) /\ Pairs(selected)' = Pairs(selected)
        BY <2>1 DEF Pairs, Singles, CombinationBefore, CombinationKey, Lexicographic
      <3>3. \A a, b : Combinable(a, b)' = Combinable(a, b)
        BY <2>1 DEF Combinable, Allowed
      <3>4. PairsTried(Pairs(selected))'
        BY <2>1, <3>1, <3>2, <3>3 DEF PairsTried
      <3> QED
        BY <1>1, <2>1, <3>4 DEF PairInv
    <2>4. CASE ~(Len(combined) <= Remaining)
      <3>1. /\ Remaining = options.candidates - Len(selected) /\ Remaining \in Nat
            /\ Remaining <= Len(combined)
        BY <2>1, <2>2, <2>4 DEF Remaining, Room
      <3>2. Len(combined') = Remaining
        <4>1. combined' = SubSeq(combined, 1, Remaining)
          BY <2>1, <2>4 DEF Truncated
        <4> QED
          BY <2>2, <3>1, <4>1
      <3>3. ~(Len(selected') + Len(combined') < options'.candidates)
        BY <2>1, <2>2, <3>1, <3>2
      <3> QED
        BY <1>1, <2>1, <3>3 DEF PairInv
    <2> QED
      BY <2>3, <2>4
  <1>5. CASE UNCHANGED vars
    <2>1. /\ phase' = phase /\ combined' = combined /\ todo' = todo /\ options' = options
          /\ selected' = selected
      BY <1>5 DEF vars
    <2>2. Pairs(selected)' = Pairs(selected) /\ Room' = Room
      BY <2>1 DEF Room, Pairs, Singles, CombinationBefore, CombinationKey, Lexicographic
    <2>3. \A a, b : Combinable(a, b)' = Combinable(a, b)
      BY <2>1 DEF Combinable, Allowed
    <2>4. /\ PairsTried(Pairs(selected))' <=> PairsTried(Pairs(selected))
          /\ PairsTried(Pairs(selected) \ todo)' <=> PairsTried(Pairs(selected) \ todo)
      BY <2>1, <2>2, <2>3 DEF PairsTried
    <2> QED
      BY <1>1, <2>1, <2>2, <2>4 DEF PairInv
  <1> QED
    BY <1>1, <1>2, <1>3, <1>4, <1>5, CombineKeeps DEF Next, Step

\* Two nodes of the final list are ordered, one way only.
LEMMA ListOrdered ==
  ASSUME ListInv, phase = "done", NEW a \in Range(selected), NEW b \in Range(selected)
  PROVE  /\ a # b => CombinationBefore(a, b) \/ CombinationBefore(b, a)
         /\ ~(CombinationBefore(a, b) /\ CombinationBefore(b, a))
         /\ ~CombinationBefore(a, a)
         /\ CombinationBefore(a, b) =>
              CombinationRank[a.family] <= CombinationRank[b.family]
  <1>1. TypeInv /\ TypeOK /\ Len(variants) \in DOMAIN Digits
    BY DEF ListInv, KeptInv, TypeInv
  <1>2. Len(selected) <= Len(variants) /\ Len(variants) \in Nat /\ Len(selected) \in Nat
    <2>1. /\ Cardinality(nodes) \in Nat /\ Cardinality(waiting) \in Nat
          /\ Len(selected) \in Nat /\ next \in Nat
      BY <1>1, SetsFinite
    <2>2. next <= Len(variants) + 1 /\ Len(variants) \in Nat
      BY <1>1, OptionsTyped DEF TypeOK
    <2>3. /\ Cardinality(nodes) <= next - 1
          /\ Len(selected) + Cardinality(waiting) <= Cardinality(nodes)
      BY DEF ListInv
    <2> QED
      BY <2>1, <2>2, <2>3
  <1>3. DOMAIN selected = 1 .. Len(selected) /\ a \in Node /\ b \in Node
    BY <1>1, ListedNodes DEF TypeOK
  <1>4. PICK i \in DOMAIN selected, j \in DOMAIN selected : a = selected[i] /\ b = selected[j]
    BY DEF Range
  <1>5. /\ a.index = i - 1 /\ b.index = j - 1
        /\ a.index \in 0 .. Len(variants) /\ b.index \in 0 .. Len(variants)
    <2>1. a.index = i - 1 /\ b.index = j - 1
      BY <1>4 DEF ListInv
    <2> QED
      BY <1>2, <1>3, <2>1
  <1>6. a # b => a.index # b.index
    BY <1>2, <1>3, <1>4, <1>5
  <1>7. /\ Digits[a.index] \in Nat /\ Digits[b.index] \in Nat
        /\ a # b => Digits[a.index] # Digits[b.index]
    BY <1>1, <1>5, <1>6, SelectionAssumption DEF IsInjective
  <1> QED
    BY <1>3, <1>7, CombinationOrder

\* At the end the pairs tried are those that are allowed.
LEMMA PairsMean == PairInv => CombinedAsAllowed
  <1> SUFFICES ASSUME PairInv, phase = "done", options.combine,
                      Len(selected) + Len(combined) < options.candidates,
                      NEW a \in Range(selected), NEW b \in Range(selected)
               PROVE
                 LET tried  == {i \in DOMAIN combined :
                                  {combined[i].first, combined[i].second} = {a, b}}
                     wanted == /\ {a.action, b.action} \cap Legacy = {}
                               /\ a.family = b.family => ~options.differentFamily
                               /\ a.action = b.action => options.sameAction
                               /\ \A arg \in Range(a.args) : arg \notin Range(b.args)
                               /\ options.force \/ {a.family, b.family} \in options.allowed
                 IN  /\ Cardinality(tried) = IF a # b /\ wanted THEN 1 ELSE 0
                     /\ \A i \in tried : CombinationRank[combined[i].first.family]
                                           <= CombinationRank[combined[i].second.family]
    BY DEF CombinedAsAllowed
  <1> DEFINE tried  == {i \in DOMAIN combined :
                          {combined[i].first, combined[i].second} = {a, b}}
             wanted == /\ {a.action, b.action} \cap Legacy = {}
                       /\ a.family = b.family => ~options.differentFamily
                       /\ a.action = b.action => options.sameAction
                       /\ \A arg \in Range(a.args) : arg \notin Range(b.args)
                       /\ options.force \/ {a.family, b.family} \in options.allowed
  <1>1. ListInv /\ PairsTried(Pairs(selected))
    BY DEF PairInv
  <1>2. /\ a # b => CombinationBefore(a, b) \/ CombinationBefore(b, a)
        /\ ~(CombinationBefore(a, b) /\ CombinationBefore(b, a))
        /\ ~CombinationBefore(a, a) /\ ~CombinationBefore(b, b)
    BY <1>1, ListOrdered
  <1>3. ASSUME NEW x \in {a, b}, NEW y \in {a, b}, x # y
        PROVE  wanted <=> /\ x.action \notin Legacy /\ y.action \notin Legacy
                          /\ Combinable(x, y)
    BY <1>3 DEF Combinable, Allowed
  <1> HIDE DEF wanted
  <1>4. ASSUME NEW i \in tried
        PROVE  LET x == combined[i].first
                   y == combined[i].second
               IN  /\ combined[i] = [first |-> x, second |-> y]
                   /\ x \in {a, b} /\ y \in {a, b} /\ CombinationBefore(x, y)
                   /\ x \in Range(selected) /\ y \in Range(selected)
                   /\ x.action \notin Legacy /\ y.action \notin Legacy
                   /\ Combinable(x, y)
    <2>1. /\ combined[i] \in Pairs(selected)
          /\ Combinable(combined[i].first, combined[i].second)
          /\ {combined[i].first, combined[i].second} = {a, b}
      BY <1>1 DEF PairsTried
    <2> QED
      BY <2>1 DEF Pairs, Singles
  <1>5. ASSUME NEW i \in tried PROVE a # b /\ wanted
    <2>1. PICK x \in {a, b}, y \in {a, b} :
            /\ CombinationBefore(x, y) /\ Combinable(x, y)
            /\ x.action \notin Legacy /\ y.action \notin Legacy
      BY <1>4
    <2>2. x # y
      BY <1>2, <2>1
    <2>3. wanted
      BY <1>3, <2>1, <2>2
    <2> QED
      BY <2>2, <2>3
  <1>6. ASSUME NEW i \in tried, NEW j \in tried PROVE i = j
    <2>1. combined[i] = combined[j]
      BY <1>2, <1>4
    <2> QED
      BY <1>1, <2>1 DEF PairsTried
  <1>7. ASSUME a # b, wanted PROVE tried # {}
    <2>1. PICK x \in {a, b}, y \in {a, b} : x # y /\ CombinationBefore(x, y)
      BY <1>2, <1>7
    <2>2. x.action \notin Legacy /\ y.action \notin Legacy /\ Combinable(x, y)
      BY <1>3, <1>7, <2>1
    <2>3. [first |-> x, second |-> y] \in Pairs(selected)
      BY <2>1, <2>2 DEF Pairs, Singles
    <2>4. PICK i \in DOMAIN combined : combined[i] = [first |-> x, second |-> y]
      BY <1>1, <2>2, <2>3 DEF PairsTried
    <2>5. i \in tried
      BY <2>1, <2>4
    <2> QED
      BY <2>5
  <1>8. \A i \in tried : CombinationRank[combined[i].first.family]
                           <= CombinationRank[combined[i].second.family]
    BY <1>1, <1>4, ListOrdered
  <1> HIDE DEF tried
  <1>9. Cardinality(tried) = IF a # b /\ wanted THEN 1 ELSE 0
    <2>1. CASE a # b /\ wanted
      <3>1. PICK i : tried = {i}
        BY <1>6, <1>7, <2>1
      <3> QED
        BY <2>1, <3>1, FS_Singleton
    <2>2. CASE ~(a # b /\ wanted)
      <3>1. tried = {}
        BY <1>5, <2>2
      <3> QED
        BY <2>2, <3>1, FS_EmptySet
    <2> QED
      BY <2>1, <2>2
  <1> QED
    BY <1>8, <1>9 DEF tried, wanted

\* Pairs are combined exactly as the configuration says, in the order of their
\* families, for every catalog, every ranking and all options.
THEOREM SelectionCombinesAsAllowed == Spec => []CombinedAsAllowed
  <1> QED
    BY PairsMean, InitReady, PairInit, PairStep, PTL DEF Spec
=============================================================================
