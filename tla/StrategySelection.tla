------------------------- MODULE StrategySelection --------------------------
(***************************************************************************)
(* How the list of candidate strategies is made (src/graph.rs): a walk     *)
(* over the catalog or a plain list, select_diverse_nodes with its limits  *)
(* and its round robin over the families, reindexing, and the combination  *)
(* of pairs.  The pool tries the candidates in the order of that list.     *)
(*                                                                         *)
(* Where the code sorts and then loops, the model takes the least that is  *)
(* left: indexes are unique, so the orders are total.  Names are numbers   *)
(* in the order of the strings.                                            *)
(***************************************************************************)
EXTENDS Naturals, Sequences, FiniteSets, Functions

CONSTANTS
  Families, Actions,  \* names of families and of actions
  DiversityRank,      \* family_diversity_rank
  CombinationRank,    \* combination_family_rank
  Legacy,             \* the actions with "_legacy" in their name
  Digits,             \* the place of a number among the decimal strings: 10 is before 2;
                      \* its domain bounds the number of variants
  Leading,            \* what may stand before a function: a blob, a payload filter
  Luas,               \* what --lua-desync= may say
  Inputs,             \* the catalogs considered: their variants, in order
  OptionSet           \* the options considered

Variant == [family : Families, action : Actions, before : Seq(Leading), lua : Luas]
Options == [catalog : BOOLEAN, roundRobin : BOOLEAN,
            candidates : Nat, perFamily : Nat, perAction : Nat,
            combine : BOOLEAN, differentFamily : BOOLEAN, sameAction : BOOLEAN,
            force : BOOLEAN, allowed : SUBSET SUBSET Families]

ASSUME SelectionAssumption ==
  /\ Families \subseteq Nat /\ Actions \subseteq Nat /\ Legacy \subseteq Actions
  /\ DiversityRank \in [Families -> Nat] /\ CombinationRank \in [Families -> Nat]
  /\ Leading \cap Luas = {}
  /\ Digits \in [DOMAIN Digits -> Nat] /\ IsInjective(Digits)
  /\ \A n \in DOMAIN Digits : n \in Nat /\ 0 .. n \subseteq DOMAIN Digits
  /\ \A s \in Inputs : s \in Seq(Variant) /\ Len(s) \in DOMAIN Digits
  /\ OptionSet \subseteq Options

VARIABLES
  options,   \* GraphLoadOptions
  variants,  \* what the walk meets
  phase,     \* the part of load_for_protocol_mode that runs
  next,      \* the variant the walk is at
  nodes,     \* what the walk has found
  todo,      \* what the current loop still has to look at
  waiting,   \* admitted and not yet selected: the groups of the round robin
  served,    \* the families that had their turn in this round
  selected,  \* the selected nodes, in order
  combined   \* the combinations, in order

vars == <<options, variants, phase, next, nodes, todo, waiting, served, selected, combined>>
input == <<options, variants>>

Node == [family : Families, action : Actions, index : Nat, args : Seq(Leading \cup Luas)]
Pair == [first : Node, second : Node]

TypeOK ==
  /\ options \in OptionSet /\ variants \in Seq(Variant)
  /\ phase \in {"walk", "filter", "select", "combine", "done", "empty"}
  /\ next \in 1 .. Len(variants) + 1
  /\ nodes \subseteq Node
  /\ todo \subseteq (IF phase = "combine" THEN Pair ELSE nodes)
  /\ waiting \subseteq nodes
  /\ served \subseteq Families
  /\ selected \in Seq(Node) /\ combined \in Seq(Pair)

\* before the walk
Unstarted ==
  /\ phase = "walk" /\ next = 1 /\ nodes = {}
  /\ todo = {} /\ waiting = {} /\ served = {}
  /\ selected = <<>> /\ combined = <<>>

Init == options \in OptionSet /\ variants \in Inputs /\ Unstarted

-----------------------------------------------------------------------------
\* an order by several keys, the first that differs decides
Lexicographic(s, t) ==
  \E i \in DOMAIN s : (\A j \in 1 .. i - 1 : s[j] = t[j]) /\ s[i] < t[i]

QualityKey(n)     == <<DiversityRank[n.family], n.family, n.action, Digits[n.index]>>
CombinationKey(n) == <<CombinationRank[n.family], n.family, n.action, Digits[n.index]>>

\* compare_node_quality and compare_combination_input
QualityBefore(a, b)     == Lexicographic(QualityKey(a), QualityKey(b))
CombinationBefore(a, b) == Lexicographic(CombinationKey(a), CombinationKey(b))

PairBefore(p, q) ==
  Lexicographic(CombinationKey(p.first) \o CombinationKey(p.second),
                CombinationKey(q.first) \o CombinationKey(q.second))

\* x comes first in S
LeastNode(x, S) == x \in S /\ \A y \in S \ {x} : QualityBefore(x, y)
LeastPair(p, S) == p \in S /\ \A q \in S \ {p} : PairBefore(p, q)

-----------------------------------------------------------------------------
(***************************************************************************)
(* The walk.                                                               *)
(***************************************************************************)
\* apply_blob_file_options and ensure_payload_option put theirs before the function
Args(v) == Append(v.before, v.lua)

NewNode(v, n) == [family |-> v.family, action |-> v.action, index |-> n, args |-> Args(v)]

SameArgs(v) == {m \in nodes : m.args = Args(v)}

\* mutant of Skipped: one variant of each action
SkippedByAction(v) ==
  options.catalog /\ \/ v.action \in Legacy
                     \/ \E m \in nodes : m.family = v.family /\ m.action = v.action

\* a plain list is taken as it is
Skipped(v) == options.catalog /\ (v.action \in Legacy \/ SameArgs(v) # {})

AppendVariant ==
  /\ phase = "walk" /\ next <= Len(variants)
  /\ nodes' = IF Skipped(variants[next]) THEN nodes
              ELSE nodes \cup {NewNode(variants[next], Cardinality(nodes))}
  /\ next' = next + 1
  /\ UNCHANGED <<input, phase, todo, waiting, served, selected, combined>>

\* a catalog without candidates is an error
WalkEnds ==
  /\ phase = "walk" /\ next > Len(variants)
  /\ phase' = IF options.catalog /\ nodes = {} THEN "empty" ELSE "filter"
  /\ todo' = nodes
  /\ UNCHANGED <<input, next, nodes, waiting, served, selected, combined>>

-----------------------------------------------------------------------------
(***************************************************************************)
(* select_diverse_nodes.                                                   *)
(***************************************************************************)
InFamily(S, f)    == {m \in S : m.family = f}
InAction(S, f, a) == {m \in S : m.family = f /\ m.action = a}

\* a repetition is one of any node looked at before, admitted or not
Admitted(n) ==
  /\ \A m \in nodes \ todo : m.args # n.args
  /\ Cardinality(InFamily(waiting, n.family)) < options.perFamily
  /\ Cardinality(InAction(waiting, n.family, n.action)) < options.perAction

Filter ==
  /\ phase = "filter"
  /\ \E n \in todo :
       /\ LeastNode(n, todo)
       /\ todo' = todo \ {n}
       /\ waiting' = IF Admitted(n) THEN waiting \cup {n} ELSE waiting
  /\ UNCHANGED <<input, phase, next, nodes, served, selected, combined>>

FilterEnds ==
  /\ phase = "filter" /\ todo = {}
  /\ phase' = "select"
  /\ UNCHANGED <<input, next, nodes, todo, waiting, served, selected, combined>>

\* mutant of Open: the family that comes first is served first
OpenAlways == waiting

\* whose turn it is; without round robin no family is ever served
Open == {n \in waiting : n.family \notin served}

Room == Len(selected) < options.candidates

Select ==
  /\ phase = "select" /\ Room
  /\ \E n \in Open :
       /\ LeastNode(n, Open)
       /\ selected' = Append(selected, n)
       /\ waiting' = waiting \ {n}
       /\ served' = IF options.roundRobin THEN served \cup {n.family} ELSE served
  /\ UNCHANGED <<input, phase, next, nodes, todo, combined>>

NextRound ==
  /\ phase = "select" /\ Room /\ Open = {} /\ served # {}
  /\ served' = {}
  /\ UNCHANGED <<input, phase, next, nodes, todo, waiting, selected, combined>>

\* reindex_nodes: the index in the list, from 0, replaces that of the walk
Reindexed == [i \in DOMAIN selected |-> [selected[i] EXCEPT !.index = i - 1]]

Singles(list) == {n \in Range(list) : n.action \notin Legacy}

\* mutant of Pairs: the singles are in the order of the selection
PairsByQuality(list) ==
  {p \in [first : Singles(list), second : Singles(list)] : QualityBefore(p.first, p.second)}

\* every two singles, the one first that comes first
Pairs(list) ==
  {p \in [first : Singles(list), second : Singles(list)] : CombinationBefore(p.first, p.second)}

SelectEnds ==
  /\ phase = "select" /\ (Room => Open = {} /\ served = {})
  /\ selected' = Reindexed
  /\ IF Room /\ options.combine
     THEN phase' = "combine" /\ todo' = Pairs(Reindexed)
     ELSE phase' = "done" /\ todo' = {}
  /\ UNCHANGED <<input, next, nodes, waiting, served, combined>>

-----------------------------------------------------------------------------
(***************************************************************************)
(* generate_combined_nodes.                                                *)
(***************************************************************************)
\* pair_allowed
Allowed(f, g) == {f, g} \in options.allowed

Joined(p) == p.first.args \o p.second.args

Combinable(a, b) ==
  /\ options.differentFamily => a.family # b.family
  /\ ~options.sameAction => a.action # b.action
  /\ Range(a.args) \cap Range(b.args) = {}
  /\ options.force \/ Allowed(a.family, b.family)

Combine ==
  /\ phase = "combine"
  /\ \E p \in todo :
       /\ LeastPair(p, todo)
       /\ todo' = todo \ {p}
       /\ combined' = IF /\ Combinable(p.first, p.second)
                         /\ \A q \in Range(combined) : Joined(q) # Joined(p)
                      THEN Append(combined, p) ELSE combined
  /\ UNCHANGED <<input, phase, next, nodes, waiting, served, selected>>

Remaining == options.candidates - Len(selected)

Truncated == IF Len(combined) <= Remaining THEN combined ELSE SubSeq(combined, 1, Remaining)

\* mutant of CombineEnds: the loop ends once there are enough
CombineEndsEarly ==
  /\ phase = "combine" /\ (todo = {} \/ Len(combined) >= Remaining)
  /\ phase' = "done"
  /\ combined' = Truncated
  /\ UNCHANGED <<input, next, nodes, todo, waiting, served, selected>>

CombineEnds ==
  /\ phase = "combine" /\ todo = {}
  /\ phase' = "done"
  /\ combined' = Truncated
  /\ UNCHANGED <<input, next, nodes, todo, waiting, served, selected>>

Step == AppendVariant \/ WalkEnds \/ Filter \/ FilterEnds
        \/ Select \/ NextRound \/ SelectEnds \/ Combine \/ CombineEnds

Finished == phase \in {"done", "empty"}

Next == Step \/ (Finished /\ UNCHANGED vars)

Spec == Init /\ [][Next]_vars

-----------------------------------------------------------------------------
(***************************************************************************)
(* Properties.                                                             *)
(***************************************************************************)
Offered == {v \in Range(variants) : ~(options.catalog /\ v.action \in Legacy)}

FamilyPlaces(f)    == {i \in DOMAIN selected : selected[i].family = f}
ActionPlaces(f, a) == {i \in FamilyPlaces(f) : selected[i].action = a}

\* a limit that keeps n out of the list
LimitReached(n) ==
  \/ Len(selected) >= options.candidates
  \/ Cardinality(FamilyPlaces(n.family)) >= options.perFamily
  \/ Cardinality(ActionPlaces(n.family, n.action)) >= options.perAction

\* No strategy is lost or tried twice: what the catalog offers is in the list,
\* once, unless a limit keeps it, or another strategy with the same arguments,
\* out of it.
NothingLost ==
  phase = "done" =>
    /\ \A v \in Offered :
         \/ \E i \in DOMAIN selected : selected[i].args = Args(v)
         \/ \E m \in nodes : m.args = Args(v) /\ LimitReached(m)
    /\ \A i, j \in DOMAIN selected : selected[i].args = selected[j].args => i = j

\* "round_robin_families keeps generated candidates interleaved by family"
\* (src/README.md:114): between two candidates of one family comes every family
\* that has another one after them.
Interleaved ==
  options.roundRobin =>
    \A i, j \in DOMAIN selected :
      i < j /\ selected[i].family = selected[j].family =>
        \A n \in waiting \cup {selected[k] : k \in j + 1 .. Len(selected)} :
          \E m \in i .. j : selected[m].family = n.family

\* Why: in a round the families come in their order, and whoever waits since a
\* candidate was selected has been served since, or is to be served before the
\* family of that candidate has another turn.
FamilyBefore(f, g) == Lexicographic(<<DiversityRank[f], f>>, <<DiversityRank[g], g>>)

ServedSince(i, f) == \E m \in i .. Len(selected) : selected[m].family = f

InTurn == \A f \in served, n \in Open : FamilyBefore(f, n.family)

Owed ==
  \A i \in DOMAIN selected, n \in waiting :
    LET f == selected[i].family
        g == n.family
    IN  \/ ServedSince(i, g)
        \/ f \in served /\ g \notin served
        \/ (f \in served <=> g \in served) /\ FamilyBefore(g, f)

InterleavedInductive ==
  /\ TypeOK /\ IsFiniteSet(nodes)
  /\ phase \in {"walk", "filter"} => selected = <<>> /\ served = {}
  /\ options.roundRobin => InTurn /\ Owed
  /\ Interleaved

\* Two strategies are combined as the configuration says whichever of them comes
\* first in the list or in the configuration, once, and in the order in which
\* their families have to act (combination_family_rank).
CombinedAsAllowed ==
  phase = "done" /\ options.combine /\ Len(selected) + Len(combined) < options.candidates =>
    \A a, b \in Range(selected) :
      LET tried  == {i \in DOMAIN combined : {combined[i].first, combined[i].second} = {a, b}}
          wanted == /\ {a.action, b.action} \cap Legacy = {}
                    /\ a.family = b.family => ~options.differentFamily
                    /\ a.action = b.action => options.sameAction
                    /\ \A arg \in Range(a.args) : arg \notin Range(b.args)
                    /\ options.force \/ {a.family, b.family} \in options.allowed
      IN  /\ Cardinality(tried) = IF a # b /\ wanted THEN 1 ELSE 0
          /\ \A i \in tried : CombinationRank[combined[i].first.family]
                                <= CombinationRank[combined[i].second.family]

\* The configuration lists pairs of families that are to be combined
\* (src/config/checker.toml:155, families fake and split for tls12 and tls13); the
\* test combined_fake_split_allowed_generates_node expects one of them to be.
AllowedPairTried ==
  phase = "done" /\ options.combine =>
    \A a, b \in Singles(selected) :
      a.action # b.action /\ {a.family, b.family} \in options.allowed =>
        \E p \in Range(combined) : {p.first.family, p.second.family} = {a.family, b.family}
=============================================================================
