------------------------ MODULE MCStrategySelection -------------------------
(***************************************************************************)
(* Small instances of StrategySelection: three families with their ranks,  *)
(* variants that share arguments, an action name or the payload filter.    *)
(***************************************************************************)
EXTENDS StrategySelection, TLC

CONSTANT MaxVariants  \* bound: variants of a catalog

fake  == 1
split == 2
wsize == 3

ThreeFamilies == {fake, split, wsize}
SomeDiversity == (fake :> 1) @@ (split :> 0) @@ (wsize :> 3)
SomeOrder     == (fake :> 0) @@ (split :> 10) @@ (wsize :> 14)
DigitOrder    == [n \in 0 .. MaxVariants |-> n]  \* of numbers below ten

V(f, a, p, l) ==
  [family |-> f, action |-> a, before |-> IF p = "none" THEN <<>> ELSE <<p>>, lua |-> l]

SomeVariants ==
  {V(fake, 1, "hello", "a"), V(fake, 1, "hello", "b"), V(fake, 2, "none", "c"),
   V(split, 4, "hello", "a"), V(split, 2, "hello", "d"), V(split, 4, "none", "e"),
   V(wsize, 5, "none", "f"), V(wsize, 3, "none", "g")}

\* every order of every choice of variants
Catalogs ==
  {s \in UNION {[1 .. n -> SomeVariants] : n \in 0 .. MaxVariants} : IsInjective(s)}

Base == [catalog |-> TRUE, roundRobin |-> TRUE, candidates |-> 99, perFamily |-> 99,
         perAction |-> 99, combine |-> TRUE, differentFamily |-> TRUE, sameAction |-> FALSE,
         force |-> FALSE, allowed |-> {{fake, split}, {wsize, split}}]

JustBase == {Base}
=============================================================================
