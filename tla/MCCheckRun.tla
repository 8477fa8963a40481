----------------------------- MODULE MCCheckRun -----------------------------
(***************************************************************************)
(* A small instance of CheckRun: every firewall manager, both kinds of     *)
(* state file, with and without the clean-ups.                             *)
(***************************************************************************)
EXTENDS CheckRun, TLC

CONSTANTS s1, s2, w1

TwoStrategies == {s1, s2}
OneWorker == {w1}
Interchangeable == Permutations(TwoStrategies)

Configuration(b, f, start, exit) ==
  [backend |-> b, format |-> f, atStart |-> start, atExit |-> exit]

SomeConfigs == {Configuration("nft", "yaml", TRUE, TRUE),
                Configuration("vmap", "json", FALSE, TRUE),
                Configuration("iptables", "json", TRUE, FALSE)}
=============================================================================
