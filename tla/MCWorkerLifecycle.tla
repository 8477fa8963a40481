---- MODULE MCWorkerLifecycle ----
(***************************************************************************)
(* Small instances of WorkerLifecycle: three workers, which is what it     *)
(* takes for a worker on the same port to take the rule of a probe, few    *)
(* enough ports that the kernel reuses them, and one port that begins with *)
(* the digits of the other.  Workers are interchangeable, ports are not.   *)
(***************************************************************************)
EXTENDS WorkerLifecycle, TLC

CONSTANTS w1, w2, w3, p1, p2

TwoWorkers == {w1, w2}
ThreeWorkers == {w1, w2, w3}
TwoPorts == {p1, p2}
OneBeginsOther == {<<p1, p2>>}
Interchangeable == Permutations(ThreeWorkers)
====
