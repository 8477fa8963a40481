---- MODULE MCWorkerPool ----
(***************************************************************************)
(* Small instances of WorkerPool: two workers.                             *)
(***************************************************************************)
EXTENDS WorkerPool

CONSTANTS w1, w2

TwoWorkers == {w1, w2}
====
