---- MODULE MCQueueAllocator ----
(***************************************************************************)
(* Small instances of QueueAllocator: more tasks than qnums.               *)
(***************************************************************************)
EXTENDS QueueAllocator

CONSTANTS u1, u2, u3, u4

FourUsers == {u1, u2, u3, u4}
====
