---------------------------- MODULE MCHttpProbe -----------------------------
(***************************************************************************)
(* A small instance of HttpProbe: the requests differ in what is read, who *)
(* probes and over what; bodies and caps meet the header length on both    *)
(* sides.                                                                  *)
(***************************************************************************)
EXTENDS HttpProbe

Native(mode, min, max, https, baseline) ==
  [backend |-> "native", baseline |-> baseline, https |-> https, method |-> "GET",
   mode |-> mode, minBody |-> min, maxRead |-> max, verify |-> 2, dpi |-> 4]

Head(r) == [r EXCEPT !.method = "HEAD"]
Curl(r) == [r EXCEPT !.backend = "curl", !.baseline = TRUE]

SomeRequests ==
  {Native("headers", 0, 3, FALSE, FALSE), Head(Native("full", 2, 3, TRUE, TRUE)),
   Native("body", 1, 4, TRUE, FALSE), Native("body", 2, 2, FALSE, TRUE),
   Native("body", 0, 0, FALSE, FALSE), Native("full", 1, 4, TRUE, FALSE),
   Native("full", 2, 3, FALSE, TRUE),
   Curl(Native("body", 1, 4, TRUE, TRUE)), Curl(Head(Native("full", 1, 4, TRUE, TRUE)))}
=============================================================================
