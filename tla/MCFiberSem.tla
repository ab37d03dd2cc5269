----------------------------- MODULE MCFiberSem -----------------------------
(* FiberSem on a small thread. *)
EXTENDS FiberSem

CONSTANTS f1, f2, f3
=============================================================================
