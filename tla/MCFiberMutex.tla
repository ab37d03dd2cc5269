---------------------------- MODULE MCFiberMutex ----------------------------
(* FiberMutex with two threads of fibers and a plain thread. *)
EXTENDS FiberMutex

CONSTANTS a1, a2, b1, wa, wb, p1, m1, m2
=============================================================================
