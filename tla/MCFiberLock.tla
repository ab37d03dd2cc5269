---------------------------- MODULE MCFiberLock ----------------------------
(* FiberLock on a small thread. *)
EXTENDS FiberLock

CONSTANTS f1, f2, f3
=============================================================================
