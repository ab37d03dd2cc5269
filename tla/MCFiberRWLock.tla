--------------------------- MODULE MCFiberRWLock ---------------------------
(* FiberRWLock on a small thread. *)
EXTENDS FiberRWLock

CONSTANTS f1, f2, f3
=============================================================================
