--------------------------- MODULE FiberThreadInv ---------------------------
(***************************************************************************)
(* What the inductive invariants of the primitives say of their thread.    *)
(***************************************************************************)
EXTENDS FiberThread, FiberOpsProofs

ThreadSound == Whole(thr) /\ at \in [Fibers -> Places]

\* Besides, no fiber is outside of the rings that ACL_FIBER::me is linked in.
ThreadInv == ThreadSound /\ Present(thr) = Fibers
=============================================================================
