----------------------------- MODULE MCFiberCond -----------------------------
(* FiberCond with two fibers and a plain thread. *)
EXTENDS FiberCond

CONSTANTS a1, a2, wa, ta, p1, m1

\* Bound: what follows a kill that has misled the mutex is not explored, as no
\* property but the types speaks of it.
Unharmed == ~ harmed
=============================================================================
