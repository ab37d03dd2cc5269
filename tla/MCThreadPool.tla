---------------------------- MODULE MCThreadPool ----------------------------
(* ThreadPool with two producers, one of which adds batches. *)
EXTENDS ThreadPool

CONSTANTS p1, p2
=============================================================================
