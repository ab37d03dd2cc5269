----------------------------- MODULE MCChannel -----------------------------
(* Channel on a small thread. *)
EXTENDS Channel

CONSTANTS f1, f2, f3
=============================================================================
