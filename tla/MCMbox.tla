------------------------------- MODULE MCMbox -------------------------------
(* Mbox with two or three senders. *)
EXTENDS Mbox

CONSTANTS s1, s2, s3
=============================================================================
