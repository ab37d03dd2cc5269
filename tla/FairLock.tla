------------------------------ MODULE FairLock ------------------------------
(***************************************************************************)
(* What a lock with hand-off promises its callers, whatever scheduler and  *)
(* rings it is built from: it goes to those who wait in the order in which *)
(* they came, nobody overtakes them, and a waiter that is cancelled leaves *)
(* the queue without disturbing the others.                                *)
(***************************************************************************)
EXTENDS SequencesExt

CONSTANTS Callers, None

VARIABLES owner, queue

vars == << owner, queue >>

Init ==
    /\ owner = None
    /\ queue = << >>

Take(c) ==
    /\ owner = None /\ queue = << >>
    /\ owner' = c
    /\ UNCHANGED queue

Enqueue(c) ==
    /\ owner \notin {None, c} /\ c \notin Range(queue)
    /\ queue' = Append(queue, c)
    /\ UNCHANGED owner

\* A waiter that is cancelled never owns the lock.
Abandon(c) ==
    /\ c \in Range(queue)
    /\ queue' = RemoveFirst(queue, c)
    /\ UNCHANGED owner

HandOff ==
    /\ owner # None /\ queue # << >>
    /\ owner' = Head(queue)
    /\ queue' = Tail(queue)

Release ==
    /\ owner # None /\ queue = << >>
    /\ owner' = None
    /\ UNCHANGED queue

Next ==
    \/ \E c \in Callers : Take(c) \/ Enqueue(c) \/ Abandon(c)
    \/ HandOff
    \/ Release

Spec == Init /\ [][Next]_vars
=============================================================================
