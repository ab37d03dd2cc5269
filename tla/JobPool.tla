------------------------------- MODULE JobPool -------------------------------
(***************************************************************************)
(* What a thread pool promises to those who add jobs to it: each job that  *)
(* is added is run once, by one thread, and no more than Limit jobs run at *)
(* a time.                                                                 *)
(***************************************************************************)
EXTENDS Naturals, FiniteSets

CONSTANTS Jobs, Limit

VARIABLE job

Init == job = [j \in Jobs |-> "new"]

With(S, was, is) ==
    /\ \A j \in S : job[j] = was
    /\ job' = [j \in Jobs |-> IF j \in S THEN is ELSE job[j]]

\* One job, or a batch.
Add == \E S \in SUBSET Jobs : S # {} /\ With(S, "new", "queued")

Start(j) ==
    /\ Cardinality({k \in Jobs : job[k] = "running"}) < Limit
    /\ With({j}, "queued", "running")

Finish(j) == With({j}, "running", "done")

Next == Add \/ \E j \in Jobs : Start(j) \/ Finish(j)

Spec == Init /\ [][Next]_job
=============================================================================
