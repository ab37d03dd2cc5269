------------------------------ MODULE FiberSem ------------------------------
(***************************************************************************)
(* ACL_FIBER_SEM (src/lib_fiber/c/src/sync/fiber_sem.c): the semaphore of  *)
(* the fibers of one thread, with timed waits.                             *)
(*                                                                         *)
(* A waiter is linked twice: ACL_FIBER::me2 in the ring of the semaphore,  *)
(* and, when the wait is timed, ACL_FIBER::me in the timer.  post leaves   *)
(* the unit in the semaphore for the fiber it wakes, which takes it only   *)
(* when it runs: until then anybody may, and the fiber may be killed.      *)
(***************************************************************************)
EXTENDS FiberThread, FiniteSets, Integers

CONSTANTS MaxNum,   \* bound: the semaphore is not posted beyond it
          Bufs      \* what acl_fiber_sem_create3 is given for buf

ASSUME MaxNumAssumption == MaxNum \in Nat \ {0}
ASSUME BufsAssumption == Bufs \subseteq Int
ASSUME SemRings  == Rings = {"ready", "timer"}
ASSUME SemPlaces == Places = {"run", "delay", "wait", "timed"}

VARIABLES num,       \* ACL_FIBER_SEM::num
          buf,       \* ACL_FIBER_SEM::buf
          waiting,   \* ACL_FIBER_SEM::waiting, linked through ACL_FIBER::me2
          harmed     \* history: a fiber that a post chose has been cancelled

semVars == << num, buf, waiting >>
codeVars == << thr, at, semVars >>
vars == << codeVars, harmed >>

\* acl_fiber_sem_create3, with any number of units: a post that leaves buf of
\* them hands the processor over.
Init ==
    /\ ThreadInit
    /\ num \in 0..MaxNum
    /\ buf \in Bufs
    /\ waiting = << >>
    /\ harmed = FALSE

Waits(f) == at[f] \in {"wait", "timed"}

-----------------------------------------------------------------------------
(* acl_fiber_sem_timed_wait and acl_fiber_sem_trywait *)

\* A unit is there: any of them takes it.  Without one, trywait, a wait of no
\* time and a wait by a cancelled fiber return -1 and change nothing.
Take(f) ==
    /\ Runs(f)
    /\ num > 0
    /\ num' = num - 1
    /\ UNCHANGED << thr, at, buf, waiting >>

\* One turn of the loop: f joins queue, and the timer if its wait is timed.
Block(f, place, t, queue) ==
    /\ waiting' = Append(queue, f)
    /\ Suspend(f, place, IF place = "timed" THEN FiberTimerAdd(t, f) ELSE t)

Wait(f, place) ==
    /\ Runs(f) /\ ~ Canceled(thr, f)
    /\ num <= 0
    /\ Block(f, place, thr, waiting)
    /\ UNCHANGED << num, buf >>

\* Mutant: a wait that ends leaves its fiber in the ring of the semaphore.
Left_Linked(f) == waiting

\* The waiting ring once f has detached itself, and its thread.
Left(f) == RemoveFirst(waiting, f)
Detached(f) == RingDetach(FiberTimerDel(thr, f), f)

\* Killed, or timed out: -1.  The timer flag survives a kill.
WaitFails(f) ==
    /\ thr.running = f /\ Waits(f)
    /\ \/ /\ Canceled(thr, f)
          /\ Resume(f, Detached(f))
       \/ /\ ~ Canceled(thr, f)
          /\ "timer" \in thr.flag[f]
          /\ Resume(f, ClearFlag(Detached(f), f, "timer"))
    /\ waiting' = Left(f)
    /\ UNCHANGED << num, buf >>

Woken(f) ==
    /\ thr.running = f /\ Waits(f)
    /\ ~ Canceled(thr, f) /\ "timer" \notin thr.flag[f]

UnitThere == num > 0

WaitTakes(f) ==
    /\ Woken(f)
    /\ UnitThere
    /\ num' = num - 1
    /\ waiting' = Left(f)
    /\ Resume(f, Detached(f))
    /\ UNCHANGED buf

\* The unit is gone: f queues again, behind the others, for its whole time.
WaitAgain(f) ==
    /\ Woken(f)
    /\ ~ UnitThere
    /\ Block(f, at[f], Detached(f), Left(f))
    /\ UNCHANGED << num, buf >>

-----------------------------------------------------------------------------
(* acl_fiber_sem_post *)

\* Mutant: the flag of a timer that has fired is left to the fiber.
Wake_KeepsFlag(f) == FiberReady(thr, f)

Wake(f) == FiberReady(ClearFlag(thr, f, "timer"), f)

\* Mutant: only the first unit wakes a waiter.
Wakes_First == num = 0 /\ waiting # << >>

Wakes == waiting # << >>

Post(f) ==
    /\ Runs(f)
    /\ num < MaxNum
    /\ num' = num + 1
    /\ IF Wakes
       THEN /\ waiting' = Tail(waiting)
            /\ thr' = IF num' >= buf THEN FiberYield(Wake(Head(waiting)))
                      ELSE Wake(Head(waiting))
       ELSE UNCHANGED << thr, waiting >>
    /\ UNCHANGED << at, buf >>

-----------------------------------------------------------------------------
\* A post has taken f out of the ring of the semaphore, and f has not run.
ChosenByPost(f) == Waits(f) /\ f \notin Range(waiting)

ChosenCancelled == \E f \in Fibers : ChosenByPost(f) /\ Canceled(thr, f)

Next ==
    /\ \/ \E f \in Fibers :
             \/ Take(f) \/ Post(f)
             \/ \E place \in {"wait", "timed"} : Wait(f, place)
             \/ WaitFails(f) \/ WaitTakes(f) \/ WaitAgain(f)
       \/ ThreadStep /\ UNCHANGED semVars
    /\ harmed' = (harmed \/ ChosenCancelled')

Spec == Init /\ [][Next]_vars

-----------------------------------------------------------------------------
(* Safety *)

\* The type invariant; the semaphore is never negative.
TypeOK ==
    /\ ThreadTypeOK
    /\ num \in 0..MaxNum
    /\ buf \in Bufs
    /\ waiting \in Seq(Fibers)
    /\ harmed \in BOOLEAN

\* The state is well formed: the types; ACL_FIBER::me2 is linked once, and only
\* while its fiber is in the wait, so that no post is spent on a fiber that has
\* given up; ACL_FIBER::me is never linked twice; and every fiber runs, is in a
\* ring of the thread, or is where a post will find it.
StateIntact ==
    /\ TypeOK
    /\ IsInjective(waiting)
    /\ \A f \in Range(waiting) : Waits(f)
    /\ RingsIntact(thr)
    /\ \A f \in Fibers : Reachable(thr, f) \/ f \in Range(waiting)

\* A fiber that a post has chosen does not go away as one that timed out, even
\* if its timer had fired before and it had not run yet (fiber_sem.c:199-202).
ChosenNotTimedOut ==
    \A f \in Fibers : ChosenByPost(f) => "timer" \notin thr.flag[f]

\* The fibers that a post has chosen and that will look at the semaphore.
Chosen == {f \in Fibers : ChosenByPost(f) /\ ~ Canceled(thr, f)}

\* No lost wake-up: while a fiber waits, every unit of the semaphore has a
\* fiber on its way to take it.
NoLostWakeup == waiting # << >> => num <= Cardinality(Chosen)

\* No wake-up is lost, whatever posts, timeouts, kills of waiters and thefts of
\* units race, before a fiber that a post chose is cancelled.
LossNeedsKill == harmed \/ NoLostWakeup

-----------------------------------------------------------------------------
(* Liveness, under the fairness explained in FiberLock. *)

LibraryStep ==
    \/ (Dispatch \/ \E f \in Fibers : DelayReturn(f)) /\ UNCHANGED semVars
    \/ \E f \in Fibers : WaitFails(f) \/ WaitTakes(f) \/ WaitAgain(f)

Fairness ==
    /\ WF_codeVars(LibraryStep)
    /\ \A f \in Fibers :
          /\ SF_codeVars(TimerExpires(f) /\ UNCHANGED semVars)
          /\ SF_codeVars(Delay(f) /\ UNCHANGED semVars)

FairSpec == Spec /\ Fairness

\* No fiber sleeps in wait while the semaphore stays positive, unless a fiber
\* that a post chose was cancelled.
PositiveServes ==
    \A f \in Fibers :
        Waits(f) /\ num > 0 ~> ~ Waits(f) \/ num = 0 \/ harmed
=============================================================================
