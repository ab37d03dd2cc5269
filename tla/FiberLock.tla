------------------------------ MODULE FiberLock ------------------------------
(***************************************************************************)
(* ACL_FIBER_LOCK (src/lib_fiber/c/src/sync/fiber_lock.c): the mutex of    *)
(* the fibers of one thread.  unlock hands the lock to the first waiter,   *)
(* which may be killed at any moment of its wait: before the hand-off,     *)
(* between the hand-off and its next turn, or after.                       *)
(*                                                                         *)
(* Each action is what the running fiber does up to its next switch.  A    *)
(* fiber that has the lock may sleep, yield or kill; the fibers are        *)
(* otherwise free to call what they like in any order.                     *)
(***************************************************************************)
EXTENDS FiberThread

CONSTANT Misled  \* the fibers that take 0 from acl_fiber_lock_trylock for
                 \* success, as fiber_lock.h says; the others take -1 for it

ASSUME MisledAssumption == Misled \subseteq Fibers
ASSUME LockRings  == Rings = {"ready", "timer", "waiting"}
ASSUME LockPlaces == Places = {"run", "delay", "lock"}

VARIABLES owner,   \* ACL_FIBER_LOCK::owner
          holds,   \* the fibers that were told they have the lock
          fatal    \* the process has died in an assert or msg_fatal

lockVars == << owner, holds, fatal >>
vars == << thr, at, lockVars >>

Init ==
    /\ ThreadInit
    /\ owner = None
    /\ holds = {}
    /\ fatal = FALSE

-----------------------------------------------------------------------------
(* __lock *)

\* assert(lk->owner != curr): no recursion.
AssertNotOwner(f) ==
    /\ owner = f
    /\ fatal' = TRUE
    /\ UNCHANGED << thr, owner, at, holds >>

LockFree(f) ==
    /\ Runs(f) /\ f \notin holds
    /\ owner = None
    /\ owner' = f
    /\ holds' = holds \cup {f}
    /\ UNCHANGED << thr, at, fatal >>

LockBlock(f) ==
    /\ Runs(f) /\ f \notin holds
    /\ owner # None
    /\ \/ AssertNotOwner(f)
       \/ /\ owner # f
          /\ Suspend(f, "lock", RingPrepend(thr, "waiting", f))
          /\ UNCHANGED lockVars

\* Mutants: a woken waiter returns 0 whatever woke it; a killed one returns -1
\* though it has been made the owner.
LockResult_Woken(f)     == 0
LockResult_KillFirst(f) == IF Canceled(thr, f) THEN -1 ELSE 0

\* The value of __lock after the switch: 0 if unlock has made f the owner,
\* whatever woke it.
LockResult(f) == IF owner = f THEN 0 ELSE -1

LockReturn(f) ==
    /\ Resumed(f, "lock")
    /\ Resume(f, RingDetach(thr, f))
    /\ holds' = IF LockResult(f) = 0 THEN holds \cup {f} ELSE holds
    /\ UNCHANGED << owner, fatal >>

\* return __lock(lk, 0) ? 0 : -1
TryLockResult == IF owner = None THEN -1 ELSE 0

TakenForSuccess(f) == IF f \in Misled THEN 0 ELSE -1

TryLockOwner(f) == IF owner = None THEN f ELSE owner

TryLock(f) ==
    /\ Runs(f) /\ f \notin holds
    /\ \/ AssertNotOwner(f)
       \/ /\ owner # f
          /\ owner' = TryLockOwner(f)
          /\ holds' = IF TryLockResult = TakenForSuccess(f)
                      THEN holds \cup {f} ELSE holds
          /\ UNCHANGED << thr, at, fatal >>

-----------------------------------------------------------------------------
(* acl_fiber_lock_unlock, by a fiber that takes itself for the owner *)

\* The two msg_fatal of acl_fiber_lock_unlock are for the others.
UnlockAllowed(f) == owner = f

UnlockFatal(f) ==
    /\ Runs(f) /\ f \in holds
    /\ ~ UnlockAllowed(f)
    /\ fatal' = TRUE
    /\ UNCHANGED << thr, owner, at, holds >>

\* Mutants: the last waiter is served first; the lock is left to whoever takes
\* it next; the owner is not reset when nobody waits.
NextOwner_Last ==
    IF Empty(thr, "waiting") THEN None
    ELSE thr.ring["waiting"][Len(thr.ring["waiting"])]
NextOwner_Nobody == None
NextOwner_Kept   ==
    IF Empty(thr, "waiting") THEN owner ELSE First(thr, "waiting")

NextOwner == First(thr, "waiting")

HandOver(g) == FiberYield(FiberReady(RingDetach(thr, g), g))

Told(f) == holds \ {f}

Unlock(f) ==
    /\ Runs(f) /\ f \in holds
    /\ UnlockAllowed(f)
    /\ owner' = NextOwner
    /\ thr' = IF NextOwner = None THEN thr ELSE HandOver(NextOwner)
    /\ holds' = Told(f)
    /\ UNCHANGED << at, fatal >>

-----------------------------------------------------------------------------
Next ==
    /\ ~ fatal
    /\ \/ \E f \in Fibers :
             \/ LockFree(f) \/ LockBlock(f) \/ LockReturn(f) \/ TryLock(f)
             \/ Unlock(f) \/ UnlockFatal(f)
       \/ ThreadStep /\ UNCHANGED lockVars

Spec == Init /\ [][Next]_vars

-----------------------------------------------------------------------------
(* Safety *)

\* The type invariant.
TypeOK ==
    /\ ThreadTypeOK
    /\ owner \in Fibers \cup {None}
    /\ holds \subseteq Fibers
    /\ fatal \in BOOLEAN

\* A fiber that was told it has the lock (acl_fiber_lock_lock returned 0) is
\* the owner: no two fibers are ever inside, across hand-offs and kills,
\* unless one was misled by the result of trylock.
MutualExclusion == \A f \in holds \ Misled : owner = f

\* The lock is never owned by a fiber that does not know it: the owner was
\* told so, or unlock has made it ready and it will learn it when it runs,
\* even if it is killed in between (fiber_lock.c:70-84).
OwnerKnows ==
    owner \notin {None} \cup Misled =>
        \/ owner \in holds
        \/ /\ at[owner] = "lock"
           /\ thr.running = owner \/ In(thr, "ready", owner)

\* No fiber waits for a lock that nobody has.
NoStrandedWaiter == owner = None => Empty(thr, "waiting")

\* A fiber is in the waiting ring only while it is suspended in __lock, so
\* unlock never makes ready a fiber that waits for something else, though
\* ACL_FIBER::me is shared with the ready ring and the timers.
OnlyWaitersQueued ==
    \A f \in Fibers :
        In(thr, "waiting", f) => at[f] = "lock" /\ thr.status[f] = "suspend"

\* The assert of __lock and the msg_fatal of unlock, which kill the process,
\* are reached only by a misled fiber: one that was not keeps clear of them
\* whatever the misled ones do to the lock.
FatalIfMisled == fatal => thr.running \in Misled

\* Only its owner's unlock takes the lock away from a fiber: an unlock by
\* another one kills the process instead (fiber_lock.c:107-114).
OwnerKept == [][owner # None /\ owner' # owner => thr.running = owner]_vars

\* The lock is a queue lock: FIFO hand-off, no overtaking.
Fair == INSTANCE FairLock WITH Callers <- Fibers, queue <- thr.ring["waiting"]

ImplementsFairLock == Fair!Spec

-----------------------------------------------------------------------------
(* Liveness.  The code of the library always goes on; a fiber in its own   *)
(* code sooner or later sleeps, which is what lets the event fiber poll    *)
(* (a fiber that never blocks starves it), and unlocks what it has locked; *)
(* a timer that has been set is found expired by a later poll.             *)

LibraryStep ==
    \/ (Dispatch \/ \E f \in Fibers : DelayReturn(f)) /\ UNCHANGED lockVars
    \/ \E f \in Fibers : LockReturn(f)

Fairness ==
    /\ WF_vars(LibraryStep)
    /\ \A f \in Fibers :
          /\ SF_vars(TimerExpires(f) /\ UNCHANGED lockVars)
          /\ SF_vars(Delay(f) /\ UNCHANGED lockVars)
          /\ SF_vars(Unlock(f))

FairSpec == Spec /\ Fairness

\* trylock has given the lock to a fiber that takes this for a failure, and
\* that will not unlock it.
Unaware ==
    /\ owner \in Misled \ holds
    /\ at[owner] # "lock"

\* Every call of acl_fiber_lock_lock returns, with the lock or because its
\* fiber was killed, unless a misled fiber keeps the lock or kills the process.
LockReturns ==
    \A f \in Fibers : at[f] = "lock" ~> at[f] # "lock" \/ fatal \/ Unaware
=============================================================================
