----------------------------- MODULE FiberMutex -----------------------------
(***************************************************************************)
(* ACL_FIBER_MUTEX (src/lib_fiber/c/src/sync/fiber_mutex.c) and            *)
(* SYNC_WAITER (sync/sync_waiter.c): the mutex that the fibers of several  *)
(* threads share with each other and with threads that run no fibers.      *)
(*                                                                         *)
(* thread_lock is the mutex proper; whoever finds it free may take it.  A  *)
(* fiber that does not get it puts itself into waiters and switches, and   *)
(* tries again when it is woken; unlock takes one fiber out and wakes it,  *)
(* through the sync waiter of its thread if that is another one.  A plain  *)
(* thread blocks in thread_lock itself.                                    *)
(*                                                                         *)
(* Threads interleave between any two actions.  One action is what is done *)
(* under ACL_FIBER_MUTEX::lock, or one step outside of it.                 *)
(***************************************************************************)
EXTENDS FiberOps, FiniteSets

CONSTANTS Left, Right,   \* the fibers of two threads, if there is a second
          LeftWaker,     \* their sync waiters' fibers, SYNC_WAITER::fb
          RightWaker,
          Internal,      \* the fibers that the library has created
          Plains,        \* the threads without fibers
          Mutexes,
          Once,          \* the mutexes made with FIBER_MUTEX_F_LOCK_ONCE
          Victims        \* the fibers that may be killed, once each

Users   == Fibers \ Internal
Callers == Users \cup Plains

ASSUME FibersOfThreadsAssumption ==
    /\ Fibers = Left \cup Right /\ Left \cap Right = {}
    /\ LeftWaker \in Left /\ (Right # {} => RightWaker \in Right)
    /\ {LeftWaker, RightWaker} \cap Fibers \subseteq Internal
    /\ Internal \subseteq Fibers /\ Victims \subseteq Users
ASSUME MutexRings == Rings = {"ready", "timer"}
ASSUME OthersAssumption ==
    /\ Plains \cap (Fibers \cup {None}) = {} /\ None \notin Mutexes
    /\ Once \subseteq Mutexes

Home(h)  == IF h = "left" THEN Left ELSE Right
Waker(h) == IF h = "left" THEN LeftWaker ELSE RightWaker
Hosts    == {h \in {"left", "right"} : Home(h) # {}}
Host(f)  == IF f \in Left THEN "left" ELSE "right"

VARIABLES thr,      \* the threads with fibers
          lock,     \* who has each thread_lock, or None
          waiters,  \* ACL_FIBER_MUTEX::waiters
          box,      \* SYNC_WAITER::box: the fibers to be woken
          at,       \* where each caller is
          on,       \* the mutex of its call
          popped,   \* the fiber that its unlock is about to wake
          crashed,  \* an assertion of the sync waiter has failed
          harmed    \* history: a waiter was woken by a kill

mutexVars == << lock, waiters >>
callVars  == << at, on, popped >>
codeVars  == << thr, mutexVars, box, callVars, crashed >>
vars      == << codeVars, harmed >>

Places == {"run", "queue", "switch", "wait", "blocked", "wake"}

Init ==
    /\ \E orders \in [Hosts -> UNION {SetToSeqs(Home(h)) : h \in Hosts}] :
          /\ \A h \in Hosts : Range(orders[h]) = Home(h)
          /\ thr = [h \in Hosts |->
                      [FreshThread(orders[h]) EXCEPT
                         !.status = [f \in Fibers |-> IF f \in Home(h)
                                                      THEN @[f] ELSE "none"]]]
    /\ lock = [m \in Mutexes |-> None]
    /\ waiters = [m \in Mutexes |-> << >>]
    /\ box = [h \in Hosts |-> << >>]
    /\ at = [c \in Callers |-> "run"]
    /\ on = [c \in Callers |-> None]
    /\ popped = [c \in Callers |-> None]
    /\ crashed = FALSE /\ harmed = FALSE

-----------------------------------------------------------------------------
\* c has the processor: a plain thread always does.
Runs(c) == IF c \in Plains THEN TRUE ELSE thr[Host(c)].running = c

\* c is in its own code, and calls for m; or it is in a call for m.
Calls(c, m) == Runs(c) /\ at[c] = "run"
In_(c, place, m) == Runs(c) /\ at[c] = place /\ on[c] = m

\* c goes on to the given place of its call for m.
Goes(c, place, m) ==
    /\ at' = [at EXCEPT ![c] = place]
    /\ on' = [on EXCEPT ![c] = m]

Host_(h, t) == thr' = [thr EXCEPT ![h] = t]

-----------------------------------------------------------------------------
(* acl_fiber_mutex_lock and acl_fiber_mutex_trylock *)

\* The first attempt, and the one of a fiber that was woken.
Attempts(c, m) == Calls(c, m) \/ In_(c, "wait", m)

Taken(c, m) ==
    /\ lock' = [lock EXCEPT ![m] = c]
    /\ Goes(c, "run", None)

TakeFree(c, m) ==
    /\ Attempts(c, m) /\ lock[m] = None
    /\ Taken(c, m)
    /\ UNCHANGED << thr, waiters, box, popped, crashed >>

\* fiber_mutex_lock_try: the first trylock, without ACL_FIBER_MUTEX::lock.
FindTaken(f, m) ==
    /\ f \in Users /\ m \notin Once
    /\ Attempts(f, m) /\ lock[m] # None
    /\ Goes(f, "queue", m)
    /\ UNCHANGED << thr, mutexVars, box, popped, crashed >>

\* Mutant: the lock is not tried again once the fiber is in waiters.
TriedAgain_Not(m) == TRUE

\* The second trylock fails.
TriedAgain(m) == lock[m] # None

\* With ACL_FIBER_MUTEX::lock: the fiber is in waiters.
Queue(f, m) ==
    /\ f \in Users
    /\ IF m \in Once THEN Attempts(f, m) /\ lock[m] # None
       ELSE In_(f, "queue", m) /\ TriedAgain(m)
    /\ waiters' = [waiters EXCEPT ![m] = Append(@, f)]
    /\ Goes(f, "switch", m)
    /\ UNCHANGED << thr, lock, box, popped, crashed >>

\* The lock is free by now: the fiber leaves waiters at once.
QueueTakes(f, m) ==
    /\ f \in Users
    /\ In_(f, "queue", m) /\ lock[m] = None
    /\ Taken(f, m)
    /\ UNCHANGED << thr, waiters, box, popped, crashed >>

\* Only now can the fiber be woken, but it may have been chosen already.
SwitchAway(f, m) ==
    /\ In_(f, "switch", m)
    /\ Host_(Host(f), Switch(thr[Host(f)]))
    /\ Goes(f, "wait", m)
    /\ UNCHANGED << mutexVars, box, popped, crashed >>

\* A plain thread blocks in pthread_mutex_lock.
Block(p, m) ==
    /\ p \in Plains
    /\ Calls(p, m) /\ lock[m] # None
    /\ Goes(p, "blocked", m)
    /\ UNCHANGED << thr, mutexVars, box, popped, crashed >>

BlockedTakes(p, m) ==
    /\ In_(p, "blocked", m) /\ lock[m] = None
    /\ Taken(p, m)
    /\ UNCHANGED << thr, waiters, box, popped, crashed >>

-----------------------------------------------------------------------------
(* acl_fiber_mutex_unlock *)

\* Mutant: the last one is dropped.
PopFront_Drops(q) ==
    IF Len(q) <= 1 THEN << >> ELSE SubSeq(q, 2, Len(q) - 1)

\* array_pop_front of an array without order: the last one comes first.
PopFront(q) ==
    IF Len(q) <= 1 THEN << >> ELSE << Last(q) >> \o SubSeq(q, 2, Len(q) - 1)

\* Mutant: a fiber of the same thread is not woken.
Woken_Elsewhere(f, t) == t

Woken(f, t) == FiberReady(t, f)

Unlock(c, m) ==
    LET f == IF waiters[m] = << >> THEN None ELSE Head(waiters[m])
        here == f # None /\ c \in Users /\ Host(f) = Host(c)
    IN
    /\ Calls(c, m) /\ lock[m] = c
    /\ lock' = [lock EXCEPT ![m] = None]
    /\ waiters' = [waiters EXCEPT ![m] = PopFront(@)]
    /\ IF here THEN Host_(Host(f), Woken(f, thr[Host(f)])) ELSE UNCHANGED thr
    /\ IF f = None \/ here THEN UNCHANGED callVars
       ELSE /\ Goes(c, "wake", m)
            /\ popped' = [popped EXCEPT ![c] = f]
    /\ UNCHANGED << box, crashed >>

\* Mutant: the message goes to the sync waiter of the sender's thread.
Addressee_Sender(c) == IF c \in Users THEN Host(c) ELSE "left"

Addressee(c) == Host(popped[c])

\* sync_waiter_wakeup, after both locks were released.
SendWake(c, m) ==
    /\ In_(c, "wake", m)
    /\ box' = [box EXCEPT ![Addressee(c)] = Append(@, popped[c])]
    /\ popped' = [popped EXCEPT ![c] = None]
    /\ Goes(c, "run", None)
    /\ UNCHANGED << thr, mutexVars, crashed >>

-----------------------------------------------------------------------------
(* The sync waiter: fiber_waiting, and the event fiber that wakes it *)

\* The message names a fiber that must be suspended.
WakerReads(h) ==
    LET f == Head(box[h]) IN
    /\ thr[h].running = Waker(h) /\ box[h] # << >>
    /\ IF thr[h].status[f] = "suspend"
       THEN Host_(h, Woken(f, thr[h])) /\ UNCHANGED crashed
       ELSE crashed' = TRUE /\ UNCHANGED thr
    /\ box' = [box EXCEPT ![h] = Tail(@)]
    /\ UNCHANGED << mutexVars, callVars >>

WakerSleeps(h) ==
    /\ thr[h].running = Waker(h) /\ box[h] = << >>
    /\ Host_(h, Switch(thr[h]))
    /\ UNCHANGED << mutexVars, box, callVars, crashed >>

\* The mailbox is readable.
WakerPolled(h) ==
    /\ thr[h].running = None /\ box[h] # << >>
    /\ thr[h].status[Waker(h)] = "suspend"
    /\ Host_(h, FiberReady(thr[h], Waker(h)))
    /\ UNCHANGED << mutexVars, box, callVars, crashed >>

Dispatch(h) ==
    /\ thr[h].running = None /\ ~ Empty(thr[h], "ready")
    /\ Host_(h, RunFirst(thr[h]))
    /\ UNCHANGED << mutexVars, box, callVars, crashed >>

-----------------------------------------------------------------------------
(* What the fibers do besides *)

Yield(f) ==
    /\ f \in Users /\ Runs(f) /\ at[f] = "run"
    /\ Host_(Host(f), FiberYield(thr[Host(f)]))
    /\ UNCHANGED << mutexVars, box, callVars, crashed >>

\* acl_fiber_kill: nothing in the mutex looks at the flag.
Kill(f, g) ==
    /\ f \in Users /\ Runs(f) /\ at[f] = "run"
    /\ Host(g) = Host(f) /\ ~ Canceled(thr[Host(g)], g)
    /\ Host_(Host(g), FiberSignal(thr[Host(g)], g))
    /\ UNCHANGED << mutexVars, box, callVars, crashed >>

\* The kill has woken a fiber that waits for a mutex.
KillWakes(g) == at[g] = "wait" /\ thr[Host(g)].status[g] = "suspend"

CallStep(c, m) ==
    \/ FindTaken(c, m) \/ Queue(c, m) \/ QueueTakes(c, m) \/ SwitchAway(c, m)
    \/ Block(c, m) \/ BlockedTakes(c, m) \/ Unlock(c, m) \/ SendWake(c, m)

HostStep(h) ==
    WakerReads(h) \/ WakerSleeps(h) \/ WakerPolled(h) \/ Dispatch(h)

Next ==
    /\ ~ crashed
    /\ \/ /\ \/ \E c \in Callers, m \in Mutexes :
                   TakeFree(c, m) \/ CallStep(c, m)
             \/ \E h \in Hosts : HostStep(h)
             \/ \E f \in Users : Yield(f)
          /\ UNCHANGED harmed
       \/ \E f \in Users, g \in Victims :
             Kill(f, g) /\ harmed' = (harmed \/ KillWakes(g))

Spec == Init /\ [][Next]_vars

-----------------------------------------------------------------------------
(* acl_fiber_mutex_deadlock, on a snapshot of the mutexes *)

\* The fibers that own a mutex somebody waits for.
Owners ==
    {f \in Users : \E m \in Mutexes :
        /\ lock[m] = f
        /\ waiters[m] # << >> \/ \E p \in Plains : In_(p, "blocked", m)}

\* Fiber f is in the waiters of a mutex that g owns.
WaitsFor(f, g) ==
    \E m \in Mutexes : f \in Range(waiters[m]) /\ lock[m] = g

\* Mutant: a fiber is entered only after its owner was looked for.
Met_Before(i, j) == i < j

\* The i-th of the owners has been met when the j-th is looked at.
Met(i, j) == i <= j

\* check_deadlock2 walks the owners as their hash table has them.
Reports(order) ==
    \E i, j \in DOMAIN order :
        /\ Met(i, j)
        /\ \E g \in Users : WaitsFor(order[i], g)
        /\ WaitsFor(order[j], order[i])

-----------------------------------------------------------------------------
(* Safety *)

\* The type invariant.
TypeOK ==
    /\ thr \in [Hosts -> Threads]
    /\ lock \in [Mutexes -> Callers \cup {None}]
    /\ waiters \in [Mutexes -> Seq(Users)]
    /\ box \in [Hosts -> Seq(Users)]
    /\ at \in [Callers -> Places]
    /\ on \in [Callers -> Mutexes \cup {None}]
    /\ popped \in [Callers -> Users \cup {None}]
    /\ crashed \in BOOLEAN /\ harmed \in BOOLEAN

\* A wake-up of f is under way between the threads.
WakeSent(f) ==
    \/ \E c \in Callers : popped[c] = f
    \/ \E h \in Hosts : f \in Range(box[h])

\* Until a kill wakes a waiter: waiters has each fiber once, only fibers that
\* are in the call and that nobody has chosen yet, and no wake-up reaches a
\* fiber that is not suspended, as sync_waiter.c:76 asserts.
WaitersAsleep ==
    harmed \/
        /\ ~ crashed
        /\ \A m \in Mutexes :
              /\ IsInjective(waiters[m])
              /\ \A f \in Range(waiters[m]) :
                    /\ at[f] \in {"switch", "wait"} /\ on[f] = m
                    /\ ~ WakeSent(f)
                    /\ at[f] = "wait" => thr[Host(f)].status[f] = "suspend"

\* c will try to take m without being woken by anybody.
WillTry(c, m) ==
    /\ on[c] = m
    /\ at[c] \in {"queue", "blocked"} \/
          (at[c] \in {"switch", "wait"} /\ c \notin Range(waiters[m]))

\* Until then, nobody waits for a free mutex unless another one is on the way
\* to take it, whose unlock will find the rest.
NoneStranded ==
    harmed \/ \A m \in Mutexes :
        lock[m] = None /\ waiters[m] # << >> => \E c \in Callers : WillTry(c, m)

\* Besides the types: no fiber is linked twice in its thread, and each one runs,
\* is ready, or is where a wake-up will find it, before a kill wakes a waiter.
NoFiberLost ==
    /\ TypeOK
    /\ harmed \/
        /\ \A h \in Hosts : RingsIntact(thr[h])
        /\ \A f \in Users :
              \/ Reachable(thr[Host(f)], f)
              \/ WakeSent(f)
              \/ \E m \in Mutexes : f \in Range(waiters[m])

\* Fibers of a set wait for one another, and nobody can wake them.
Deadlocked == \E S \in SUBSET Users : S # {} /\
                  \A f \in S : \E g \in S : WaitsFor(f, g)

\* Every deadlock of fibers is reported, in whatever order the owners come.
DeadlockReported ==
    harmed \/ (Deadlocked => \A order \in SetToSeqs(Owners) : Reports(order))
=============================================================================
