------------------------------ MODULE FiberCond ------------------------------
(***************************************************************************)
(* ACL_FIBER_COND (src/lib_fiber/c/src/sync/fiber_cond.c) and SYNC_TIMER   *)
(* (sync/sync_timer.c): the condition variable of fibers and of threads    *)
(* that run no fibers, with the mutex of FiberMutex that guards it.        *)
(*                                                                         *)
(* A wait puts an object of its own into waiters, unlocks the mutex,       *)
(* sleeps, and locks the mutex again.  A signal takes one object out and   *)
(* wakes its owner: at once if both are fibers of one thread, else by a    *)
(* message to the SYNC_TIMER of the owner's thread, or by the event of a   *)
(* plain thread.  A timeout may come first, and the message then reaches a *)
(* wait that has ended.                                                    *)
(***************************************************************************)
EXTENDS FiberMutex

CONSTANTS Guard,       \* the mutex that every wait is given
          LeftTimer,   \* the fibers that read the sync timers' mailboxes,
          RightTimer,  \* SYNC_TIMER::fb
          MaxMail      \* bound: the messages one mailbox holds

ASSUME CondAssumption ==
    /\ Guard \in Mutexes
    /\ LeftTimer \in Left /\ (Right # {} => RightTimer \in Right)
    /\ {LeftTimer, RightTimer} \cap Fibers \subseteq Internal
    /\ MaxMail \in Nat

TimerFb(h) == IF h = "left" THEN LeftTimer ELSE RightTimer

VARIABLES cwait,   \* ACL_FIBER_COND::waiters, by the callers of the waits
          step,    \* where each caller is in cond_timedwait or cond_signal
          timed,   \* the callers whose wait has a timeout
          chosen,  \* the object that a caller's signal has taken out
          tbox,    \* SYNC_TIMER::box
          event,   \* the plain threads whose event was written
          cause    \* history: what has come for the wait of each caller

condVars == << cwait, step, timed, chosen, tbox, event, cause >>
allVars  == << vars, condVars >>

Steps == {"none", "unlock", "sleep", "relock", "check", "signal", "delay"}

\* c is in a wait that nothing but a signal or a timeout ends.
Waits(c) ==
    step[c] \in {"unlock", "sleep"} \/
        (c \in Users /\ step[c] \in {"relock", "check"})

\* A SYNC_OBJ that has left waiters; ended: its wait has returned since.
Objects == [who : Callers, timed : BOOLEAN, ended : BOOLEAN]

NoObject == [who |-> None, timed |-> FALSE, ended |-> FALSE]

CondInit ==
    /\ Init
    /\ cwait = << >> /\ timed = {} /\ event = {}
    /\ step = [c \in Callers |-> "none"]
    /\ chosen = [c \in Callers |-> NoObject]
    /\ tbox = [h \in Hosts |-> << >>]
    /\ cause = [c \in Callers |-> {}]

-----------------------------------------------------------------------------
(* The calls of the mutex, by themselves and inside a wait *)

At(c, s) == Runs(c) /\ step[c] = s
To(c, s) == step' = [step EXCEPT ![c] = s]

LockStep(c) ==
    \/ TakeFree(c, Guard) \/ FindTaken(c, Guard) \/ Queue(c, Guard)
    \/ QueueTakes(c, Guard) \/ SwitchAway(c, Guard)
    \/ Block(c, Guard) \/ BlockedTakes(c, Guard)

UnlockStep(c) == Unlock(c, Guard) \/ SendWake(c, Guard)

\* A caller in its own code.  Nobody locks the mutex it owns.
OwnStep(c) ==
    /\ step[c] = "none"
    /\ (lock[Guard] # c /\ LockStep(c)) \/ UnlockStep(c)
    /\ UNCHANGED condVars

-----------------------------------------------------------------------------
(* acl_fiber_cond_timedwait *)

\* The object is in waiters, and a fiber in the timer, before the unlock.
Wait(c, delay) ==
    /\ At(c, "none") /\ at[c] = "run" /\ lock[Guard] = c
    /\ cwait' = Append(cwait, c)
    /\ timed' = IF delay THEN timed \cup {c} ELSE timed
    /\ event' = event \ {c}
    /\ IF delay /\ c \in Users
       THEN Host_(Host(c), FiberTimerAdd(thr[Host(c)], c))
       ELSE UNCHANGED thr
    /\ To(c, "unlock")
    /\ UNCHANGED << mutexVars, box, callVars, crashed, chosen, tbox, cause >>

Release(c) ==
    /\ step[c] = "unlock"
    /\ UnlockStep(c)
    /\ To(c, IF at'[c] = "run" THEN "sleep" ELSE "unlock")
    /\ UNCHANGED << cwait, timed, chosen, tbox, event, cause >>

Sleep(f) ==
    /\ f \in Users /\ At(f, "sleep")
    /\ Host_(Host(f), Switch(thr[Host(f)]))
    /\ To(f, "relock")
    /\ UNCHANGED << mutexVars, box, callVars, crashed >>
    /\ UNCHANGED << cwait, timed, chosen, tbox, event, cause >>

\* The wait of c is over: its object lives on where somebody refers to it.
Ended(o, c)  == IF o.who = c THEN [o EXCEPT !.ended = TRUE] ELSE o
Unrefer(c) ==
    /\ chosen' = [s \in Callers |-> Ended(chosen[s], c)]
    /\ tbox' = [h \in Hosts |->
                  [i \in DOMAIN tbox[h] |-> Ended(tbox[h][i], c)]]
    /\ timed' = timed \ {c}
    /\ cause' = [cause EXCEPT ![c] = {}]

\* array_delete_obj of an array without order: the last one takes the place.
ArrayDelete(q, c) ==
    IF c \notin Range(q) THEN q
    ELSE SubSeq([i \in DOMAIN q |-> IF q[i] = c THEN Last(q) ELSE q[i]],
                1, Len(q) - 1)

\* A plain thread reads its event, or gives up waiting for it.
EventRead(p) ==
    /\ p \in Plains /\ At(p, "sleep") /\ p \in event
    /\ event' = event \ {p}
    /\ To(p, "relock")
    /\ UNCHANGED << codeVars, cwait, timed, chosen, tbox, cause >>

EventTimesOut(p) ==
    /\ p \in Plains \cap timed /\ At(p, "sleep") /\ p \notin event
    /\ cwait' = ArrayDelete(cwait, p)
    /\ To(p, "relock")
    /\ UNCHANGED << codeVars, timed, chosen, tbox, event, cause >>

\* FIBER_LOCK(mutex): then a fiber has its result to look at.
Relock(c) ==
    /\ step[c] = "relock"
    /\ LockStep(c)
    /\ IF lock'[Guard] # c
       THEN UNCHANGED << step, timed, chosen, tbox, cause >>
       ELSE IF c \in Users
       THEN To(c, "check") /\ UNCHANGED << timed, chosen, tbox, cause >>
       ELSE To(c, "none") /\ Unrefer(c)
    /\ UNCHANGED << cwait, event >>

\* Mutant: a fiber that was cancelled is not told.
Result_NotTold(t, f) == IF "timer" \in t.flag[f] THEN "timeout" ELSE "ok"

Result(t, f) ==
    IF "timer" \in t.flag[f] THEN "timeout"
    ELSE IF Canceled(t, f) THEN "canceled" ELSE "ok"

Check(f) ==
    /\ f \in Users /\ At(f, "check")
    /\ cwait' = ArrayDelete(cwait, f)
    /\ Host_(Host(f), ClearFlag(thr[Host(f)], f, "timer"))
    /\ To(f, "none") /\ Unrefer(f)
    /\ UNCHANGED << mutexVars, box, callVars, crashed, event >>

-----------------------------------------------------------------------------
(* acl_fiber_cond_signal *)

\* Mutant: every waiter is looked for in the timer.
WakeupWaiter_Timed(t, o) ==
    IF In(t, "timer", o.who) THEN FiberReady(t, o.who)
    ELSE ClearFlag(t, o.who, "timer")

\* wakeup_waiter: a fiber that its timer has woken is not woken again, and is
\* to return as if the signal had come first.
WakeupWaiter(t, o) ==
    IF ~ o.timed \/ In(t, "timer", o.who) THEN FiberReady(t, o.who)
    ELSE ClearFlag(t, o.who, "timer")

Object(c) == [who |-> c, timed |-> c \in timed, ended |-> FALSE]

Signal(c) ==
    LET o    == Object(Head(cwait))
        here == {c, o.who} \subseteq Users /\ Host(c) = Host(o.who)
    IN
    /\ At(c, "none") /\ at[c] = "run" /\ cwait # << >>
    /\ cwait' = PopFront(cwait)
    /\ cause' = [cause EXCEPT ![o.who] = @ \cup {"signal"}]
    /\ IF here
       THEN /\ Host_(Host(c), WakeupWaiter(thr[Host(c)], o))
            /\ UNCHANGED << step, chosen >>
       ELSE /\ chosen' = [chosen EXCEPT ![c] = o]
            /\ To(c, "signal")
            /\ UNCHANGED thr
    /\ UNCHANGED << mutexVars, box, callVars, crashed, timed, tbox, event >>

\* Without the lock of the condition: the message, or the event.
SendSignal(c) ==
    LET o == chosen[c] IN
    /\ At(c, "signal")
    /\ IF o.who \in Users
       THEN /\ Len(tbox[Host(o.who)]) < MaxMail
            /\ tbox' = [tbox EXCEPT ![Host(o.who)] = Append(@, o)]
            /\ UNCHANGED event
       ELSE /\ event' = IF o.ended THEN event ELSE event \cup {o.who}
            /\ UNCHANGED tbox
    /\ chosen' = [chosen EXCEPT ![c] = NoObject]
    /\ To(c, "none")
    /\ UNCHANGED << codeVars, cwait, timed, cause >>

-----------------------------------------------------------------------------
(* The sync timer's fiber, and the timers *)

TimerReads(h) ==
    LET o == Head(tbox[h]) IN
    /\ thr[h].running = TimerFb(h) /\ tbox[h] # << >>
    /\ Host_(h, WakeupWaiter(thr[h], o))
    /\ tbox' = [tbox EXCEPT ![h] = Tail(@)]
    /\ cause' = IF o.ended /\ Waits(o.who)
                THEN [cause EXCEPT ![o.who] = @ \cup {"late"}] ELSE cause
    /\ UNCHANGED << mutexVars, box, callVars, crashed >>
    /\ UNCHANGED << cwait, step, timed, chosen, event >>

TimerSleeps(h) ==
    /\ thr[h].running = TimerFb(h) /\ tbox[h] = << >>
    /\ Host_(h, Switch(thr[h]))
    /\ UNCHANGED << mutexVars, box, callVars, crashed, condVars >>

TimerPolled(h) ==
    /\ thr[h].running = None /\ tbox[h] # << >>
    /\ thr[h].status[TimerFb(h)] = "suspend"
    /\ Host_(h, FiberReady(thr[h], TimerFb(h)))
    /\ UNCHANGED << mutexVars, box, callVars, crashed, condVars >>

Expires(f) ==
    /\ thr[Host(f)].running = None /\ In(thr[Host(f)], "timer", f)
    /\ Host_(Host(f), TimerWake(thr[Host(f)], f))
    /\ UNCHANGED << mutexVars, box, callVars, crashed, condVars >>

\* acl_fiber_delay, in the fiber's own code.
Delay(f) ==
    /\ f \in Users /\ At(f, "none") /\ at[f] = "run"
    /\ Host_(Host(f), Switch(FiberTimerAdd(thr[Host(f)], f)))
    /\ To(f, "delay")
    /\ UNCHANGED << mutexVars, box, callVars, crashed >>
    /\ UNCHANGED << cwait, timed, chosen, tbox, event, cause >>

DelayReturn(f) ==
    /\ f \in Users /\ At(f, "delay")
    /\ Host_(Host(f), ClearFlag(thr[Host(f)], f, "timer"))
    /\ To(f, "none")
    /\ UNCHANGED << mutexVars, box, callVars, crashed >>
    /\ UNCHANGED << cwait, timed, chosen, tbox, event, cause >>

\* acl_fiber_yield, in the fiber's own code.
YieldOwn(f) == step[f] = "none" /\ Yield(f) /\ UNCHANGED condVars

\* A signal could wake this fiber out of the mutex, once it is killed.
KillMisleads(g) ==
    /\ step[g] = "relock" /\ at[g] = "run" /\ g \notin timed
    /\ thr[Host(g)].status[g] = "suspend"

CondStep(c) ==
    \/ Release(c) \/ Sleep(c) \/ EventRead(c) \/ Relock(c) \/ Check(c)
    \/ SendSignal(c) \/ DelayReturn(c)

TimerStep(h) == TimerReads(h) \/ TimerSleeps(h) \/ TimerPolled(h)

CondNext ==
    /\ ~ crashed
    /\ \/ /\ \/ \E c \in Callers :
                   \/ OwnStep(c) \/ CondStep(c) \/ Signal(c)
                   \/ \E delay \in BOOLEAN : Wait(c, delay)
                   \/ EventTimesOut(c)
             \/ \E h \in Hosts : TimerStep(h)
             \/ \E h \in Hosts : HostStep(h) /\ UNCHANGED condVars
             \/ \E f \in Users : Delay(f) \/ YieldOwn(f) \/ Expires(f)
          /\ UNCHANGED harmed
       \/ \E f \in Users, g \in Victims :
             /\ step[f] = "none" /\ Kill(f, g) /\ UNCHANGED condVars
             /\ harmed' = (harmed \/ KillWakes(g) \/ KillMisleads(g))

CondSpec == CondInit /\ [][CondNext]_allVars

-----------------------------------------------------------------------------
(* Safety *)

\* The type invariant.
CondTypeOK ==
    /\ TypeOK
    /\ cwait \in Seq(Callers) /\ step \in [Callers -> Steps]
    /\ timed \subseteq Callers /\ event \subseteq Plains
    /\ chosen \in [Callers -> Objects \cup {NoObject}]
    /\ tbox \in [Hosts -> Seq(Objects)]
    /\ \A h \in Hosts : Len(tbox[h]) <= MaxMail
    /\ cause \in [Callers -> SUBSET {"signal", "late"}]

Signalled(c) == "signal" \in cause[c]

\* Besides the types: from before its mutex is unlocked, each wait is in
\* waiters, and once, until a signal takes it; nobody else is there.
WaitersKnown ==
    /\ CondTypeOK
    /\ IsInjective(cwait)
    /\ \A c \in Range(cwait) : Waits(c) /\ ~ Signalled(c)
    /\ \A c \in Callers : Waits(c) /\ ~ Signalled(c) => c \in Range(cwait)

\* The object of the present wait of c is on the way to c.
UnderWay(c) ==
    \E o \in Range(chosen) \cup UNION {Range(tbox[h]) : h \in Hosts} :
        o.who = c /\ ~ o.ended

Asleep(c) ==
    IF c \in Plains THEN step[c] = "sleep"
    ELSE /\ step[c] = "relock" /\ at[c] = "run"
         /\ thr[Host(c)].status[c] = "suspend"

\* No signal is lost between the one who sends it and the one it has chosen:
\* whoever sleeps on after a signal took its object has a wake-up under way.
SleeperSignalled ==
    harmed \/ \A c \in Callers :
        Asleep(c) /\ Signalled(c) => UnderWay(c) \/ c \in event

\* What a fiber is about to return is what happened to it.  A timeout: it was
\* chosen by no signal, except one of another thread whose message has not been
\* read yet.  Success: it was signalled, or the message for an earlier wait of
\* its came after that one had timed out.
ResultTrue ==
    harmed \/ \A f \in Users :
        step[f] = "check" =>
            LET result == Result(thr[Host(f)], f)
            IN  /\ result = "timeout" /\ Signalled(f) => UnderWay(f)
                /\ result = "ok" => cause[f] # {}
=============================================================================
