----------------------------- MODULE FiberThread -----------------------------
(***************************************************************************)
(* One thread of fibers, and what its fibers do besides calling the        *)
(* primitive under study: yield, sleep, kill one another, and be resumed   *)
(* by the event fiber.  A primitive's module EXTENDS this one, adds its    *)
(* own state, and uses thr and at for the fibers that it suspends.         *)
(***************************************************************************)
EXTENDS FiberOps

CONSTANTS Places,   \* the calls in which a fiber may be suspended
          Victims   \* the fibers that may be killed

ASSUME PlacesAssumption == {"run", "delay"} \subseteq Places
ASSUME VictimsAssumption == Victims \subseteq Fibers

VARIABLES thr,   \* the thread
          at     \* where each fiber is: "run", in its own code, or the call
                 \* whose acl_fiber_switch it has not come back from

threadVars == << thr, at >>

ThreadInit ==
    /\ \E order \in SetToSeqs(Fibers) : thr = FreshThread(order)
    /\ at = [f \in Fibers |-> "run"]

ThreadTypeOK ==
    /\ thr \in Threads
    /\ at \in [Fibers -> Places]

\* f has the processor, in its own code.
Runs(f) == thr.running = f /\ at[f] = "run"

\* f has the processor, back from the switch in the given call.
Resumed(f, place) == thr.running = f /\ at[f] = place

\* f is suspended in the given call: next is the thread without f.
Suspend(f, place, next) ==
    /\ thr' = Switch(next)
    /\ at' = [at EXCEPT ![f] = place]

\* f goes on in its own code.
Resume(f, next) ==
    /\ thr' = next
    /\ at' = [at EXCEPT ![f] = "run"]

-----------------------------------------------------------------------------
(* The fibers *)

Yield(f) ==
    /\ Runs(f)
    /\ thr' = FiberYield(thr)
    /\ UNCHANGED at

\* acl_fiber_delay
Delay(f) ==
    /\ Runs(f)
    /\ Suspend(f, "delay", FiberTimerAdd(thr, f))

\* The timer is deleted only if the fiber was killed: then another one has
\* taken it out of the timer's node.
DelayReturn(f) ==
    /\ Resumed(f, "delay")
    /\ LET t == ClearFlag(thr, f, "timer")
       IN  Resume(f, IF Canceled(t, f) THEN FiberTimerDel(t, f) ELSE t)

\* acl_fiber_kill
Kill(f, g) ==
    /\ Runs(f)
    /\ thr' = FiberSignal(thr, g)
    /\ UNCHANGED at

\* acl_fiber_clear, of the caller itself
Clear(f) ==
    /\ Runs(f) /\ Canceled(thr, f)
    /\ thr' = ClearFlag(thr, f, "canceled")
    /\ UNCHANGED at

FiberStep(f) ==
    \/ Yield(f) \/ Delay(f) \/ DelayReturn(f) \/ Clear(f)
    \/ \E g \in Victims : Kill(f, g)

-----------------------------------------------------------------------------
(* The event fiber: wakeup_timers, and its turn to yield *)

TimerExpires(f) ==
    /\ thr.running = None
    /\ In(thr, "timer", f)
    /\ thr' = TimerWake(thr, f)
    /\ UNCHANGED at

Dispatch ==
    /\ thr.running = None
    /\ ~ Empty(thr, "ready")
    /\ thr' = RunFirst(thr)
    /\ UNCHANGED at

ThreadStep ==
    \/ \E f \in Fibers : FiberStep(f) \/ TimerExpires(f)
    \/ Dispatch

-----------------------------------------------------------------------------
\* ACL_FIBER::me is never linked twice, and every fiber runs or is in the
\* one ring that can bring it back (ring_prepend does not unlink its entry
\* first, and me is shared by the ready ring, the timers and the waiters).
NoFiberLost == RingsIntact(thr) /\ \A f \in Fibers : Reachable(thr, f)
=============================================================================
