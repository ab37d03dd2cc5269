------------------------------ MODULE FiberOps ------------------------------
(***************************************************************************)
(* The cooperative scheduler of one thread (src/lib_fiber/c/src/fiber.c),  *)
(* as operators on the record of that thread's state.  The synchronisation *)
(* primitives are written with them: a primitive's code between two        *)
(* switches runs without interleaving, so one action composes these        *)
(* operators in the order in which the code calls the functions.           *)
(*                                                                         *)
(* A thread t is a record with                                             *)
(*   ring    : for each ring threaded through ACL_FIBER::me, its fibers,   *)
(*             head first.  "ready" is THREAD::ready, "timer" stands for   *)
(*             the nodes of the timer cache, a primitive adds its own;     *)
(*   status  : ACL_FIBER::status;                                          *)
(*   flag    : the bits of ACL_FIBER::flag that the primitives read;       *)
(*   running : THREAD::running, or None while the event fiber polls.       *)
(*                                                                         *)
(* The event fiber (fiber_io_loop) is not a member of Fibers.  It yields   *)
(* until no other fiber is ready, so all it does between two polls is to   *)
(* take its turn: it is folded into running = None.                        *)
(***************************************************************************)
EXTENDS SequencesExt

CONSTANTS Fibers,   \* the fibers of the thread
          None,     \* the null pointer
          Rings     \* the rings that ACL_FIBER::me is linked in

ASSUME NoneAssumption   == None \notin Fibers
ASSUME FibersAssumption == IsFiniteSet(Fibers)
ASSUME RingsAssumption  == {"ready", "timer"} \subseteq Rings

Status == {"none", "ready", "suspend", "running", "exiting"}

\* FIBER_F_CANCELED (killed, closed or signaled) and FIBER_F_TIMER.
Flags == {"canceled", "timer"}

Threads == [ring    : [Rings -> Seq(Fibers)],
            status  : [Fibers -> Status],
            flag    : [Fibers -> SUBSET Flags],
            running : Fibers \cup {None}]

-----------------------------------------------------------------------------
(* common/ring.c.  An entry is in at most one ring; ring_prepend adds at   *)
(* the tail, the head is served first, and ring_detach of an entry that is *)
(* in no ring does nothing.                                                *)

RingDetach(t, f) ==
    [t EXCEPT !.ring = [r \in DOMAIN t.ring |-> RemoveFirst(t.ring[r], f)]]

RingPrepend(t, r, f) == [t EXCEPT !.ring[r] = Append(@, f)]

Empty(t, r) == t.ring[r] = << >>

\* FIRST_FIBER: the fiber at the head of ring r, or None.
First(t, r) == IF Empty(t, r) THEN None ELSE Head(t.ring[r])

In(t, r, f) == f \in Range(t.ring[r])

-----------------------------------------------------------------------------
(* fiber.c *)

\* Mutant: only the ready ring is left before it is joined again, as in the
\* alternative the source has disabled.
FiberReady_StaysLinked(t, f) ==
    IF t.status[f] = "exiting"
    THEN t
    ELSE [RingPrepend(IF t.status[f] = "ready" THEN RingDetach(t, f) ELSE t,
                      "ready", f) EXCEPT !.status[f] = "ready"]

FiberReady(t, f) ==
    IF t.status[f] = "exiting"
    THEN t
    ELSE [RingPrepend(RingDetach(t, f), "ready", f)
             EXCEPT !.status[f] = "ready"]

\* The head of the ready ring gets the processor.
RunFirst(t) ==
    LET to == Head(t.ring["ready"])
    IN  [t EXCEPT !.ring["ready"] = Tail(@),
                  !.status[to]    = "running",
                  !.running       = to]

\* acl_fiber_switch from the running fiber: it is suspended, unless it is
\* exiting, and the head of the ready ring runs.  With no fiber ready the
\* event fiber gets the thread.
Switch(t) ==
    LET from == t.running
        left == IF t.status[from] = "exiting"
                THEN t ELSE [t EXCEPT !.status[from] = "suspend"]
    IN  IF Empty(t, "ready")
        THEN [left EXCEPT !.running = None] ELSE RunFirst(left)

\* Mutant: the running fiber is not made ready before it is switched away.
FiberYield_Forgets(t) == IF Empty(t, "ready") THEN t ELSE Switch(t)

\* The running fiber joins the tail of the ready ring; alone, it goes on.
FiberYield(t) ==
    IF Empty(t, "ready")
    THEN t
    ELSE Switch(FiberReady([t EXCEPT !.status[t.running] = "none"], t.running))

Canceled(t, f) == "canceled" \in t.flag[f]

SetFlag(t, f, x)   == [t EXCEPT !.flag[f] = @ \cup {x}]
ClearFlag(t, f, x) == [t EXCEPT !.flag[f] = @ \ {x}]

\* fiber_signal: the flag is set, and only a suspended fiber is made ready.
FiberSignal(t, f) ==
    LET s == SetFlag(t, f, "canceled")
    IN  IF s.status[f] = "suspend" THEN FiberReady(s, f) ELSE s

-----------------------------------------------------------------------------
(* fiber_io.c *)

FiberTimerAdd(t, f) == RingPrepend(RingDetach(t, f), "timer", f)

\* fiber_timer_del: the fiber leaves the timer node if it is still there.
FiberTimerDel(t, f) == IF In(t, "timer", f) THEN RingDetach(t, f) ELSE t

\* wakeup_timers, for one fiber whose timer has expired.
TimerWake(t, f) == FiberReady(RingDetach(SetFlag(t, f, "timer"), f), f)

-----------------------------------------------------------------------------
(* The threads a component starts from: every fiber has been created by    *)
(* acl_fiber_create, in some order, and none has run.                      *)

FreshThread(order) ==
    [ring    |-> [r \in Rings |-> IF r = "ready" THEN order ELSE << >>],
     status  |-> [f \in Fibers |-> "ready"],
     flag    |-> [f \in Fibers |-> {}],
     running |-> None]

\* The integrity of the rings: each entry is linked at most once, in one
\* ring at most, and the running fiber in none.  ring_prepend of a linked
\* entry would break the ring it is in.
RingsIntact(t) ==
    /\ \A r \in DOMAIN t.ring : IsInjective(t.ring[r])
    /\ \A r, s \in DOMAIN t.ring :
          r # s => Range(t.ring[r]) \cap Range(t.ring[s]) = {}
    /\ \A r \in DOMAIN t.ring : ~ In(t, r, t.running)

\* No fiber is lost: each runs, or some ring can bring it back.
Reachable(t, f) == t.running = f \/ \E r \in DOMAIN t.ring : In(t, r, f)
=============================================================================
