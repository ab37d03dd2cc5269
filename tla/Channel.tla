------------------------------ MODULE Channel ------------------------------
(***************************************************************************)
(* ACL_CHANNEL (src/lib_fiber/c/src/sync/channel.c): the channel between   *)
(* the fibers of one thread, with a buffer of bufsize messages or none.    *)
(*                                                                         *)
(* Whoever can do its operation does it, and the one of a fiber that waits *)
(* on the other side with it; which one is left to rand().  The others put *)
(* their FIBER_ALT, which is on their stack, into the channel and switch.  *)
(*                                                                         *)
(* A waiter that is killed comes back without taking its FIBER_ALT out: it *)
(* goes stale.  What happens when the channel picks a stale one is         *)
(* undefined, and the model ends there (broken).                           *)
(***************************************************************************)
EXTENDS FiberThread, FiniteSets

Ops == {"send", "recv"}

CONSTANTS BufSizes,  \* the values of ACL_CHANNEL::bufsize
          Senders,   \* the fibers that send; all receive
          MaxSends   \* bound: the messages that a fiber sends

ASSUME BoundsAssumption == BufSizes \subseteq Nat /\ MaxSends \in Nat
ASSUME SendersAssumption == Senders \subseteq Fibers
ASSUME ChannelRings  == Rings = {"ready", "timer"}
ASSUME ChannelPlaces == Places = {"run", "delay"} \cup Ops

\* The k-th message of each fiber.
Messages == Senders \X (1..MaxSends)

VARIABLES bufsize,   \* ACL_CHANNEL::bufsize
          buf,       \* the messages in the buffer, from off on
          asend,     \* the fibers whose FIBER_ALT is in ACL_CHANNEL::asend
          arecv,     \* the same for ACL_CHANNEL::arecv
          stale,     \* the arrays with a FIBER_ALT of a call that is over
          killed,    \* the fibers with FIBER_F_KILLED
          sends,     \* how many messages each fiber has sent or offered
          received,  \* history: the messages that were handed to a receiver
          withdrawn, \* history: the messages that went stale
          harmed,    \* history: a fiber was cancelled in a call
          broken     \* a stale FIBER_ALT was picked

chanVars == << bufsize, buf, asend, arecv, stale >>
msgVars  == << sends, received, withdrawn >>
codeVars == << thr, at, chanVars, msgVars, killed, broken >>
vars     == << codeVars, harmed >>

Init ==
    /\ ThreadInit
    /\ bufsize \in BufSizes
    /\ buf = << >> /\ asend = {} /\ arecv = {} /\ stale = {}
    /\ killed = {}
    /\ sends = [f \in Senders |-> 0]
    /\ received = {} /\ withdrawn = {}
    /\ harmed = FALSE /\ broken = FALSE

-----------------------------------------------------------------------------
(* channel_alt, when the operation can be done at once *)

\* Mutant: the buffer may hold one message too many.
SendCan_Beyond ==
    IF bufsize = 0 THEN arecv # {} \/ "recv" \in stale
    ELSE Len(buf) <= bufsize

\* Mutant: the last place is kept.
SendCan_Early ==
    IF bufsize = 0 THEN arecv # {} \/ "recv" \in stale
    ELSE Len(buf) + 1 < bufsize

\* alt_can_exec
SendCan ==
    IF bufsize = 0 THEN arecv # {} \/ "recv" \in stale
    ELSE Len(buf) < bufsize

RecvCan ==
    IF bufsize = 0 THEN asend # {} \/ "send" \in stale ELSE buf # << >>

MaySend(f) == f \in Senders /\ sends[f] < MaxSends

\* The message that f sends now, or has offered.
NextOf(f)  == << f, sends[f] + 1 >>
OfferOf(f) == << f, sends[f] >>

\* Mutant: the FIBER_ALT stays where it is.
Dequeued_Kept(array, f) == array

\* alt_all_dequeue: the FIBER_ALT of f leaves its array.
Dequeued(array, f) == array \ {f}

\* Mutant: the fiber that waits is not woken.
Woken_Nobody(f) == thr

Woken(f) == FiberReady(thr, f)

\* A receiver waits: the message goes to it.
SendToWaiter(f) ==
    /\ Runs(f) /\ SendCan
    /\ MaySend(f)
    /\ \E r \in arecv :
          /\ arecv' = Dequeued(arecv, r)
          /\ thr' = Woken(r)
    /\ sends' = [sends EXCEPT ![f] = @ + 1]
    /\ received' = received \cup {NextOf(f)}
    /\ UNCHANGED << at, bufsize, buf, asend, stale, withdrawn, killed, broken >>

SendToBuffer(f) ==
    /\ Runs(f) /\ SendCan
    /\ arecv = {} /\ "recv" \notin stale
    /\ MaySend(f)
    /\ buf' = Append(buf, NextOf(f))
    /\ sends' = [sends EXCEPT ![f] = @ + 1]
    /\ UNCHANGED << thr, at, bufsize, asend, arecv, stale, received,
                    withdrawn, killed, broken >>

\* Mutant: the waiting sender's message overtakes those in the buffer.
Refilled_First(m) == << m >> \o Tail(buf)

\* Mutant: the message of the sender that waits is not copied.
Refilled_Drops(m) == Tail(buf)

\* The buffer when its first message is taken and m is put in.
Refilled(m) == Append(Tail(buf), m)

\* A sender waits: the receiver gets its message, or the first one in the
\* buffer, whose place the message takes.
RecvFromWaiter(f) ==
    /\ Runs(f) /\ RecvCan
    /\ \E s \in asend :
          LET m == IF buf = << >> THEN OfferOf(s) ELSE Head(buf) IN
          /\ asend' = Dequeued(asend, s)
          /\ buf' = IF buf = << >> THEN buf ELSE Refilled(OfferOf(s))
          /\ received' = received \cup {m}
          /\ thr' = Woken(s)
    /\ UNCHANGED << at, bufsize, arecv, stale, sends, withdrawn, killed,
                    broken >>

RecvFromBuffer(f) ==
    /\ Runs(f) /\ RecvCan
    /\ asend = {} /\ "send" \notin stale
    /\ buf' = Tail(buf)
    /\ received' = received \cup {Head(buf)}
    /\ UNCHANGED << thr, at, bufsize, asend, arecv, stale, sends, withdrawn,
                    killed, broken >>

\* rand() picks a FIBER_ALT that is not there any more.
PickStale(f) ==
    /\ Runs(f)
    /\ \/ SendCan /\ "recv" \in stale
       \/ RecvCan /\ "send" \in stale
    /\ broken' = TRUE
    /\ UNCHANGED << thr, at, chanVars, msgVars, killed >>

-----------------------------------------------------------------------------
(* channel_alt, when it cannot.  A call that must not block changes        *)
(* nothing and returns -1.                                                 *)

SendBlocks(f) ==
    /\ Runs(f) /\ ~ SendCan
    /\ MaySend(f)
    /\ sends' = [sends EXCEPT ![f] = @ + 1]
    /\ asend' = asend \cup {f}
    /\ Suspend(f, "send", thr)
    /\ UNCHANGED << bufsize, buf, arecv, stale, received, withdrawn,
                    killed, broken >>

RecvBlocks(f) ==
    /\ Runs(f) /\ ~ RecvCan
    /\ arecv' = arecv \cup {f}
    /\ Suspend(f, "recv", thr)
    /\ UNCHANGED << bufsize, buf, asend, stale, sends, received, withdrawn,
                    killed, broken >>

\* What the call returns: only the flag of the fiber is looked at, and
\* a[0].xalt still points to a if nobody has run the operation.
Result(f) ==
    IF f \in killed THEN "failed"
    ELSE IF at[f] = "send" THEN "sent" ELSE "received"

\* Back from the switch.  If nobody has taken the FIBER_ALT out it stays.
Return(f) ==
    /\ \E op \in Ops : Resumed(f, op)
    /\ Resume(f, thr)
    /\ asend' = asend \ {f} /\ arecv' = arecv \ {f}
    /\ stale' = IF f \in asend \cup arecv THEN stale \cup {at[f]} ELSE stale
    /\ withdrawn' = IF f \in asend THEN withdrawn \cup {OfferOf(f)}
                    ELSE withdrawn
    /\ UNCHANGED << bufsize, buf, sends, received, killed, broken >>

-----------------------------------------------------------------------------
InCall(f) == at[f] \in Ops

\* acl_fiber_kill, and acl_fiber_signal with a signal that does not kill.
KillOrSignal(f) ==
    \E g \in Victims : Kill(f, g) /\ killed' \in {killed, killed \cup {g}}

ClearFlags(f) == Clear(f) /\ killed' = killed \ {f}

ReadyStep == Dispatch /\ UNCHANGED << chanVars, msgVars, killed, broken >>

YieldStep(f) == Yield(f) /\ UNCHANGED << chanVars, msgVars, killed, broken >>

Next ==
    /\ ~ broken
    /\ \/ \E f \in Fibers :
             \/ SendToWaiter(f) \/ SendToBuffer(f) \/ SendBlocks(f)
             \/ RecvFromWaiter(f) \/ RecvFromBuffer(f) \/ RecvBlocks(f)
             \/ PickStale(f) \/ Return(f)
             \/ /\ KillOrSignal(f) \/ ClearFlags(f)
                /\ UNCHANGED << chanVars, msgVars, broken >>
             \/ YieldStep(f)
       \/ ReadyStep
    /\ harmed' = (harmed \/ \E f \in Fibers : InCall(f) /\ Canceled(thr', f))

Spec == Init /\ [][Next]_vars

-----------------------------------------------------------------------------
(* Safety *)

\* The type invariant.
TypeOK ==
    /\ ThreadTypeOK
    /\ bufsize \in BufSizes
    /\ buf \in Seq(Messages)
    /\ asend \subseteq Fibers /\ arecv \subseteq Fibers
    /\ stale \subseteq Ops /\ killed \subseteq Fibers
    /\ sends \in [Senders -> 0..MaxSends]
    /\ received \subseteq Messages /\ withdrawn \subseteq Messages
    /\ harmed \in BOOLEAN /\ broken \in BOOLEAN

\* No fiber waits for what is there: senders only while the buffer is full,
\* receivers only while it is empty, and never both, whoever is killed.
WaitsForCause ==
    /\ asend # {} => arecv = {} /\ Len(buf) = bufsize
    /\ arecv # {} => buf = << >>

Occurs(m) == Cardinality({i \in DOMAIN buf : buf[i] = m})

\* No message is lost or doubled: each one that was sent or offered is with a
\* waiting sender, in the buffer, with a receiver, or went stale, and in one of
\* these places only; and the buffer holds no more than bufsize.
Conserved ==
    /\ Len(buf) <= bufsize
    /\ \A m \in Messages :
          LET offered == m[1] \in asend /\ m = OfferOf(m[1])
              places  == << offered, m \in received, m \in withdrawn >>
          IN  Occurs(m) + Cardinality({i \in 1..3 : places[i]})
                  = IF m[2] <= sends[m[1]] THEN 1 ELSE 0

\* Besides the types: fibers that wait are in one array, according to their
\* call, unless their operation was done; and no fiber is linked in two rings
\* or lost.
NoWaiterLost ==
    /\ TypeOK
    /\ \A f \in asend : at[f] = "send"
    /\ \A f \in arecv : at[f] = "recv"
    /\ RingsIntact(thr)
    /\ \A f \in Fibers : Reachable(thr, f) \/ f \in asend \cup arecv

\* Until a fiber is cancelled in its call nothing goes stale, so that no memory
\* of a call that is over is used.
StaleNeedsCancel == harmed \/ (stale = {} /\ ~ broken)

\* The messages of one sender are received in the order in which it sent them.
InOrder ==
    [][\A m \in received' \ received :
          {n \in Messages : n[1] = m[1] /\ n[2] < m[2]}
              \subseteq received \cup withdrawn]_vars

Returns(f) == InCall(f) /\ at'[f] = "run"

\* A call that waited and was not cancelled reports what was done for it: the
\* message of a send is in the buffer or with a receiver, and a receive was
\* handed one; a fiber that another one woke for nothing would break that.  Of a
\* cancelled one channel.c:345 says no such thing: it fails if it was killed,
\* even with a message in its hands, and succeeds if not, even with none.
ResultTrue ==
    [][\A f \in Fibers :
          Returns(f) /\ ~ Canceled(thr, f) =>
              IF at[f] = "send"
              THEN Result(f) = "sent" /\ OfferOf(f) \in received \cup Range(buf)
              ELSE Result(f) = "received" /\ f \notin arecv]_vars

-----------------------------------------------------------------------------
(* Liveness *)

\* The fiber that runs comes back from its call, or sooner or later yields.
Fairness ==
    /\ WF_codeVars(ReadyStep)
    /\ \A f \in Fibers : WF_codeVars(Return(f)) /\ WF_codeVars(YieldStep(f))

FairSpec == Spec /\ Fairness

\* A call whose operation was done by another fiber returns, unless a stale
\* FIBER_ALT is picked first.
DoneReturns ==
    \A f \in Fibers :
        (InCall(f) /\ f \notin asend \cup arecv) ~> (~ InCall(f) \/ broken)
=============================================================================
