---------------------------- MODULE ChannelProofs ----------------------------
(***************************************************************************)
(* Proofs about Channel, for any finite set of fibers, any of which may be *)
(* killed, any senders, any sizes of the buffer and any number of          *)
(* messages.                                                               *)
(*                                                                         *)
(* The argument: a fiber puts its FIBER_ALT into the channel only when     *)
(* nobody waits on the other side and the buffer is full, or empty; what   *)
(* takes it out again, another fiber or its own return, keeps that.  A     *)
(* message moves from one place to another, and each move takes the oldest *)
(* one of its sender.  A waiter sleeps until its operation is done, unless *)
(* it is killed.                                                           *)
(***************************************************************************)
EXTENDS Channel, FiberThreadInv

-----------------------------------------------------------------------------
(* The inductive invariant *)

\* A fiber that is in no ring of the thread has its FIBER_ALT in the channel.
ChannelThread ==
    /\ ThreadSound
    /\ Fibers \ (asend \cup arecv) \subseteq Present(thr)

Waiters ==
    /\ asend \subseteq Senders /\ arecv \subseteq Fibers
    /\ \A s \in asend : at[s] = "send" /\ sends[s] >= 1
    /\ \A r \in arecv : at[r] = "recv"

\* The messages of one sender are in the buffer in the order of their sending.
Ordered(b) ==
    \A i, j \in 1..Len(b) : i < j /\ b[i][1] = b[j][1] => b[i][2] < b[j][2]

Buffer ==
    /\ bufsize \in BufSizes
    /\ buf \in Seq(Messages)
    /\ Len(buf) <= bufsize
    /\ Ordered(buf)

\* The messages that were sent or offered, and those that are offered.
Sent   == {m \in Messages : m[2] <= sends[m[1]]}
Offers == {OfferOf(s) : s \in asend}

\* Each message that was sent is in one of four places.
Books ==
    /\ sends \in [Senders -> 0..MaxSends]
    /\ Sent = Offers \cup Range(buf) \cup received \cup withdrawn
    /\ Offers \cap Range(buf) = {}
    /\ Offers \cap received = {}
    /\ Offers \cap withdrawn = {}
    /\ Range(buf) \cap received = {}
    /\ Range(buf) \cap withdrawn = {}
    /\ received \cap withdrawn = {}

\* Until a fiber is cancelled in its call, who waits sleeps.
WaitersSleep ==
    ~ harmed => /\ stale = {} /\ ~ broken
                /\ (asend \cup arecv) \cap Awake(thr) = {}

ChannelInv ==
    /\ ChannelThread
    /\ Waiters
    /\ Buffer
    /\ WaitsForCause
    /\ Books
    /\ WaitersSleep
    /\ stale \subseteq Ops /\ killed \subseteq Fibers
    /\ harmed \in BOOLEAN /\ broken \in BOOLEAN

-----------------------------------------------------------------------------
(* Lemmas *)

\* The rings, places and bounds of this component, from its assumptions.
LEMMA ChannelConstants ==
    /\ "ready" \in Rings
    /\ "run" \in Places /\ "send" \in Places /\ "recv" \in Places
    /\ None \notin Fibers /\ Senders \subseteq Fibers
    /\ BufSizes \subseteq Nat /\ MaxSends \in Nat
BY ChannelRings, ChannelPlaces, NoneAssumption, BoundsAssumption,
   SendersAssumption
   DEF ChannelRings, ChannelPlaces, NoneAssumption, BoundsAssumption,
       SendersAssumption, Ops

\* A message is a sender and a number.
LEMMA MessageIs ==
    ASSUME NEW m \in Messages
    PROVE  m[1] \in Senders /\ m[2] \in 1..MaxSends /\ m = << m[1], m[2] >>
BY DEF Messages

\* What a waiting sender offers is the last message that it sent.
LEMMA OfferIs ==
    ASSUME sends \in [Senders -> 0..MaxSends],
           NEW f \in Senders, sends[f] >= 1
    PROVE  /\ OfferOf(f) \in Sent /\ OfferOf(f) \in Messages
           /\ OfferOf(f)[1] = f /\ OfferOf(f)[2] = sends[f]
BY BoundsAssumption DEF OfferOf, Sent, Messages, BoundsAssumption

\* A new message was not sent before.
LEMMA NextIs ==
    ASSUME sends \in [Senders -> 0..MaxSends], NEW f \in Fibers, MaySend(f),
           sends' = [sends EXCEPT ![f] = @ + 1]
    PROVE  /\ f \in Senders /\ sends' \in [Senders -> 0..MaxSends]
           /\ sends'[f] >= 1
           /\ NextOf(f) \in Messages /\ NextOf(f) \notin Sent
           /\ NextOf(f)[1] = f /\ NextOf(f)[2] = sends[f] + 1
           /\ Sent' = Sent \cup {NextOf(f)}
           /\ << f, sends'[f] >> = NextOf(f)
           /\ \A s \in Senders \ {f} : sends'[s] = sends[s]
<1>1. /\ f \in Senders /\ sends[f] \in Nat /\ sends[f] + 1 \in 1..MaxSends
      /\ MaxSends \in Nat
  BY ChannelConstants DEF MaySend
<1>2. /\ sends' \in [Senders -> 0..MaxSends] /\ sends'[f] = sends[f] + 1
      /\ \A s \in Senders \ {f} : sends'[s] = sends[s]
  BY <1>1
<1>3. /\ NextOf(f) \in Messages
      /\ NextOf(f)[1] = f /\ NextOf(f)[2] = sends[f] + 1
  BY <1>1 DEF NextOf, Messages
<1>4. NextOf(f) \notin Sent
  BY <1>1, <1>3 DEF Sent
<1>5. ASSUME NEW m \in Messages
      PROVE  m[2] <= sends'[m[1]] <=> m[2] <= sends[m[1]] \/ m = NextOf(f)
  <2>1. m[1] \in Senders /\ m[2] \in Nat /\ m = << m[1], m[2] >>
    BY MessageIs
  <2>2. CASE m[1] # f
    BY <1>2, <1>3, <2>1, <2>2
  <2>3. CASE m[1] = f
    BY <1>1, <1>2, <2>1, <2>3 DEF NextOf
  <2> QED BY <2>2, <2>3
<1>6. Sent' = Sent \cup {NextOf(f)}
  BY <1>3, <1>5 DEF Sent
<1>7. << f, sends'[f] >> = NextOf(f)
  BY <1>2 DEF NextOf
<1> QED BY <1>1, <1>2, <1>3, <1>4, <1>6, <1>7

\* No message is twice in an ordered buffer.
LEMMA OrderedInjective ==
    ASSUME NEW b \in Seq(Messages), Ordered(b)
    PROVE  IsInjective(b)
<1>1. DOMAIN b = 1..Len(b) /\ Len(b) \in Nat
  OBVIOUS
<1>2. \A i \in 1..Len(b) : b[i][2] \in Nat
  BY MessageIs
<1> SUFFICES ASSUME NEW i \in 1..Len(b), NEW j \in 1..Len(b), b[i] = b[j]
             PROVE  i = j
  BY <1>1 DEF IsInjective
<1>3. ~ i < j /\ ~ j < i
  BY <1>2 DEF Ordered
<1> QED BY <1>1, <1>3

\* A message that is later than those of its sender goes to the end.
LEMMA OrderedAppend ==
    ASSUME NEW b \in Seq(Messages), Ordered(b), NEW m \in Messages,
           \A n \in Range(b) : n[1] = m[1] => n[2] < m[2]
    PROVE  /\ Append(b, m) \in Seq(Messages) /\ Ordered(Append(b, m))
           /\ Len(Append(b, m)) = Len(b) + 1
           /\ Range(Append(b, m)) = Range(b) \cup {m}
<1> DEFINE u == Append(b, m)
<1>1. /\ u \in Seq(Messages) /\ Len(u) = Len(b) + 1 /\ u[Len(b) + 1] = m
      /\ \A i \in 1..Len(b) : u[i] = b[i]
      /\ Len(b) \in Nat
  OBVIOUS
<1>2. /\ Range(b) = {b[i] : i \in 1..Len(b)}
      /\ Range(u) = {u[i] : i \in 1..Len(u)}
  BY <1>1, RangeIs
<1> HIDE DEF u
<1>3. 1..Len(u) = 1..Len(b) \cup {Len(b) + 1}
  BY <1>1
<1>4. Range(u) = Range(b) \cup {m}
  <2>1. \A x \in Range(u) : x \in Range(b) \/ x = m
    BY <1>1, <1>2, <1>3
  <2>2. \A x \in Range(b) : x \in Range(u)
    BY <1>1, <1>2, <1>3
  <2>3. m \in Range(u)
    BY <1>1, <1>2, <1>3
  <2> QED BY <2>1, <2>2, <2>3
<1>5. ASSUME NEW i \in 1..Len(u), NEW j \in 1..Len(u), i < j, u[i][1] = u[j][1]
      PROVE  u[i][2] < u[j][2]
  <2>1. i \in 1..Len(b) /\ u[i] = b[i] /\ b[i] \in Range(b)
    BY <1>1, <1>2, <1>5
  <2>2. CASE j \in 1..Len(b)
    BY <1>1, <1>5, <2>1, <2>2 DEF Ordered
  <2>3. CASE j = Len(b) + 1
    BY <1>1, <1>5, <2>1, <2>3
  <2> QED BY <1>3, <2>2, <2>3
<1>6. Ordered(u)
  BY <1>5 DEF Ordered
<1> QED BY <1>1, <1>4, <1>6 DEF u

\* The head of an ordered buffer is the oldest message of its sender in it.
LEMMA OrderedTail ==
    ASSUME NEW b \in Seq(Messages), Ordered(b), b # << >>
    PROVE  /\ Tail(b) \in Seq(Messages) /\ Ordered(Tail(b))
           /\ Len(Tail(b)) = Len(b) - 1 /\ Len(b) >= 1
           /\ Head(b) \in Messages /\ Head(b) \in Range(b)
           /\ Range(Tail(b)) = Range(b) \ {Head(b)}
           /\ \A n \in Range(b) :
                 n[1] = Head(b)[1] => n = Head(b) \/ Head(b)[2] < n[2]
<1>1. /\ Tail(b) \in Seq(Messages) /\ Len(Tail(b)) = Len(b) - 1
      /\ Len(b) \in Nat /\ Len(b) >= 1 /\ Head(b) = b[1]
      /\ \A i \in 1..(Len(b) - 1) : Tail(b)[i] = b[i + 1]
  OBVIOUS
<1>2. /\ Head(b) \in Messages /\ Head(b) \in Range(b)
      /\ Range(Tail(b)) = Range(b) \ {Head(b)}
  BY OrderedInjective, HeadTailRange
<1>3. Ordered(Tail(b))
  BY <1>1 DEF Ordered
<1>4. ASSUME NEW n \in Range(b), n[1] = Head(b)[1], n # Head(b)
      PROVE  Head(b)[2] < n[2]
  <2>1. PICK i \in 1..Len(b) : n = b[i]
    BY RangeIs
  <2>2. 1 < i /\ 1 \in 1..Len(b)
    BY <1>1, <1>4, <2>1
  <2> QED BY <1>1, <1>4, <2>1, <2>2 DEF Ordered
<1> QED BY <1>1, <1>2, <1>3, <1>4

\* The messages of the sender of m before m.
Earlier(m) == {n \in Messages : n[1] = m[1] /\ n[2] < m[2]}

\* A waiting sender that leaves takes its offer along.
LEMMA OfferLeaves ==
    ASSUME NEW f \in Fibers, asend' = asend \ {f}, sends' = sends
    PROVE  /\ Offers' = IF f \in asend THEN Offers \ {OfferOf(f)} ELSE Offers
           /\ f \in asend => OfferOf(f) \in Offers
<1>1. \A g \in asend : OfferOf(g) = OfferOf(f) => g = f
  BY DEF OfferOf
<1>2. Offers' = {OfferOf(g) : g \in asend'}
  BY DEF Offers, OfferOf
<1> QED BY <1>1, <1>2 DEF Offers

\* The messages before one that was sent were sent.
LEMMA EarlierSent ==
    ASSUME sends \in [Senders -> 0..MaxSends], NEW m \in Messages,
           m[2] <= sends[m[1]] + 1
    PROVE  Earlier(m) \subseteq Sent
<1> SUFFICES ASSUME NEW n \in Earlier(m) PROVE n \in Sent
  OBVIOUS
<1>1. n \in Messages /\ n[1] = m[1] /\ n[2] < m[2]
  BY DEF Earlier
<1>2. n[2] \in Nat /\ m[2] \in Nat /\ sends[m[1]] \in Nat
  BY <1>1, MessageIs, ChannelConstants
<1>3. n[2] <= sends[n[1]]
  BY <1>1, <1>2
<1> QED BY <1>1, <1>3 DEF Sent

\* The offer of a waiting sender is its last message, and neither in the buffer
\* nor received.
LEMMA OfferLast ==
    ASSUME Waiters, Books, NEW s \in asend
    PROVE  /\ OfferOf(s) \in Messages /\ OfferOf(s)[1] = s
           /\ OfferOf(s)[2] = sends[s]
           /\ OfferOf(s) \in Offers
           /\ \A n \in Sent \ {OfferOf(s)} : n[1] = s => n[2] < sends[s]
           /\ Earlier(OfferOf(s)) \subseteq Sent \ Offers
<1>1. /\ s \in Senders /\ sends \in [Senders -> 0..MaxSends] /\ sends[s] >= 1
      /\ sends[s] \in Nat
  BY ChannelConstants DEF Waiters, Books
<1>2. /\ OfferOf(s) \in Messages /\ OfferOf(s)[1] = s
      /\ OfferOf(s)[2] = sends[s]
      /\ OfferOf(s) \in Offers
  BY <1>1, OfferIs DEF Offers
<1>3. ASSUME NEW n \in Sent, n # OfferOf(s), n[1] = s
      PROVE  n[2] < sends[s]
  <2>1. n[2] \in Nat /\ n = << n[1], n[2] >> /\ n[2] <= sends[s]
    BY <1>3, MessageIs DEF Sent
  <2>2. n[2] # sends[s]
    BY <1>3, <2>1 DEF OfferOf
  <2> QED BY <1>1, <2>1, <2>2
<1>4. Earlier(OfferOf(s)) \subseteq Sent
  BY <1>1, <1>2, EarlierSent
<1>5. ASSUME NEW n \in Earlier(OfferOf(s)), n \in Offers PROVE FALSE
  <2>1. n[1] = s /\ n[2] < sends[s]
    BY <1>2, <1>5 DEF Earlier
  <2>2. PICK g \in asend : n = << g, sends[g] >>
    BY <1>5 DEF Offers, OfferOf
  <2> QED BY <1>1, <2>1, <2>2
<1> QED BY <1>2, <1>3, <1>4, <1>5

\* The messages before the first one of the buffer are not in the channel.
LEMMA HeadEarlier ==
    ASSUME Waiters, Buffer, Books, buf # << >>
    PROVE  Earlier(Head(buf)) \subseteq received \cup withdrawn
<1> DEFINE h == Head(buf)
<1>1. /\ buf \in Seq(Messages) /\ Ordered(buf)
      /\ sends \in [Senders -> 0..MaxSends]
      /\ Sent = Offers \cup Range(buf) \cup received \cup withdrawn
      /\ Offers \cap Range(buf) = {}
  BY DEF Buffer, Books
<1>2. /\ h \in Messages /\ h \in Range(buf)
      /\ \A n \in Range(buf) : n[1] = h[1] => n = h \/ h[2] < n[2]
  BY <1>1, OrderedTail
<1> HIDE DEF h
<1>3. h[2] <= sends[h[1]] /\ h[1] \in Senders /\ h[2] \in Nat
      /\ sends[h[1]] \in Nat
  BY <1>1, <1>2, MessageIs, ChannelConstants DEF Sent
<1>4. Earlier(h) \subseteq Sent
  BY <1>1, <1>2, <1>3, EarlierSent
<1>5. \A n \in Messages : n[2] \in Nat
  BY MessageIs
<1>6. Earlier(h) \cap Range(buf) = {}
  BY <1>2, <1>3, <1>5 DEF Earlier
<1>7. Earlier(h) \cap Offers = {}
  <2> SUFFICES ASSUME NEW n \in Earlier(h), n \in Offers PROVE FALSE
    OBVIOUS
  <2>1. PICK g \in asend : n = << g, sends[g] >>
    BY DEF Offers, OfferOf
  <2> QED BY <1>3, <2>1 DEF Earlier
<1> QED BY <1>1, <1>4, <1>6, <1>7 DEF h

\* The caller wakes a fiber that waits.
LEMMA WokenLemma ==
    ASSUME Whole(thr), NEW f \in Fibers, Runs(f), NEW g \in Fibers,
           at[g] # "run", NEW u, u = Woken(g)
    PROVE  /\ Whole(u) /\ u.flag = thr.flag
           /\ Awake(u) = Awake(thr) \cup {g}
           /\ Present(u) = Present(thr) \cup {g}
<1>1. g # thr.running
  BY DEF Runs
<1> DEFINE w == FiberReady(thr, g)
<1>2. /\ Whole(w) /\ w.flag = thr.flag /\ Awake(w) = Awake(thr) \cup {g}
      /\ Present(w) = Present(thr) \cup {g}
  BY <1>1, WakeLemma
<1> QED BY <1>2 DEF Woken

\* The caller is suspended in its call.
LEMMA BlocksLemma ==
    ASSUME Whole(thr), at \in [Fibers -> Places], NEW f \in Fibers, Runs(f),
           NEW op \in Ops, Suspend(f, op, thr)
    PROVE  /\ Whole(thr') /\ thr'.flag = thr.flag /\ at' \in [Fibers -> Places]
           /\ at'[f] = op /\ \A g \in Fibers \ {f} : at'[g] = at[g]
           /\ f \notin Awake(thr') /\ Awake(thr') \subseteq Awake(thr) \cup {None}
           /\ Present(thr) \ {f} \subseteq Present(thr')
<1>1. /\ thr' = Switch(thr) /\ at' = [at EXCEPT ![f] = op]
      /\ thr.running = f
  BY DEF Suspend, Runs
<1>2. Sound(thr) /\ f \notin Linked(thr, "ready")
  BY <1>1, ChannelConstants DEF Whole, Unlinked
<1>3. /\ Whole(thr') /\ thr'.flag = thr.flag /\ f \notin Awake(thr')
      /\ Awake(thr') \subseteq Awake(thr) \cup {None}
      /\ Present(thr) \ {f} \subseteq Present(thr')
  BY <1>1, <1>2, SwitchAwayLemma
<1>4. op \in Places
  BY ChannelConstants DEF Ops
<1> QED BY <1>1, <1>3, <1>4

-----------------------------------------------------------------------------
(* The invariant *)

\* At the start the channel is empty.
LEMMA ChannelInit == Init => ChannelInv
<1> SUFFICES ASSUME Init PROVE ChannelInv
  OBVIOUS
<1>1. /\ ThreadInv /\ bufsize \in BufSizes
      /\ buf = << >> /\ asend = {} /\ arecv = {} /\ stale = {} /\ killed = {}
      /\ sends = [f \in Senders |-> 0]
      /\ received = {} /\ withdrawn = {} /\ harmed = FALSE /\ broken = FALSE
  <2>1. PICK order \in SetToSeqs(Fibers) : thr = FreshThread(order)
    BY DEF Init, ThreadInit
  <2>2. /\ Whole(thr) /\ Present(thr) = Fibers /\ thr.running = None
        /\ \A r \in Rings \ {"ready"} : Linked(thr, r) = {}
    BY <2>1, FreshStart
  <2>3. at \in [Fibers -> Places] /\ \A g \in Fibers : at[g] = "run"
    BY PlacesAssumption DEF Init, ThreadInit, PlacesAssumption
  <2> QED BY <2>2, <2>3 DEF Init, ThreadInv, ThreadSound
<1>2. bufsize \in Nat /\ MaxSends \in Nat
  BY <1>1, ChannelConstants
<1>3. ChannelThread /\ Waiters /\ WaitsForCause /\ WaitersSleep
  BY <1>1 DEF ChannelThread, ThreadInv, Waiters, WaitsForCause, WaitersSleep
<1>4. Buffer
  BY <1>1, <1>2 DEF Buffer, Ordered
<1>5. Sent = {}
  BY <1>1, MessageIs DEF Sent
<1>6. Range(buf) = {} /\ Offers = {}
  BY <1>1 DEF Range, Offers
<1>7. Books
  BY <1>1, <1>2, <1>5, <1>6 DEF Books
<1> QED BY <1>1, <1>3, <1>4, <1>7 DEF ChannelInv

\* What a step hands to a receiver comes after all that its sender sent before.
InTurn ==
    \A m \in received' \ received : Earlier(m) \subseteq received \cup withdrawn

\* Every operation of the channel, and every step of the thread, keeps the
\* invariant and hands over messages in turn.
LEMMA ChannelStep ==
    ASSUME ChannelInv, Next
    PROVE  ChannelInv' /\ InTurn
<1>1. /\ Whole(thr) /\ at \in [Fibers -> Places]
      /\ Fibers \ (asend \cup arecv) \subseteq Present(thr)
      /\ asend \subseteq Senders /\ asend \subseteq Fibers
      /\ arecv \subseteq Fibers
      /\ \A s \in asend : at[s] = "send" /\ sends[s] >= 1
      /\ \A r \in arecv : at[r] = "recv"
      /\ bufsize \in BufSizes /\ bufsize \in Nat
      /\ buf \in Seq(Messages) /\ Len(buf) <= bufsize /\ Ordered(buf)
      /\ Len(buf) \in Nat /\ (Len(buf) = 0 <=> buf = << >>)
      /\ sends \in [Senders -> 0..MaxSends]
      /\ stale \subseteq Ops /\ killed \subseteq Fibers
      /\ harmed \in BOOLEAN /\ broken \in BOOLEAN
  BY ChannelConstants
     DEF ChannelInv, ChannelThread, ThreadSound, Waiters, Buffer, Books
<1>2. /\ WaitsForCause /\ Waiters /\ Buffer /\ Books /\ WaitersSleep
      /\ Sent = Offers \cup Range(buf) \cup received \cup withdrawn
      /\ \A f \in Fibers : at[f] = "run" => f \notin asend /\ f \notin arecv
  BY <1>1 DEF ChannelInv, Books
<1>3. buf = << >> => Range(buf) = {}
  BY DEF Range
<1>4. asend = {} => Offers = {}
  BY DEF Offers
<1>5. /\ ~ broken
      /\ harmed' = (harmed \/ \E f \in Fibers : InCall(f) /\ Canceled(thr', f))
  BY DEF Next
<1> DEFINE P == /\ ChannelThread' /\ Waiters' /\ Buffer' /\ WaitsForCause'
                /\ Books' /\ WaitersSleep'
                /\ stale' \subseteq Ops /\ killed' \subseteq Fibers
                /\ broken' \in BOOLEAN
                /\ InTurn
<1>6. ASSUME NEW f \in Fibers, SendToWaiter(f) PROVE P
  <2>1. /\ Runs(f) /\ MaySend(f) /\ at[f] = "run"
        /\ sends' = [sends EXCEPT ![f] = @ + 1]
        /\ received' = received \cup {NextOf(f)}
        /\ at' = at /\ bufsize' = bufsize /\ buf' = buf /\ asend' = asend
        /\ stale' = stale /\ withdrawn' = withdrawn /\ killed' = killed
        /\ broken' = broken
    BY <1>6 DEF SendToWaiter, Runs
  <2>2. PICK r \in arecv : arecv' = arecv \ {r} /\ thr' = Woken(r)
    BY <1>6 DEF SendToWaiter, Dequeued
  <2>3. asend = {} /\ buf = << >> /\ Range(buf) = {} /\ Offers = {}
    BY <1>2, <1>3, <1>4, <2>2 DEF WaitsForCause
  <2>4. /\ Whole(thr') /\ Awake(thr') = Awake(thr) \cup {r}
        /\ Present(thr') = Present(thr) \cup {r}
    BY <1>1, <2>1, <2>2, WokenLemma
  <2>5. /\ sends' \in [Senders -> 0..MaxSends]
        /\ NextOf(f) \in Messages /\ NextOf(f) \notin Sent
        /\ NextOf(f)[1] = f /\ NextOf(f)[2] = sends[f] + 1
        /\ Sent' = Sent \cup {NextOf(f)}
    BY <1>1, <2>1, NextIs
  <2>6. ChannelThread' /\ Waiters' /\ WaitsForCause'
    BY <1>1, <2>1, <2>2, <2>3, <2>4
       DEF ChannelThread, ThreadSound, Waiters, WaitsForCause
  <2>7. Buffer'
    BY <1>1, <2>1 DEF Buffer
  <2>8. Books'
    <3>1. Offers' = {} /\ Range(buf') = {}
      BY <2>1, <2>3 DEF Offers
    <3> QED BY <1>2, <2>1, <2>3, <2>5, <3>1 DEF Books
  <2>9. WaitersSleep'
    BY <1>1, <1>2, <1>5, <2>1, <2>2, <2>3, <2>4 DEF WaitersSleep
  <2>10. InTurn
    <3>1. Earlier(NextOf(f)) \subseteq Sent
      <4>1. NextOf(f)[2] \in Nat
        BY <2>5, MessageIs
      <4>2. NextOf(f)[2] <= sends[NextOf(f)[1]] + 1
        BY <2>5, <4>1
      <4> QED BY <1>1, <2>5, <4>2, EarlierSent
    <3> QED BY <1>2, <2>1, <2>3, <3>1 DEF InTurn
  <2> QED BY <1>1, <2>1, <2>6, <2>7, <2>8, <2>9, <2>10
<1>7. ASSUME NEW f \in Fibers, SendToBuffer(f) PROVE P
  <2>1. /\ MaySend(f) /\ SendCan /\ arecv = {} /\ "recv" \notin stale
        /\ buf' = Append(buf, NextOf(f))
        /\ sends' = [sends EXCEPT ![f] = @ + 1] /\ at[f] = "run"
        /\ thr' = thr /\ at' = at /\ bufsize' = bufsize /\ asend' = asend
        /\ arecv' = arecv /\ stale' = stale /\ received' = received
        /\ withdrawn' = withdrawn /\ killed' = killed /\ broken' = broken
    BY <1>7 DEF SendToBuffer, Runs
  <2>2. Len(buf) < bufsize /\ asend = {} /\ Offers = {}
    BY <1>1, <1>2, <1>4, <2>1 DEF SendCan, WaitsForCause
  <2>3. /\ sends' \in [Senders -> 0..MaxSends]
        /\ NextOf(f) \in Messages /\ NextOf(f) \notin Sent
        /\ NextOf(f)[1] = f /\ NextOf(f)[2] = sends[f] + 1
        /\ Sent' = Sent \cup {NextOf(f)} /\ f \in Senders
    BY <1>1, <2>1, NextIs
  <2>4. \A n \in Range(buf) : n[1] = NextOf(f)[1] => n[2] < NextOf(f)[2]
    <3>1. \A n \in Range(buf) : n[2] <= sends[n[1]] /\ n[2] \in Nat
      BY <1>2, MessageIs DEF Sent
    <3>2. sends[f] \in Nat
      BY <1>1, <2>3, ChannelConstants
    <3> QED BY <2>3, <3>1, <3>2
  <2>5. /\ buf' \in Seq(Messages) /\ Ordered(buf') /\ Len(buf') = Len(buf) + 1
        /\ Range(buf') = Range(buf) \cup {NextOf(f)}
    BY <1>1, <2>1, <2>3, <2>4, OrderedAppend
  <2>6. ChannelThread' /\ Waiters' /\ WaitsForCause' /\ Buffer'
    BY <1>1, <2>1, <2>2, <2>5
       DEF ChannelThread, ThreadSound, Waiters, WaitsForCause, Buffer
  <2>7. Books'
    <3>1. Offers' = {}
      BY <2>1, <2>2 DEF Offers
    <3> QED BY <1>2, <2>1, <2>2, <2>3, <2>5, <3>1 DEF Books
  <2>8. WaitersSleep' /\ InTurn
    BY <1>2, <1>5, <2>1 DEF WaitersSleep, InTurn
  <2> QED BY <1>1, <2>1, <2>6, <2>7, <2>8
<1>8. ASSUME NEW f \in Fibers, RecvFromWaiter(f) PROVE P
  <2>1. /\ Runs(f) /\ at' = at /\ bufsize' = bufsize /\ arecv' = arecv
        /\ stale' = stale /\ sends' = sends /\ withdrawn' = withdrawn
        /\ killed' = killed /\ broken' = broken
    BY <1>8 DEF RecvFromWaiter
  <2>2. PICK s \in asend :
           /\ asend' = asend \ {s} /\ thr' = Woken(s)
           /\ buf' = IF buf = << >> THEN buf ELSE Append(Tail(buf), OfferOf(s))
           /\ received' = received \cup
                 {IF buf = << >> THEN OfferOf(s) ELSE Head(buf)}
    BY <1>8 DEF RecvFromWaiter, Dequeued, Refilled
  <2>3. arecv = {} /\ Len(buf) = bufsize
    BY <1>2, <2>2 DEF WaitsForCause
  <2>4. /\ Whole(thr') /\ Awake(thr') = Awake(thr) \cup {s}
        /\ Present(thr') = Present(thr) \cup {s}
    BY <1>1, <2>1, <2>2, WokenLemma
  <2>5. Offers' = Offers \ {OfferOf(s)}
    BY <1>1, <2>1, <2>2, OfferLeaves
  <2>6. /\ OfferOf(s) \in Messages /\ OfferOf(s)[1] = s
        /\ OfferOf(s)[2] = sends[s] /\ OfferOf(s) \in Offers
        /\ \A n \in Sent \ {OfferOf(s)} : n[1] = s => n[2] < sends[s]
        /\ Earlier(OfferOf(s)) \subseteq Sent \ Offers
    BY <1>2, OfferLast
  <2>7. Sent' = Sent
    BY <2>1 DEF Sent
  <2>8. ChannelThread' /\ Waiters'
    BY <1>1, <2>1, <2>2, <2>4 DEF ChannelThread, ThreadSound, Waiters
  <2>9. WaitersSleep'
    BY <1>1, <1>2, <1>5, <2>1, <2>2, <2>3, <2>4 DEF WaitersSleep
  <2>10. Buffer' /\ WaitsForCause' /\ Books' /\ InTurn
    <3>1. CASE buf = << >>
      <4>1. buf' = buf /\ Range(buf) = {} /\ received' = received \cup {OfferOf(s)}
        BY <1>3, <2>2, <3>1
      <4>2. Buffer' /\ WaitsForCause'
        BY <1>1, <2>1, <2>3, <4>1 DEF Buffer, WaitsForCause
      <4>3. Books'
        BY <1>2, <2>1, <2>5, <2>6, <2>7, <4>1 DEF Books
      <4> QED BY <1>2, <2>6, <4>1, <4>2, <4>3 DEF InTurn
    <3>2. CASE buf # << >>
      <4> DEFINE h == Head(buf)
      <4>1. /\ Tail(buf) \in Seq(Messages) /\ Ordered(Tail(buf))
            /\ Len(Tail(buf)) = Len(buf) - 1
            /\ h \in Range(buf) /\ Range(Tail(buf)) = Range(buf) \ {h}
        BY <1>1, <3>2, OrderedTail
      <4>2. \A n \in Range(Tail(buf)) :
               n[1] = OfferOf(s)[1] => n[2] < OfferOf(s)[2]
        BY <1>2, <2>6, <4>1 DEF Books
      <4>3. /\ buf' = Append(Tail(buf), OfferOf(s))
            /\ received' = received \cup {h}
        BY <2>2, <3>2
      <4>4. /\ buf' \in Seq(Messages) /\ Ordered(buf')
            /\ Len(buf') = Len(Tail(buf)) + 1
            /\ Range(buf') = Range(Tail(buf)) \cup {OfferOf(s)}
        BY <2>6, <4>1, <4>2, <4>3, OrderedAppend
      <4>5. Earlier(h) \subseteq received \cup withdrawn
        BY <1>2, <3>2, HeadEarlier
      <4> HIDE DEF h
      <4>6. Len(buf') = Len(buf)
        BY <1>1, <4>1, <4>4
      <4>7. Buffer' /\ WaitsForCause'
        BY <1>1, <2>1, <2>3, <4>4, <4>6 DEF Buffer, WaitsForCause
      <4>8. Books'
        BY <1>2, <2>1, <2>5, <2>6, <2>7, <4>1, <4>3, <4>4 DEF Books
      <4> QED BY <4>3, <4>5, <4>7, <4>8 DEF InTurn
    <3> QED BY <3>1, <3>2
  <2> QED BY <1>1, <2>1, <2>8, <2>9, <2>10
<1>9. ASSUME NEW f \in Fibers, RecvFromBuffer(f) PROVE P
  <2>1. /\ RecvCan /\ asend = {} /\ "send" \notin stale
        /\ buf' = Tail(buf) /\ received' = received \cup {Head(buf)}
        /\ thr' = thr /\ at' = at /\ bufsize' = bufsize /\ asend' = asend
        /\ arecv' = arecv /\ stale' = stale /\ sends' = sends
        /\ withdrawn' = withdrawn /\ killed' = killed /\ broken' = broken
    BY <1>9 DEF RecvFromBuffer
  <2>2. buf # << >> /\ arecv = {}
    BY <1>2, <2>1 DEF RecvCan, WaitsForCause
  <2>3. /\ Tail(buf) \in Seq(Messages) /\ Ordered(Tail(buf))
        /\ Len(Tail(buf)) = Len(buf) - 1
        /\ Head(buf) \in Range(buf)
        /\ Range(Tail(buf)) = Range(buf) \ {Head(buf)}
    BY <1>1, <2>2, OrderedTail
  <2>4. ChannelThread' /\ Waiters' /\ WaitsForCause' /\ Buffer'
    BY <1>1, <2>1, <2>2, <2>3
       DEF ChannelThread, ThreadSound, Waiters, WaitsForCause, Buffer
  <2>5. Books'
    <3>1. Offers' = Offers /\ Sent' = Sent
      BY <2>1 DEF Offers, OfferOf, Sent
    <3> QED BY <1>2, <2>1, <2>3, <3>1 DEF Books
  <2>6. WaitersSleep'
    BY <1>2, <1>5, <2>1 DEF WaitersSleep
  <2>7. InTurn
    BY <1>2, <2>1, <2>2, HeadEarlier DEF InTurn
  <2> QED BY <1>1, <2>1, <2>4, <2>5, <2>6, <2>7
<1>10. ASSUME NEW f \in Fibers, SendBlocks(f) PROVE P
  <2>1. /\ Runs(f) /\ at[f] = "run" /\ ~ SendCan /\ MaySend(f)
        /\ sends' = [sends EXCEPT ![f] = @ + 1]
        /\ asend' = asend \cup {f} /\ Suspend(f, "send", thr)
        /\ bufsize' = bufsize /\ buf' = buf /\ arecv' = arecv
        /\ stale' = stale /\ received' = received /\ withdrawn' = withdrawn
        /\ killed' = killed /\ broken' = broken
    BY <1>10 DEF SendBlocks, Runs
  <2>2. arecv = {} /\ Len(buf) = bufsize
    BY <1>1, <1>2, <2>1 DEF SendCan, WaitsForCause
  <2>3. /\ Whole(thr') /\ at' \in [Fibers -> Places]
        /\ at'[f] = "send" /\ \A g \in Fibers \ {f} : at'[g] = at[g]
        /\ f \notin Awake(thr') /\ Awake(thr') \subseteq Awake(thr) \cup {None}
        /\ Present(thr) \ {f} \subseteq Present(thr')
    BY <1>1, <2>1, BlocksLemma DEF Ops
  <2>4. /\ sends' \in [Senders -> 0..MaxSends] /\ f \in Senders
        /\ sends'[f] >= 1
        /\ NextOf(f) \in Messages /\ NextOf(f) \notin Sent
        /\ Sent' = Sent \cup {NextOf(f)}
        /\ << f, sends'[f] >> = NextOf(f)
        /\ \A s \in Senders \ {f} : sends'[s] = sends[s]
    BY <1>1, <2>1, NextIs
  <2>5. ChannelThread' /\ Waiters'
    BY <1>1, <1>2, <2>1, <2>3, <2>4 DEF ChannelThread, ThreadSound, Waiters
  <2>6. WaitsForCause' /\ Buffer'
    BY <1>1, <2>1, <2>2 DEF WaitsForCause, Buffer
  <2>7. Books'
    <3>1. Offers' = Offers \cup {NextOf(f)}
      <4>1. Offers' = {<< s, sends'[s] >> : s \in asend \cup {f}}
        BY <2>1 DEF Offers, OfferOf
      <4>2. f \notin asend
        BY <1>2, <2>1
      <4> QED BY <1>1, <2>4, <4>1, <4>2 DEF Offers, OfferOf
    <3> QED BY <1>2, <2>1, <2>4, <3>1 DEF Books
  <2>8. WaitersSleep'
    BY <1>1, <1>2, <1>5, <2>1, <2>2, <2>3, ChannelConstants DEF WaitersSleep
  <2> QED BY <1>1, <2>1, <2>5, <2>6, <2>7, <2>8 DEF InTurn
<1>11. ASSUME NEW f \in Fibers, RecvBlocks(f) PROVE P
  <2>1. /\ Runs(f) /\ at[f] = "run" /\ ~ RecvCan
        /\ arecv' = arecv \cup {f} /\ Suspend(f, "recv", thr)
        /\ bufsize' = bufsize /\ buf' = buf /\ asend' = asend
        /\ stale' = stale /\ sends' = sends /\ received' = received
        /\ withdrawn' = withdrawn /\ killed' = killed /\ broken' = broken
    BY <1>11 DEF RecvBlocks, Runs
  <2>2. asend = {} /\ buf = << >>
    BY <1>1, <1>2, <2>1 DEF RecvCan, WaitsForCause
  <2>3. /\ Whole(thr') /\ at' \in [Fibers -> Places]
        /\ at'[f] = "recv" /\ \A g \in Fibers \ {f} : at'[g] = at[g]
        /\ f \notin Awake(thr') /\ Awake(thr') \subseteq Awake(thr) \cup {None}
        /\ Present(thr) \ {f} \subseteq Present(thr')
    BY <1>1, <2>1, BlocksLemma DEF Ops
  <2>4. ChannelThread' /\ Waiters'
    BY <1>1, <1>2, <2>1, <2>2, <2>3 DEF ChannelThread, ThreadSound, Waiters
  <2>5. WaitsForCause' /\ Buffer'
    BY <1>1, <2>1, <2>2 DEF WaitsForCause, Buffer
  <2>6. Books'
    <3>1. Offers' = Offers /\ Sent' = Sent
      BY <2>1 DEF Offers, OfferOf, Sent
    <3> QED BY <1>2, <2>1, <3>1 DEF Books
  <2>7. WaitersSleep'
    BY <1>1, <1>2, <1>5, <2>1, <2>2, <2>3, ChannelConstants DEF WaitersSleep
  <2> QED BY <1>1, <2>1, <2>4, <2>5, <2>6, <2>7 DEF InTurn
<1>12. ASSUME NEW f \in Fibers, Return(f) PROVE P
  <2>1. /\ thr.running = f /\ at[f] \in Ops
        /\ thr' = thr /\ at' = [at EXCEPT ![f] = "run"]
        /\ asend' = asend \ {f} /\ arecv' = arecv \ {f}
        /\ stale' = IF f \in asend \cup arecv THEN stale \cup {at[f]} ELSE stale
        /\ withdrawn' = IF f \in asend THEN withdrawn \cup {OfferOf(f)}
                        ELSE withdrawn
        /\ bufsize' = bufsize /\ buf' = buf /\ sends' = sends
        /\ received' = received /\ killed' = killed /\ broken' = broken
    BY <1>12 DEF Return, Resumed, Resume
  <2>2. at' \in [Fibers -> Places] /\ \A g \in Fibers \ {f} : at'[g] = at[g]
    BY <1>1, <2>1, ChannelConstants
  <2>3. f \in Present(thr) /\ f \in Awake(thr)
    BY <2>1 DEF Present, Awake
  <2>4. ChannelThread' /\ Waiters' /\ WaitsForCause' /\ Buffer'
    BY <1>1, <1>2, <2>1, <2>2, <2>3
       DEF ChannelThread, ThreadSound, Waiters, WaitsForCause, Buffer
  <2>5. Books'
    <3>1. /\ Offers' = IF f \in asend THEN Offers \ {OfferOf(f)} ELSE Offers
          /\ f \in asend => OfferOf(f) \in Offers
      BY <2>1, OfferLeaves
    <3>2. Sent' = Sent
      BY <2>1 DEF Sent
    <3> QED BY <1>2, <2>1, <3>1, <3>2 DEF Books
  <2>6. WaitersSleep'
    BY <1>2, <1>5, <2>1, <2>3 DEF WaitersSleep
  <2>7. stale' \subseteq Ops
    BY <1>1, <2>1
  <2> QED BY <1>1, <2>1, <2>4, <2>5, <2>6, <2>7 DEF InTurn
\* A step that leaves the channel alone.
<1>13. ASSUME UNCHANGED << at, chanVars, msgVars >>, Whole(thr'),
              Present(thr) \subseteq Present(thr'),
              \A g \in Fibers : g \in Awake(thr') =>
                                   g \in Awake(thr) \/ Canceled(thr', g),
              killed' \subseteq Fibers, broken' \in BOOLEAN,
              broken' => broken \/ stale # {}
       PROVE  P
  <2>1. /\ at' = at /\ bufsize' = bufsize /\ buf' = buf /\ asend' = asend
        /\ arecv' = arecv /\ stale' = stale /\ sends' = sends
        /\ received' = received /\ withdrawn' = withdrawn
    BY <1>13 DEF chanVars, msgVars
  <2>2. ChannelThread' /\ Waiters' /\ WaitsForCause' /\ Buffer'
    BY <1>1, <1>2, <1>13, <2>1
       DEF ChannelThread, ThreadSound, Waiters, WaitsForCause, Buffer
  <2>3. Books'
    <3>1. Offers' = Offers /\ Sent' = Sent
      BY <2>1 DEF Offers, OfferOf, Sent
    <3> QED BY <1>2, <2>1, <3>1 DEF Books
  <2>4. WaitersSleep'
    <3> SUFFICES ASSUME ~ harmed'
                 PROVE  /\ stale' = {} /\ ~ broken'
                        /\ (asend \cup arecv) \cap Awake(thr') = {}
      BY <2>1 DEF WaitersSleep
    <3>1. /\ stale = {} /\ ~ broken /\ (asend \cup arecv) \cap Awake(thr) = {}
          /\ \A g \in Fibers : InCall(g) => ~ Canceled(thr', g)
      BY <1>2, <1>5 DEF WaitersSleep
    <3>2. \A g \in asend \cup arecv : g \in Fibers /\ InCall(g)
      BY <1>1 DEF InCall, Ops
    <3> QED BY <1>13, <2>1, <3>1, <3>2
  <2> QED BY <1>1, <1>13, <2>1, <2>2, <2>3, <2>4 DEF InTurn
<1>14. ASSUME NEW f \in Fibers, PickStale(f) PROVE P
  <2>1. /\ stale # {} /\ thr' = thr /\ killed' = killed /\ broken' = TRUE
        /\ UNCHANGED << at, chanVars, msgVars >>
    BY <1>14 DEF PickStale
  <2> QED BY <1>1, <1>13, <2>1
<1>15. ASSUME NEW f \in Fibers, KillOrSignal(f) \/ ClearFlags(f),
              UNCHANGED << chanVars, msgVars, broken >>
       PROVE  P
  <2>1. CASE KillOrSignal(f)
    <3>1. PICK g \in Victims : /\ thr' = FiberSignal(thr, g) /\ at' = at
                               /\ killed' \in {killed, killed \cup {g}}
      BY <2>1 DEF KillOrSignal, Kill
    <3>2. g \in Fibers
      BY VictimsAssumption DEF VictimsAssumption
    <3>3. /\ Whole(thr') /\ Awake(thr') \subseteq Awake(thr) \cup {g}
          /\ Present(thr) \subseteq Present(thr')
          /\ thr'.flag[g] = thr.flag[g] \cup {"canceled"}
      BY <1>1, <3>1, <3>2, SignalLemma
    <3>4. Canceled(thr', g)
      BY <3>3 DEF Canceled
    <3> QED BY <1>1, <1>5, <1>13, <1>15, <3>1, <3>2, <3>3, <3>4
  <2>2. CASE ClearFlags(f)
    <3>1. /\ thr' = ClearFlag(thr, f, "canceled") /\ at' = at
          /\ killed' = killed \ {f}
      BY <2>2 DEF ClearFlags, Clear
    <3>2. /\ Whole(thr') /\ Awake(thr') = Awake(thr)
          /\ Present(thr') = Present(thr)
      BY <1>1, <3>1, FlagWhole DEF Flags
    <3> QED BY <1>1, <1>5, <1>13, <1>15, <3>1, <3>2
  <2> QED BY <1>15, <2>1, <2>2
<1>16. ASSUME NEW f \in Fibers, YieldStep(f) PROVE P
  <2>1. /\ thr.running = f /\ thr' = FiberYield(thr)
        /\ UNCHANGED << at, chanVars, msgVars >>
        /\ killed' = killed /\ broken' = broken
    BY <1>16 DEF YieldStep, Yield, Runs
  <2>2. /\ Whole(thr') /\ Awake(thr') = Awake(thr)
        /\ Present(thr) \subseteq Present(thr')
    BY <1>1, <2>1, YieldLemma
  <2> QED BY <1>1, <1>13, <2>1, <2>2
<1>17. ASSUME ReadyStep PROVE P
  <2>1. /\ thr.running = None /\ ~ Empty(thr, "ready") /\ thr' = RunFirst(thr)
        /\ UNCHANGED << at, chanVars, msgVars >>
        /\ killed' = killed /\ broken' = broken
    BY <1>17 DEF ReadyStep, Dispatch
  <2>2. /\ Whole(thr') /\ Awake(thr') \subseteq Awake(thr)
        /\ Present(thr) \subseteq Present(thr')
    BY <1>1, <2>1, DispatchLemma
  <2> QED BY <1>1, <1>13, <2>1, <2>2
<1>18. P
  BY <1>6, <1>7, <1>8, <1>9, <1>10, <1>11, <1>12, <1>14, <1>15, <1>16, <1>17
     DEF Next
<1>19. harmed' \in BOOLEAN
  BY <1>1, <1>5
<1> QED BY <1>18, <1>19 DEF ChannelInv

\* A message is once in an ordered buffer, or not at all.
LEMMA OccursIs ==
    ASSUME Buffer, NEW m
    PROVE  Occurs(m) = IF m \in Range(buf) THEN 1 ELSE 0
<1>1. /\ DOMAIN buf = 1..Len(buf) /\ Range(buf) = {buf[i] : i \in 1..Len(buf)}
      /\ IsInjective(buf)
  BY RangeIs, OrderedInjective DEF Buffer
<1>2. CASE m \in Range(buf)
  <2>1. PICK i \in 1..Len(buf) : m = buf[i]
    BY <1>1, <1>2
  <2>2. {j \in DOMAIN buf : buf[j] = m} = {i}
    BY <1>1, <2>1 DEF IsInjective
  <2> QED BY <1>2, <2>2, FS_Singleton DEF Occurs
<1>3. CASE m \notin Range(buf)
  <2>1. {j \in DOMAIN buf : buf[j] = m} = {}
    BY <1>1, <1>3
  <2> QED BY <1>3, <2>1, FS_EmptySet DEF Occurs
<1> QED BY <1>2, <1>3

\* How many of three places hold m, if one of them does at most.
LEMMA PlacesCount ==
    ASSUME NEW m, NEW A, NEW B, NEW C,
           A \cap B = {}, A \cap C = {}, B \cap C = {},
           NEW places,
           places[1] <=> m \in A, places[2] <=> m \in B, places[3] <=> m \in C
    PROVE  Cardinality({i \in 1..3 : places[i]})
               = IF m \in A \cup B \cup C THEN 1 ELSE 0
<1> DEFINE S == {i \in 1..3 : places[i]}
<1>1. /\ 1 \in S <=> m \in A
      /\ 2 \in S <=> m \in B
      /\ 3 \in S <=> m \in C
      /\ \A i \in S : i = 1 \/ i = 2 \/ i = 3
  OBVIOUS
<1> SUFFICES Cardinality(S) = IF m \in A \cup B \cup C THEN 1 ELSE 0
  OBVIOUS
<1> HIDE DEF S
<1>2. CASE m \in A \cup B \cup C
  <2>1. S = {1} \/ S = {2} \/ S = {3}
    BY <1>1, <1>2
  <2> QED BY <1>2, <2>1, FS_Singleton
<1>3. CASE m \notin A \cup B \cup C
  <2>1. S = {}
    BY <1>1, <1>3
  <2> QED BY <1>3, <2>1, FS_EmptySet
<1> QED BY <1>2, <1>3

\* The four places of the books are those that the run counts.
LEMMA BooksConserve == Buffer /\ Books => Conserved
<1> SUFFICES ASSUME Buffer, Books, NEW m \in Messages
             PROVE  LET offered == m[1] \in asend /\ m = OfferOf(m[1])
                        places  == << offered, m \in received, m \in withdrawn >>
                    IN  Occurs(m) + Cardinality({i \in 1..3 : places[i]})
                            = IF m[2] <= sends[m[1]] THEN 1 ELSE 0
  BY DEF Conserved, Buffer
<1> DEFINE offered == m[1] \in asend /\ m = OfferOf(m[1])
           places  == << offered, m \in received, m \in withdrawn >>
<1>1. offered <=> m \in Offers
  BY DEF Offers, OfferOf
<1>2. m \in Sent <=> m[2] <= sends[m[1]]
  BY DEF Sent
<1>3. /\ places[1] <=> m \in Offers
      /\ places[2] <=> m \in received
      /\ places[3] <=> m \in withdrawn
  BY <1>1
<1> HIDE DEF places, offered
<1>4. Cardinality({i \in 1..3 : places[i]})
         = IF m \in Offers \cup received \cup withdrawn THEN 1 ELSE 0
  BY <1>3, PlacesCount DEF Books
<1>5. Occurs(m) = IF m \in Range(buf) THEN 1 ELSE 0
  BY OccursIs
<1>6. Occurs(m) + Cardinality({i \in 1..3 : places[i]})
         = IF m[2] <= sends[m[1]] THEN 1 ELSE 0
  BY <1>2, <1>4, <1>5 DEF Books
<1> QED BY <1>6 DEF places, offered

\* The inductive invariant contains the invariants that the run checks.
LEMMA ChannelInvImplies ==
    ChannelInv => WaitsForCause /\ Conserved /\ NoWaiterLost /\ StaleNeedsCancel
<1> SUFFICES ASSUME ChannelInv
             PROVE  WaitsForCause /\ Conserved /\ NoWaiterLost /\ StaleNeedsCancel
  OBVIOUS
<1>1. ThreadTypeOK /\ RingsIntact(thr)
  BY WholeImplies DEF ChannelInv, ChannelThread, ThreadSound, ThreadTypeOK
<1>2. TypeOK
  <2>1. Sent \subseteq Messages
    BY DEF Sent
  <2> QED BY <1>1, <2>1, ChannelConstants
          DEF ChannelInv, Waiters, Buffer, Books, TypeOK
<1>3. \A f \in Fibers : Reachable(thr, f) \/ f \in asend \cup arecv
  <2>1. DOMAIN thr.ring = Rings
    BY <1>1 DEF ThreadTypeOK, Threads
  <2>2. \A f \in Present(thr) : Reachable(thr, f)
    BY <2>1 DEF Present, Reachable, In, Linked
  <2> QED BY <2>2 DEF ChannelInv, ChannelThread
<1>4. NoWaiterLost
  BY <1>1, <1>2, <1>3 DEF ChannelInv, Waiters, NoWaiterLost
<1>5. StaleNeedsCancel
  BY DEF ChannelInv, WaitersSleep, StaleNeedsCancel
<1> QED BY <1>4, <1>5, BooksConserve DEF ChannelInv

-----------------------------------------------------------------------------
(* The theorems *)

\* Stuttering keeps the invariant.
LEMMA ChannelStutter == ChannelInv /\ UNCHANGED vars => ChannelInv'
<1> SUFFICES ASSUME ChannelInv, UNCHANGED vars PROVE ChannelInv'
  OBVIOUS
<1>1. /\ thr' = thr /\ at' = at /\ bufsize' = bufsize /\ buf' = buf
      /\ asend' = asend /\ arecv' = arecv /\ stale' = stale
      /\ sends' = sends /\ received' = received /\ withdrawn' = withdrawn
      /\ killed' = killed /\ harmed' = harmed /\ broken' = broken
  BY DEF vars, codeVars, chanVars, msgVars
<1>2. Offers' = Offers /\ Sent' = Sent
  BY <1>1 DEF Offers, OfferOf, Sent
<1> QED BY <1>1, <1>2
        DEF ChannelInv, ChannelThread, ThreadSound, Waiters, Buffer,
            WaitsForCause, Books, WaitersSleep

\* The inductive invariant.
THEOREM ChannelInductive == Spec => []ChannelInv
<1>1. ChannelInv /\ [Next]_vars => ChannelInv'
  BY ChannelStep, ChannelStutter
<1> QED BY <1>1, ChannelInit, PTL DEF Spec

\* No fiber waits for what is there: senders wait only while the buffer is
\* full, receivers only while it is empty, and never both.
THEOREM ChannelWaitsForCause == Spec => []WaitsForCause
BY ChannelInductive, ChannelInvImplies, PTL

\* No message is lost, doubled or invented, whoever is killed.
THEOREM ChannelConserved == Spec => []Conserved
BY ChannelInductive, ChannelInvImplies, PTL

\* The types hold; fibers that wait are in the array of their call, and every
\* fiber is where something can bring it back.
THEOREM ChannelNoWaiterLost == Spec => []NoWaiterLost
BY ChannelInductive, ChannelInvImplies, PTL

\* No FIBER_ALT goes stale before a fiber is cancelled in its call.
THEOREM ChannelStaleNeedsCancel == Spec => []StaleNeedsCancel
BY ChannelInductive, ChannelInvImplies, PTL

\* The messages of one sender are received in the order of their sending.
THEOREM ChannelInOrder == Spec => InOrder
<1> DEFINE A == \A m \in received' \ received :
                   {n \in Messages : n[1] = m[1] /\ n[2] < m[2]}
                       \subseteq received \cup withdrawn
<1>1. ChannelInv /\ [Next]_vars => [A]_vars
  <2>1. ASSUME ChannelInv, Next PROVE A
    BY <2>1, ChannelStep DEF InTurn, Earlier
  <2> QED BY <2>1
<1> QED BY <1>1, ChannelInductive, PTL DEF Spec, InOrder

-----------------------------------------------------------------------------
(* What the calls report *)

\* Who is awake although its FIBER_ALT is in the channel was cancelled, and a
\* sender's message is where its FIBER_ALT says, or has been taken.
Reported ==
    /\ \A f \in killed : Canceled(thr, f)
    /\ \A f \in asend \cup arecv : f \in Awake(thr) => Canceled(thr, f)
    /\ \A f \in Fibers :
          at[f] = "send" => f \in asend \/ OfferOf(f) \in received \cup Range(buf)

\* Of what a signal does, what the reports depend on.
LEMMA SignalFlags ==
    ASSUME NEW t, Whole(t), NEW g \in Fibers, NEW u, u = FiberSignal(t, g)
    PROVE  /\ Awake(u) \subseteq Awake(t) \cup {g}
           /\ \A h \in Fibers \ {g} : u.flag[h] = t.flag[h]
           /\ u.flag[g] = t.flag[g] \cup {"canceled"}
BY SignalLemma

\* What is appended joins what is there.
LEMMA AppendedRange ==
    ASSUME NEW b \in Seq(Messages), NEW m \in Messages
    PROVE  Range(Append(b, m)) = Range(b) \cup {m}
<1>1. /\ DOMAIN b = 1..Len(b) /\ Len(b) \in Nat
      /\ DOMAIN Append(b, m) = 1..(Len(b) + 1) /\ Append(b, m)[Len(b) + 1] = m
      /\ \A i \in 1..Len(b) : Append(b, m)[i] = b[i]
  OBVIOUS
<1>2. Len(b) + 1 \in 1..(Len(b) + 1) /\ 1..Len(b) \subseteq 1..(Len(b) + 1)
  BY <1>1
<1>3. \A i \in 1..(Len(b) + 1) : i \in 1..Len(b) \/ i = Len(b) + 1
  BY <1>1
<1> QED BY <1>1, <1>2, <1>3 DEF Range

\* Only the fiber that has the processor comes back from its call.
LEMMA ReturnsRuns ==
    ASSUME ChannelInv, Next, NEW f \in Fibers, Returns(f)
    PROVE  thr.running = f
<1>1. at[f] # "run" /\ at'[f] = "run" /\ at \in [Fibers -> Places]
  BY DEF Returns, InCall, Ops, ChannelInv, ChannelThread, ThreadSound
<1>2. PICK g \in Fibers : SendBlocks(g) \/ RecvBlocks(g) \/ Return(g)
  BY <1>1 DEF Next, SendToWaiter, SendToBuffer, RecvFromWaiter, RecvFromBuffer,
              PickStale, KillOrSignal, Kill, ClearFlags, Clear, YieldStep, Yield,
              ReadyStep, Dispatch
<1>3. SendBlocks(g) => at' = [at EXCEPT ![g] = "send"]
  BY DEF SendBlocks, Suspend
<1>4. RecvBlocks(g) => at' = [at EXCEPT ![g] = "recv"]
  BY DEF RecvBlocks, Suspend
<1>5. Return(g) => at' = [at EXCEPT ![g] = "run"] /\ thr.running = g
  BY DEF Return, Resumed, Resume
<1> QED BY <1>1, <1>2, <1>3, <1>4, <1>5

\* A waiter's message is taken, and so is its FIBER_ALT.
LEMMA ReportedRecv ==
    ASSUME ChannelInv, Reported, NEW f \in Fibers, RecvFromWaiter(f)
    PROVE  Reported'
<1>1. /\ Runs(f) /\ at' = at /\ arecv' = arecv /\ sends' = sends
      /\ killed' = killed /\ Whole(thr) /\ buf \in Seq(Messages) /\ Ordered(buf)
      /\ Waiters /\ asend \subseteq Fibers /\ asend \subseteq Senders
  BY ChannelConstants
     DEF RecvFromWaiter, ChannelInv, ChannelThread, ThreadSound, Buffer, Waiters
<1>2. PICK s \in asend :
         /\ asend' = asend \ {s} /\ thr' = Woken(s)
         /\ buf' = IF buf = << >> THEN buf ELSE Append(Tail(buf), OfferOf(s))
         /\ received' = received \cup
               {IF buf = << >> THEN OfferOf(s) ELSE Head(buf)}
  BY DEF RecvFromWaiter, Dequeued, Refilled
<1>3. at[s] # "run" /\ OfferOf(s) \in Messages
  <2>1. at[s] = "send" /\ sends[s] >= 1 /\ sends \in [Senders -> 0..MaxSends]
    BY <1>1 DEF Waiters, ChannelInv, Books
  <2> QED BY <1>1, <2>1, OfferIs
<1>4. thr'.flag = thr.flag /\ Awake(thr') = Awake(thr) \cup {s}
  BY <1>1, <1>2, <1>3, WokenLemma
<1>5. received \cup Range(buf) \cup {OfferOf(s)} \subseteq
         received' \cup Range(buf')
  <2>1. CASE buf = << >>
    BY <1>2, <2>1
  <2>2. CASE buf # << >>
    <3>1. /\ Tail(buf) \in Seq(Messages)
          /\ Range(Tail(buf)) = Range(buf) \ {Head(buf)}
      BY <1>1, <2>2, OrderedTail
    <3>2. OfferOf(s) \in Range(buf') /\ Range(Tail(buf)) \subseteq Range(buf')
      <4>1. buf' = Append(Tail(buf), OfferOf(s))
        BY <1>2, <2>2
      <4> QED BY <1>3, <3>1, <4>1, AppendedRange
    <3> QED BY <1>2, <2>2, <3>1, <3>2
  <2> QED BY <2>1, <2>2
<1>6. \A g \in Fibers : OfferOf(g)' = OfferOf(g)
  BY <1>1 DEF OfferOf
<1>7. s \notin arecv
  BY <1>1 DEF Waiters
<1> QED BY <1>1, <1>2, <1>4, <1>5, <1>6, <1>7 DEF Reported, Canceled

\* Every step keeps that, and what a call reports is true.
LEMMA ReportedStep ==
    ASSUME ChannelInv, Reported, Next
    PROVE  Reported'
<1>1. /\ Whole(thr) /\ at \in [Fibers -> Places]
      /\ asend \subseteq Fibers /\ arecv \subseteq Fibers
      /\ asend \subseteq Senders
      /\ \A s \in asend : at[s] = "send"
      /\ \A r \in arecv : at[r] = "recv"
      /\ buf \in Seq(Messages) /\ Ordered(buf) /\ Books
      /\ None \notin Fibers
  BY ChannelConstants
     DEF ChannelInv, ChannelThread, ThreadSound, Waiters, Buffer
<1>2. ASSUME NEW f \in Fibers, SendToWaiter(f) PROVE Reported'
  <2>1. /\ Runs(f) /\ at[f] = "run" /\ MaySend(f)
        /\ sends' = [sends EXCEPT ![f] = @ + 1]
        /\ received' = received \cup {NextOf(f)}
        /\ at' = at /\ buf' = buf /\ asend' = asend /\ killed' = killed
    BY <1>2 DEF SendToWaiter, Runs
  <2>2. PICK r \in arecv : arecv' = arecv \ {r} /\ thr' = Woken(r)
    BY <1>2 DEF SendToWaiter, Dequeued
  <2>3. thr'.flag = thr.flag /\ Awake(thr') = Awake(thr) \cup {r}
    BY <1>1, <2>1, <2>2, WokenLemma
  <2>4. \A g \in Fibers : at[g] = "send" => OfferOf(g)' = OfferOf(g)
    BY <2>1, <1>1, NextIs DEF OfferOf, Books
  <2>5. r \notin asend
    BY <1>1
  <2> QED BY <1>1, <2>1, <2>2, <2>3, <2>4, <2>5 DEF Reported, Canceled
<1>3. ASSUME NEW f \in Fibers, SendToBuffer(f) PROVE Reported'
  <2>1. /\ at[f] = "run" /\ MaySend(f)
        /\ sends' = [sends EXCEPT ![f] = @ + 1] /\ buf' = Append(buf, NextOf(f))
        /\ received' = received /\ arecv' = arecv /\ thr' = thr
        /\ at' = at /\ asend' = asend /\ killed' = killed
    BY <1>3 DEF SendToBuffer, Runs
  <2>2. NextOf(f) \in Messages
    BY <1>1, <2>1, NextIs DEF Books
  <2>3. \A g \in Fibers : at[g] = "send" => OfferOf(g)' = OfferOf(g)
    BY <1>1, <2>1, NextIs DEF OfferOf, Books
  <2>4. Range(buf) \subseteq Range(buf')
    BY <1>1, <2>1, <2>2, AppendedRange
  <2> QED BY <2>1, <2>3, <2>4 DEF Reported, Canceled
<1>4. ASSUME NEW f \in Fibers, RecvFromBuffer(f) PROVE Reported'
  <2>1. /\ RecvCan /\ asend = {} /\ "send" \notin stale
        /\ buf' = Tail(buf) /\ received' = received \cup {Head(buf)}
        /\ thr' = thr /\ at' = at /\ asend' = asend
        /\ arecv' = arecv /\ sends' = sends /\ killed' = killed
    BY <1>4 DEF RecvFromBuffer
  <2>2. buf # << >>
    BY <2>1 DEF RecvCan
  <2>3. Range(buf') = Range(buf) \ {Head(buf)}
    BY <1>1, <2>1, <2>2, OrderedTail
  <2>4. \A g \in Fibers : OfferOf(g)' = OfferOf(g)
    BY <2>1 DEF OfferOf
  <2> QED BY <2>1, <2>3, <2>4 DEF Reported, Canceled
<1>5. ASSUME NEW f \in Fibers, SendBlocks(f) PROVE Reported'
  <2>1. /\ Runs(f) /\ at[f] = "run" /\ MaySend(f)
        /\ sends' = [sends EXCEPT ![f] = @ + 1]
        /\ asend' = asend \cup {f} /\ Suspend(f, "send", thr)
        /\ buf' = buf /\ arecv' = arecv /\ received' = received
        /\ killed' = killed
    BY <1>5 DEF SendBlocks, Runs
  <2>2. /\ thr'.flag = thr.flag
        /\ at'[f] = "send" /\ \A g \in Fibers \ {f} : at'[g] = at[g]
        /\ f \notin Awake(thr') /\ Awake(thr') \subseteq Awake(thr) \cup {None}
    BY <1>1, <2>1, BlocksLemma DEF Ops
  <2>3. \A g \in Fibers : at[g] = "send" => OfferOf(g)' = OfferOf(g)
    BY <2>1, <1>1, NextIs DEF OfferOf, Books
  <2> QED BY <1>1, <2>1, <2>2, <2>3 DEF Reported, Canceled
<1>6. ASSUME NEW f \in Fibers, RecvBlocks(f) PROVE Reported'
  <2>1. /\ Runs(f) /\ sends' = sends
        /\ arecv' = arecv \cup {f} /\ Suspend(f, "recv", thr)
        /\ buf' = buf /\ asend' = asend /\ received' = received
        /\ killed' = killed
    BY <1>6 DEF RecvBlocks
  <2>2. /\ thr'.flag = thr.flag
        /\ at'[f] = "recv" /\ \A g \in Fibers \ {f} : at'[g] = at[g]
        /\ f \notin Awake(thr') /\ Awake(thr') \subseteq Awake(thr) \cup {None}
    BY <1>1, <2>1, BlocksLemma DEF Ops
  <2>3. \A g \in Fibers : OfferOf(g)' = OfferOf(g)
    BY <2>1 DEF OfferOf
  <2> QED BY <1>1, <2>1, <2>2, <2>3 DEF Reported, Canceled
<1>7. ASSUME NEW f \in Fibers, Return(f) PROVE Reported'
  <2>1. /\ thr' = thr /\ at' = [at EXCEPT ![f] = "run"]
        /\ asend' = asend \ {f} /\ arecv' = arecv \ {f}
        /\ buf' = buf /\ sends' = sends /\ received' = received
        /\ killed' = killed
    BY <1>7 DEF Return, Resume
  <2>2. /\ \A g \in Fibers : OfferOf(g)' = OfferOf(g)
        /\ at'[f] = "run" /\ \A g \in Fibers \ {f} : at'[g] = at[g]
    BY <1>1, <2>1 DEF OfferOf
  <2> QED BY <2>1, <2>2 DEF Reported, Canceled
\* A step that leaves the channel alone.
<1>8. ASSUME UNCHANGED << at, chanVars, msgVars >>,
             \A g \in killed' : Canceled(thr', g),
             \A g \in asend \cup arecv : g \in Awake(thr') => Canceled(thr', g)
      PROVE  Reported'
  <2>1. /\ at' = at /\ buf' = buf /\ asend' = asend /\ arecv' = arecv
        /\ sends' = sends /\ received' = received
    BY <1>8 DEF chanVars, msgVars
  <2>2. \A g \in Fibers : OfferOf(g)' = OfferOf(g)
    BY <2>1 DEF OfferOf
  <2> QED BY <1>8, <2>1, <2>2 DEF Reported
<1>9. ASSUME NEW f \in Fibers, PickStale(f) PROVE Reported'
  BY <1>8, <1>9 DEF PickStale, Reported
<1>10. ASSUME NEW f \in Fibers, KillOrSignal(f),
              UNCHANGED << chanVars, msgVars, broken >>
       PROVE  Reported'
  <2>1. PICK g \in Victims : /\ thr' = FiberSignal(thr, g) /\ at' = at
                             /\ killed' \in {killed, killed \cup {g}}
    BY <1>10 DEF KillOrSignal, Kill
  <2>2. g \in Fibers
    BY VictimsAssumption DEF VictimsAssumption
  <2>3. /\ Awake(thr') \subseteq Awake(thr) \cup {g}
        /\ \A h \in Fibers \ {g} : thr'.flag[h] = thr.flag[h]
        /\ thr'.flag[g] = thr.flag[g] \cup {"canceled"}
    BY <1>1, <2>1, <2>2, SignalFlags
  <2>4. \A h \in Fibers : h = g \/ Canceled(thr, h) => Canceled(thr', h)
    BY <2>3 DEF Canceled
  <2>5. killed \subseteq Fibers
    BY DEF ChannelInv
  <2> QED BY <1>1, <1>8, <1>10, <2>1, <2>2, <2>3, <2>4, <2>5 DEF Reported
<1>11. ASSUME NEW f \in Fibers, ClearFlags(f),
              UNCHANGED << chanVars, msgVars, broken >>
       PROVE  Reported'
  <2>1. /\ thr' = ClearFlag(thr, f, "canceled") /\ at' = at
        /\ killed' = killed \ {f} /\ at[f] = "run"
    BY <1>11 DEF ClearFlags, Clear, Runs
  <2>2. /\ Awake(thr') = Awake(thr)
        /\ \A h \in Fibers \ {f} : thr'.flag[h] = thr.flag[h]
    BY <1>1, <2>1, FlagWhole DEF Flags
  <2>3. \A h \in Fibers \ {f} : Canceled(thr, h) => Canceled(thr', h)
    BY <2>2 DEF Canceled
  <2>4. killed \subseteq Fibers /\ f \notin asend \cup arecv
    BY <1>1, <2>1 DEF ChannelInv
  <2> QED BY <1>1, <1>8, <1>11, <2>1, <2>2, <2>3, <2>4 DEF Reported
<1>12. ASSUME NEW f \in Fibers, YieldStep(f) PROVE Reported'
  <2>1. /\ thr.running = f /\ thr' = FiberYield(thr)
        /\ UNCHANGED << at, chanVars, msgVars >> /\ killed' = killed
    BY <1>12 DEF YieldStep, Yield, Runs
  <2>2. thr'.flag = thr.flag /\ Awake(thr') = Awake(thr)
    BY <1>1, <2>1, YieldLemma
  <2> QED BY <1>8, <2>1, <2>2 DEF Reported, Canceled
<1>13. ASSUME ReadyStep PROVE Reported'
  <2>1. /\ thr.running = None /\ ~ Empty(thr, "ready") /\ thr' = RunFirst(thr)
        /\ UNCHANGED << at, chanVars, msgVars >> /\ killed' = killed
    BY <1>13 DEF ReadyStep, Dispatch
  <2>2. thr'.flag = thr.flag /\ Awake(thr') \subseteq Awake(thr)
    BY <1>1, <2>1, DispatchLemma
  <2> QED BY <1>8, <2>1, <2>2 DEF Reported, Canceled
<1> QED BY <1>2, <1>3, <1>4, <1>5, <1>6, <1>7, <1>9, <1>10, <1>11, <1>12, <1>13,
           ReportedRecv DEF Next

\* acl_channel_send and acl_channel_recv: a call that waited and was not
\* cancelled reports what was done for it, whoever else was cancelled.
THEOREM ChannelResultTrue == Spec => ResultTrue
<1> DEFINE A == \A f \in Fibers :
                   Returns(f) /\ ~ Canceled(thr, f) =>
                       IF at[f] = "send"
                       THEN Result(f) = "sent" /\ OfferOf(f) \in received \cup Range(buf)
                       ELSE Result(f) = "received" /\ f \notin arecv
<1>1. Init => Reported
  BY DEF Init, ThreadInit, Reported
<1>2. ChannelInv /\ Reported /\ [Next]_vars => Reported'
  <2>1. ASSUME Reported, UNCHANGED vars PROVE Reported'
    BY <2>1 DEF Reported, OfferOf, vars, codeVars, chanVars, msgVars
  <2> QED BY <2>1, ReportedStep
<1>3. ChannelInv /\ Reported /\ [Next]_vars => [A]_vars
  <2> SUFFICES ASSUME ChannelInv, Reported, Next, NEW f \in Fibers,
                      Returns(f), ~ Canceled(thr, f)
               PROVE  IF at[f] = "send"
                      THEN /\ Result(f) = "sent"
                           /\ OfferOf(f) \in received \cup Range(buf)
                      ELSE Result(f) = "received" /\ f \notin arecv
    OBVIOUS
  <2>1. thr.running = f
    BY ReturnsRuns
  <2>2. f \in Awake(thr) /\ f \notin killed /\ f \notin asend \cup arecv
    BY <2>1 DEF Awake, Reported
  <2> QED BY <2>2 DEF Returns, InCall, Ops, Result, Reported
<1> QED BY <1>1, <1>2, <1>3, ChannelInductive, PTL DEF Spec, ResultTrue
=============================================================================
