---------------------------- MODULE FiberSemProofs ----------------------------
(***************************************************************************)
(* Proofs about FiberSem, for any finite set of fibers, any of which may   *)
(* be killed, any bound of the semaphore and any buf.                      *)
(*                                                                         *)
(* The argument: a fiber leaves the ring of the semaphore by its own hand, *)
(* when its wait ends or starts again, or by a post, which takes it out of *)
(* its timer in the same step.  So a fiber that a post has chosen is ready *)
(* and no timer can fire for it any more: it looks at the semaphore unless *)
(* it is killed, and each unit that is there has such a fiber.             *)
(***************************************************************************)
EXTENDS FiberSem, FiberThreadInv

-----------------------------------------------------------------------------
(* The inductive invariant *)

\* A fiber that is in no ring of the thread is in that of the semaphore.
SemThread ==
    /\ ThreadSound
    /\ Fibers \ Range(waiting) \subseteq Present(thr)

SemQueue ==
    /\ num \in 0..MaxNum
    /\ buf \in Bufs
    /\ waiting \in Seq(Fibers)
    /\ IsInjective(waiting)
    /\ \A g \in Range(waiting) : Waits(g)

ChosenAwake ==
    \A g \in Fibers : ChosenByPost(g) =>
        g \in Awake(thr) /\ "timer" \notin thr.flag[g]

\* Until a chosen fiber is killed, every unit has a fiber to take it.
UnitsCovered ==
    ~ harmed => /\ ~ ChosenCancelled
                /\ waiting # << >> => num <= Cardinality(Chosen)

SemInv ==
    /\ SemThread
    /\ SemQueue
    /\ ChosenAwake
    /\ harmed \in BOOLEAN
    /\ UnitsCovered

-----------------------------------------------------------------------------
(* Lemmas *)

\* The rings and places of this component, from its assumptions.
LEMMA SemConstants ==
    /\ "ready" \in Rings /\ "timer" \in Rings \ {"ready"}
    /\ "run" \in Places /\ "wait" \in Places /\ "timed" \in Places
    /\ None \notin Fibers /\ MaxNum \in Nat
BY SemRings, SemPlaces, NoneAssumption, MaxNumAssumption
   DEF SemRings, SemPlaces, NoneAssumption, MaxNumAssumption

\* The ring of the semaphore is empty when it has no fiber.
LEMMA EmptyRange ==
    ASSUME NEW S, NEW s \in Seq(S)
    PROVE  s = << >> <=> Range(s) = {}
<1>1. Range(s) = {s[i] : i \in 1..Len(s)} /\ Len(s) \in Nat
  BY RangeIs
<1>2. s # << >> => 1 \in 1..Len(s)
  OBVIOUS
<1>3. s = << >> => 1..Len(s) = {}
  OBVIOUS
<1> QED BY <1>1, <1>2, <1>3

\* The chosen fibers are finitely many.
LEMMA ChosenFinite ==
    /\ IsFiniteSet(Chosen) /\ Cardinality(Chosen) \in Nat
    /\ IsFiniteSet(Chosen')
BY FibersAssumption, FS_Subset, FS_CardinalityType
   DEF FibersAssumption, Chosen

\* A step that only takes fibers out of the ring of the semaphore, or puts one
\* there when there is no unit, keeps the units covered if it takes as many
\* units as it takes chosen fibers away.
LEMMA Covered ==
    ASSUME UnitsCovered, harmed \in BOOLEAN, num \in Nat, num' \in Nat,
           harmed' = (harmed \/ ChosenCancelled'),
           waiting' # << >> => waiting # << >> \/ num' = 0,
           \/ num' <= num /\ (~ harmed' => Chosen \subseteq Chosen')
           \/ \E g : num' = num - 1 /\ (~ harmed' => Chosen \ {g} \subseteq Chosen')
           \/ \E g : /\ num' = num + 1
                     /\ ~ harmed' => /\ Chosen \cup {g} \subseteq Chosen'
                                     /\ g \notin Chosen
    PROVE  UnitsCovered'
<1> SUFFICES ASSUME ~ harmed', waiting' # << >>
             PROVE  ~ ChosenCancelled' /\ num' <= Cardinality(Chosen')
  BY DEF UnitsCovered
<1>1. ~ harmed /\ ~ ChosenCancelled'
  OBVIOUS
<1>2. Cardinality(Chosen') \in Nat /\ Cardinality(Chosen) \in Nat
  BY ChosenFinite, FS_CardinalityType
<1>3. \A S : S \subseteq Chosen' => Cardinality(S) <= Cardinality(Chosen')
  BY ChosenFinite, FS_Subset
<1>4. CASE num' = 0
  BY <1>1, <1>2, <1>4
<1>5. CASE waiting # << >>
  <2>1. num <= Cardinality(Chosen)
    BY <1>1, <1>5 DEF UnitsCovered
  <2>2. CASE num' <= num /\ Chosen \subseteq Chosen'
    BY <1>1, <1>2, <1>3, <2>1, <2>2
  <2>3. ASSUME NEW g, num' = num - 1, Chosen \ {g} \subseteq Chosen'
        PROVE  num' <= Cardinality(Chosen')
    <3>1. Cardinality(Chosen \ {g}) =
              IF g \in Chosen THEN Cardinality(Chosen) - 1
                             ELSE Cardinality(Chosen)
      BY ChosenFinite, FS_RemoveElement
    <3>2. Cardinality(Chosen \ {g}) <= Cardinality(Chosen')
      BY <1>3, <2>3
    <3>3. Cardinality(Chosen \ {g}) \in Nat
      BY ChosenFinite, FS_RemoveElement, FS_CardinalityType
    <3> QED BY <1>2, <2>1, <2>3, <3>1, <3>2, <3>3
  <2>4. ASSUME NEW g, num' = num + 1, g \notin Chosen,
               Chosen \cup {g} \subseteq Chosen'
        PROVE  num' <= Cardinality(Chosen')
    <3>1. Cardinality(Chosen \cup {g}) = Cardinality(Chosen) + 1
      BY <2>4, ChosenFinite, FS_AddElement
    <3>2. Cardinality(Chosen \cup {g}) <= Cardinality(Chosen')
      BY <1>3, <2>4
    <3> QED BY <1>2, <2>1, <2>4, <3>1, <3>2
  <2> QED BY <1>1, <2>2, <2>3, <2>4
<1> QED BY <1>4, <1>5

\* A fiber that is back from its switch is in no timer: its detaching changes
\* nothing.
LEMMA DetachedLemma ==
    ASSUME Whole(thr), NEW f \in Fibers, thr.running = f,
           NEW u, u = Detached(f)
    PROVE  /\ Whole(u) /\ SameBut(thr, u, "ring")
           /\ \A r \in Rings : Linked(u, r) = Linked(thr, r)
           /\ Awake(u) = Awake(thr) /\ Present(u) = Present(thr)
<1>1. thr \in Threads /\ f \notin Linked(thr, "timer")
  BY SemConstants DEF Whole, Sound, Unlinked
<1>2. ~ In(thr, "timer", f)
  BY <1>1 DEF In, Linked
<1>3. u = RingDetach(thr, thr.running)
  BY <1>2 DEF Detached, FiberTimerDel
<1> QED BY <1>3, DetachRunningLemma

\* A turn of the loop: the running fiber f of t is suspended, and no other
\* fiber is disturbed.
LEMMA BlockLemma ==
    ASSUME NEW t, Whole(t), NEW f \in Fibers, t.running = f,
           NEW place \in {"wait", "timed"}, NEW queue \in Seq(Fibers),
           IsInjective(queue), f \notin Range(queue),
           Block(f, place, t, queue)
    PROVE  /\ Whole(thr') /\ thr'.flag = t.flag
           /\ Present(t) \ {f} \subseteq Present(thr')
           /\ Awake(t) \ {f} \subseteq Awake(thr')
           /\ at' = [at EXCEPT ![f] = place]
           /\ waiting' \in Seq(Fibers) /\ IsInjective(waiting')
           /\ Range(waiting') = Range(queue) \cup {f}
<1>1. /\ at' = [at EXCEPT ![f] = place] /\ waiting' = Append(queue, f)
      /\ thr' = Switch(IF place = "timed" THEN FiberTimerAdd(t, f) ELSE t)
  BY DEF Block, Suspend
<1>2. /\ waiting' \in Seq(Fibers) /\ IsInjective(waiting')
      /\ Range(waiting') = Range(queue) \cup {f}
  BY <1>1, AppendedProperties
<1>3. CASE place = "timed"
  <2> DEFINE p == RingPrepend(RingDetach(t, f), "timer", f)
  <2>1. thr' = Switch(p)
    BY <1>1, <1>3 DEF FiberTimerAdd
  <2>2. /\ Whole(thr') /\ thr'.flag = t.flag
        /\ Present(t) \subseteq Present(thr')
        /\ Awake(t) \ {f} \subseteq Awake(thr')
    <3>1. p = RingPrepend(RingDetach(t, t.running), "timer", t.running)
      OBVIOUS
    <3> HIDE DEF p
    <3> QED BY <2>1, <3>1, SuspendLemma, SemConstants
  <2> QED BY <1>1, <1>2, <2>2
<1>4. CASE place = "wait"
  <2>1. thr' = Switch(t)
    BY <1>1, <1>4
  <2>2. Sound(t) /\ f \notin Linked(t, "ready")
    BY SemConstants DEF Whole, Unlinked
  <2>3. /\ Whole(thr') /\ thr'.flag = t.flag
        /\ Present(t) \ {f} \subseteq Present(thr')
        /\ Awake(t) \ {f} \subseteq Awake(thr')
    BY <2>1, <2>2, SwitchAwayLemma
  <2> QED BY <1>1, <1>2, <2>3
<1> QED BY <1>3, <1>4

\* A fiber that is made ready, seen from the post.
LEMMA MadeReady ==
    ASSUME NEW t, Whole(t), NEW h \in Fibers, h # t.running,
           NEW u, u = FiberReady(t, h) \/ u = FiberReady(RingDetach(t, h), h)
    PROVE  /\ Whole(u) /\ u.running = t.running /\ u.flag = t.flag
           /\ Awake(u) = Awake(t) \cup {h}
           /\ Present(u) = Present(t) \cup {h}
<1>1. /\ Whole(u) /\ u.running = t.running /\ u.flag = t.flag
      /\ u.status = [t.status EXCEPT ![h] = "ready"]
      /\ Linked(u, "ready") = Linked(t, "ready") \cup {h}
      /\ \A r \in Rings \ {"ready"} : Linked(u, r) = Linked(t, r) \ {h}
      /\ Awake(u) = Awake(t) \cup {h}
      /\ Present(u) = Present(t) \cup {h}
  BY WakeLemma
<1> QED BY <1>1

\* A post clears the timer flag of the fiber that it makes ready.
LEMMA WakeByPost ==
    ASSUME Whole(thr), NEW h \in Fibers, h # thr.running,
           NEW u, u = Wake(h)
    PROVE  /\ Whole(u) /\ u.running = thr.running
           /\ Awake(u) = Awake(thr) \cup {h}
           /\ Present(u) = Present(thr) \cup {h}
           /\ \A g \in Fibers \ {h} : u.flag[g] = thr.flag[g]
           /\ u.flag[h] = thr.flag[h] \ {"timer"}
<1> DEFINE c == ClearFlag(thr, h, "timer")
<1>1. /\ Whole(c) /\ c.running = thr.running
      /\ Awake(c) = Awake(thr) /\ Present(c) = Present(thr)
      /\ \A g \in Fibers \ {h} : c.flag[g] = thr.flag[g]
  BY FlagWhole DEF Flags
<1>2. c.flag[h] = thr.flag[h] \ {"timer"}
  BY DEF ClearFlag, Threads, Whole, Sound
<1>3. u = FiberReady(c, h)
  BY DEF Wake
<1> HIDE DEF c
<1>4. /\ Whole(u) /\ u.running = c.running /\ u.flag = c.flag
      /\ Awake(u) = Awake(c) \cup {h} /\ Present(u) = Present(c) \cup {h}
  <2>1. Whole(c) /\ h # c.running
    BY <1>1
  <2> QED BY <1>3, <2>1, MadeReady
<1> QED BY <1>1, <1>2, <1>4

-----------------------------------------------------------------------------
(* The invariant *)

\* What the fibers do outside of the semaphore are moves of their thread.
LEMMA ThreadMoves == ThreadStep => Moves(thr, at, thr', at')
<1> SUFFICES ASSUME ThreadStep PROVE Moves(thr, at, thr', at')
  OBVIOUS
<1>1. ASSUME NEW g \in Fibers, Yield(g) PROVE Yields(thr, at, thr', at', g)
  BY <1>1 DEF Yield, Runs, Yields
<1>2. ASSUME NEW g \in Fibers, Delay(g) PROVE Delays(thr, at, thr', at', g)
  BY <1>2 DEF Delay, Runs, Suspend, Delays
<1>3. ASSUME NEW g \in Fibers, DelayReturn(g)
      PROVE  DelayReturns(thr, at, thr', at', g)
  BY <1>3 DEF DelayReturn, Resumed, Resume, DelayReturns
<1>4. ASSUME NEW g \in Fibers, Clear(g) PROVE Clears(thr, at, thr', at', g)
  BY <1>4 DEF Clear, Runs, Clears
<1>5. ASSUME NEW g \in Fibers, NEW h \in Victims, Kill(g, h)
      PROVE  h \in Fibers /\ Kills(thr, at, thr', at', h)
  BY <1>5, VictimsAssumption DEF Kill, Kills, VictimsAssumption
<1>6. ASSUME NEW g \in Fibers, TimerExpires(g)
      PROVE  TimerEnds(thr, at, thr', at', g)
  BY <1>6 DEF TimerExpires, TimerEnds
<1>7. ASSUME Dispatch PROVE Dispatches(thr, at, thr', at')
  BY <1>7 DEF Dispatch, Dispatches
<1> QED BY <1>1, <1>2, <1>3, <1>4, <1>5, <1>6, <1>7
        DEF ThreadStep, FiberStep, Moves

\* They keep it sound, and leave those in calls where they are, or make them ready.
LEMMA ThreadSoundStep ==
    ASSUME ThreadSound, ThreadStep
    PROVE  /\ ThreadSound' /\ Present(thr) \subseteq Present(thr')
           /\ Kept(thr, thr')
           /\ \A g \in Fibers : \/ at'[g] = at[g]
                                \/ at[g] \in Outside /\ at'[g] \in Outside
           /\ \A g \in Fibers : at[g] \notin Outside
                                   => Undisturbed(thr, thr', g)
<1>1. Moves(thr, at, thr', at')
  BY ThreadMoves
<1>2. Whole(thr) /\ at \in [Fibers -> Places]
  BY DEF ThreadSound
<1>3. "run" \in Places /\ "delay" \in Places
  BY PlacesAssumption DEF PlacesAssumption
<1> QED BY <1>1, <1>2, <1>3, MovesLemma DEF ThreadSound

\* At the start nobody waits.
LEMMA SemInit == Init => SemInv
<1> SUFFICES ASSUME Init PROVE SemInv
  OBVIOUS
<1>1. /\ ThreadInv /\ \A g \in Fibers : at[g] = "run"
      /\ num \in 0..MaxNum /\ buf \in Bufs /\ waiting = << >> /\ harmed = FALSE
  <2>1. PICK order \in SetToSeqs(Fibers) : thr = FreshThread(order)
    BY DEF Init, ThreadInit
  <2>2. /\ Whole(thr) /\ Present(thr) = Fibers /\ thr.running = None
        /\ \A r \in Rings \ {"ready"} : Linked(thr, r) = {}
    BY <2>1, FreshStart
  <2>3. at \in [Fibers -> Places] /\ \A g \in Fibers : at[g] = "run"
    BY PlacesAssumption DEF Init, ThreadInit, PlacesAssumption
  <2> QED BY <2>2, <2>3 DEF Init, ThreadInv, ThreadSound
<1>2. IsInjective(<< >>) /\ Range(<< >>) = {} /\ << >> \in Seq(Fibers)
  BY DEF IsInjective, Range
<1>3. \A g \in Fibers : ~ ChosenByPost(g)
  BY <1>1 DEF ChosenByPost, Waits
<1>4. SemThread
  BY <1>1 DEF SemThread, ThreadInv
<1>5. SemQueue
  BY <1>1, <1>2, SemConstants DEF SemQueue
<1>6. ChosenAwake /\ UnitsCovered
  BY <1>1, <1>3 DEF ChosenAwake, UnitsCovered, ChosenCancelled
<1> QED BY <1>1, <1>4, <1>5, <1>6 DEF SemInv

\* Every call of the semaphore, and every step of the thread, keeps the
\* invariant.
LEMMA SemStep ==
    ASSUME SemInv, [Next]_vars
    PROVE  SemInv'
<1>1. /\ Whole(thr) /\ at \in [Fibers -> Places] /\ thr \in Threads
      /\ Fibers \ Range(waiting) \subseteq Present(thr)
      /\ waiting \in Seq(Fibers) /\ IsInjective(waiting)
      /\ Range(waiting) \subseteq Fibers
      /\ \A g \in Range(waiting) : Waits(g)
      /\ num \in Nat /\ num \in 0..MaxNum /\ buf \in Bufs
      /\ harmed \in BOOLEAN
      /\ ChosenAwake /\ UnitsCovered
  <2>1. waiting \in Seq(Fibers)
    BY DEF SemInv, SemQueue
  <2>2. Range(waiting) \subseteq Fibers
    BY <2>1, RangeIs
  <2> QED BY <2>1, <2>2, SemConstants
          DEF SemInv, SemThread, SemQueue, ThreadSound, Whole, Sound
<1>2. ASSUME NEW f \in Fibers, at[f] = "run"
      PROVE  f \notin Range(waiting) /\ f \notin Chosen /\ ~ ChosenByPost(f)
  BY <1>1, <1>2 DEF Waits, Chosen, ChosenByPost
<1> DEFINE P == SemThread' /\ SemQueue' /\ ChosenAwake' /\ UnitsCovered'
<1>3. ASSUME NEW f \in Fibers, Take(f), harmed' = (harmed \/ ChosenCancelled')
      PROVE  P
  <2>1. /\ num > 0 /\ num' = num - 1 /\ num' \in 0..MaxNum /\ num' \in Nat
        /\ thr' = thr /\ at' = at /\ buf' = buf /\ waiting' = waiting
    BY <1>1, <1>3, SemConstants DEF Take
  <2>2. SemThread'
    BY <1>1, <2>1 DEF SemThread, ThreadSound
  <2>3. SemQueue'
    BY <1>1, <2>1 DEF SemQueue, Waits
  <2>4. ChosenAwake' /\ Chosen' = Chosen
    BY <1>1, <2>1 DEF ChosenAwake, Chosen, ChosenByPost, Waits
  <2>5. UnitsCovered'
    BY <1>1, <1>3, <2>1, <2>4, Covered
  <2> QED BY <2>2, <2>3, <2>4, <2>5
\* A fiber f that queues, for the first time or again.
<1>4. ASSUME NEW f \in Fibers, thr.running = f,
             NEW t, Whole(t), SameBut(thr, t, "ring"),
             Awake(t) = Awake(thr), Present(t) = Present(thr),
             NEW place \in {"wait", "timed"}, NEW queue \in Seq(Fibers),
             IsInjective(queue), Range(queue) = Range(waiting) \ {f},
             Block(f, place, t, queue), num = 0, num' = num, buf' = buf,
             harmed' = (harmed \/ ChosenCancelled')
      PROVE  P
  <2>1. /\ Whole(thr') /\ thr'.flag = thr.flag
        /\ Present(thr) \ {f} \subseteq Present(thr')
        /\ Awake(thr) \ {f} \subseteq Awake(thr')
        /\ at' = [at EXCEPT ![f] = place]
        /\ waiting' \in Seq(Fibers) /\ IsInjective(waiting')
        /\ Range(waiting') = Range(waiting) \cup {f}
    <3>1. t.running = f /\ f \notin Range(queue) /\ t.flag = thr.flag
      BY <1>4 DEF SameBut
    <3>2. /\ Whole(thr') /\ thr'.flag = t.flag
          /\ Present(t) \ {f} \subseteq Present(thr')
          /\ Awake(t) \ {f} \subseteq Awake(thr')
          /\ at' = [at EXCEPT ![f] = place]
          /\ waiting' \in Seq(Fibers) /\ IsInjective(waiting')
          /\ Range(waiting') = Range(queue) \cup {f}
      BY <1>4, <3>1, BlockLemma
    <3> QED BY <1>4, <3>1, <3>2
  <2>2. place \in Places
    BY <1>4, SemConstants
  <2>3. SemThread'
    BY <1>1, <2>1, <2>2 DEF SemThread, ThreadSound
  <2>4. \A g \in Range(waiting') : Waits(g)'
    BY <1>1, <1>4, <2>1 DEF Waits
  <2>5. SemQueue'
    BY <1>1, <1>4, <2>1, <2>4 DEF SemQueue
  <2>6. \A g \in Fibers : ChosenByPost(g)' <=> ChosenByPost(g) /\ g # f
    BY <1>1, <2>1 DEF ChosenByPost, Waits
  <2>7. ChosenAwake'
    BY <1>1, <2>1, <2>6 DEF ChosenAwake
  <2>8. Chosen \ {f} \subseteq Chosen'
    BY <2>1, <2>6 DEF Chosen, Canceled
  <2>9. UnitsCovered'
    <3> SUFFICES ASSUME ~ harmed' PROVE ~ ChosenCancelled' /\ num' <= Cardinality(Chosen')
      BY DEF UnitsCovered
    <3>1. Cardinality(Chosen') \in Nat
      BY ChosenFinite, FS_CardinalityType
    <3>2. ~ ChosenCancelled'
      BY <1>4
    <3>3. num' <= Cardinality(Chosen')
      BY <1>4, <3>1
    <3> QED BY <3>2, <3>3
  <2> QED BY <2>3, <2>5, <2>7, <2>9
<1>5. ASSUME NEW f \in Fibers, NEW place \in {"wait", "timed"}, Wait(f, place),
             harmed' = (harmed \/ ChosenCancelled')
      PROVE  P
  <2>1. /\ thr.running = f /\ at[f] = "run" /\ num = 0
        /\ Block(f, place, thr, waiting) /\ num' = num /\ buf' = buf
    BY <1>1, <1>5 DEF Wait, Runs
  <2>2. Range(waiting) = Range(waiting) \ {f}
    BY <1>2, <2>1
  <2>3. SameBut(thr, thr, "ring")
    BY DEF SameBut
  <2> QED BY <1>1, <1>4, <1>5, <2>1, <2>2, <2>3
<1>6. ASSUME NEW f \in Fibers, WaitAgain(f),
             harmed' = (harmed \/ ChosenCancelled')
      PROVE  P
  <2>1. /\ thr.running = f /\ at[f] \in {"wait", "timed"} /\ num = 0
        /\ Block(f, at[f], Detached(f), Left(f)) /\ num' = num /\ buf' = buf
    BY <1>1, <1>6 DEF WaitAgain, Woken, Waits, UnitThere
  <2>2. /\ Left(f) \in Seq(Fibers) /\ IsInjective(Left(f))
        /\ Range(Left(f)) = Range(waiting) \ {f}
    BY <1>1, RemoveFirstProperties DEF Left
  <2> DEFINE t == Detached(f)
  <2>3. /\ Whole(t) /\ SameBut(thr, t, "ring")
        /\ Awake(t) = Awake(thr) /\ Present(t) = Present(thr)
    BY <1>1, <2>1, DetachedLemma
  <2>4. Block(f, at[f], t, Left(f))
    BY <2>1
  <2> HIDE DEF t
  <2> QED BY <1>4, <1>6, <2>1, <2>2, <2>3, <2>4
\* A fiber f that is back from its wait and leaves.
<1>7. ASSUME NEW f \in Fibers, thr.running = f, Waits(f),
             at' = [at EXCEPT ![f] = "run"], waiting' = Left(f), buf' = buf,
             \/ thr' = Detached(f)
             \/ thr' = ClearFlag(Detached(f), f, "timer"),
             \/ num' = num /\ (ChosenByPost(f) => Canceled(thr, f))
             \/ num > 0 /\ num' = num - 1,
             harmed' = (harmed \/ ChosenCancelled')
      PROVE  P
  <2>1. /\ waiting' \in Seq(Fibers) /\ IsInjective(waiting')
        /\ Range(waiting') = Range(waiting) \ {f}
    BY <1>1, <1>7, RemoveFirstProperties DEF Left
  <2>2. /\ Whole(thr') /\ thr'.running = f
        /\ Awake(thr') = Awake(thr) /\ Present(thr') = Present(thr)
        /\ \A g \in Fibers \ {f} : thr'.flag[g] = thr.flag[g]
    <3> DEFINE t == Detached(f)
    <3>1. /\ Whole(t) /\ SameBut(thr, t, "ring")
          /\ Awake(t) = Awake(thr) /\ Present(t) = Present(thr)
      BY <1>1, <1>7, DetachedLemma
    <3>2. thr' = t \/ thr' = ClearFlag(t, f, "timer")
      BY <1>7
    <3> HIDE DEF t
    <3>3. thr' = ClearFlag(t, f, "timer") =>
             /\ Whole(thr') /\ thr'.running = t.running
             /\ Awake(thr') = Awake(t) /\ Present(thr') = Present(t)
             /\ \A g \in Fibers \ {f} : thr'.flag[g] = t.flag[g]
      BY <3>1, FlagWhole DEF Flags
    <3> QED BY <1>7, <3>1, <3>2, <3>3 DEF SameBut
  <2>3. SemThread'
    <3>1. f \in Present(thr')
      BY <2>2 DEF Present
    <3>2. at' \in [Fibers -> Places]
      BY <1>1, <1>7, SemConstants
    <3> QED BY <1>1, <2>1, <2>2, <3>1, <3>2 DEF SemThread, ThreadSound
  <2>4. \A g \in Range(waiting') : Waits(g)'
    BY <1>1, <1>7, <2>1 DEF Waits
  <2>5. num' \in 0..MaxNum /\ num' \in Nat
    BY <1>1, <1>7, SemConstants
  <2>6. SemQueue'
    BY <1>1, <1>7, <2>1, <2>4, <2>5 DEF SemQueue
  <2>7. \A g \in Fibers : ChosenByPost(g)' <=> ChosenByPost(g) /\ g # f
    BY <1>1, <1>7, <2>1 DEF ChosenByPost, Waits
  <2>8. ChosenAwake'
    BY <1>1, <2>2, <2>7 DEF ChosenAwake
  <2>9. Chosen \ {f} \subseteq Chosen'
    BY <2>2, <2>7 DEF Chosen, Canceled
  <2>10. (ChosenByPost(f) => Canceled(thr, f)) => Chosen \subseteq Chosen'
    BY <2>9 DEF Chosen
  <2>11. waiting' # << >> => waiting # << >>
    BY <1>1, <2>1, EmptyRange
  <2>12. UnitsCovered'
    <3>1. CASE num' = num /\ (ChosenByPost(f) => Canceled(thr, f))
      BY <1>1, <1>7, <2>5, <2>10, <2>11, <3>1, Covered
    <3>2. CASE num' = num - 1
      BY <1>1, <1>7, <2>5, <2>9, <2>11, <3>2, Covered
    <3> QED BY <1>7, <3>1, <3>2
  <2> QED BY <2>3, <2>6, <2>8, <2>12
<1>8. ASSUME NEW f \in Fibers, WaitFails(f), harmed' = (harmed \/ ChosenCancelled')
      PROVE  P
  <2>1. /\ thr.running = f /\ Waits(f) /\ at' = [at EXCEPT ![f] = "run"]
        /\ waiting' = Left(f) /\ buf' = buf /\ num' = num
        /\ \/ Canceled(thr, f) /\ thr' = Detached(f)
           \/ /\ "timer" \in thr.flag[f]
              /\ thr' = ClearFlag(Detached(f), f, "timer")
    BY <1>8 DEF WaitFails, Resume
  <2>2. ChosenByPost(f) => Canceled(thr, f)
    BY <1>1, <2>1 DEF ChosenAwake
  <2>3. thr' = Detached(f) \/ thr' = ClearFlag(Detached(f), f, "timer")
    BY <2>1
  <2> QED BY <1>7, <1>8, <2>1, <2>2, <2>3
<1>9. ASSUME NEW f \in Fibers, WaitTakes(f), harmed' = (harmed \/ ChosenCancelled')
      PROVE  P
  <2>1. /\ thr.running = f /\ Waits(f) /\ at' = [at EXCEPT ![f] = "run"]
        /\ waiting' = Left(f) /\ buf' = buf /\ num > 0 /\ num' = num - 1
        /\ thr' = Detached(f)
    BY <1>9 DEF WaitTakes, Woken, Resume, UnitThere
  <2> QED BY <1>7, <1>9, <2>1
<1>10. ASSUME NEW f \in Fibers, Post(f), harmed' = (harmed \/ ChosenCancelled')
       PROVE  P
  <2>1. /\ thr.running = f /\ at[f] = "run" /\ num' = num + 1
        /\ num' \in 0..MaxNum /\ num' \in Nat /\ at' = at /\ buf' = buf
    BY <1>1, <1>10, SemConstants DEF Post, Runs
  <2>2. CASE waiting = << >>
    <3>1. thr' = thr /\ waiting' = waiting
      BY <1>10, <2>2 DEF Post, Wakes
    <3>2. SemThread'
      BY <1>1, <2>1, <3>1 DEF SemThread, ThreadSound
    <3>3. SemQueue'
      BY <1>1, <2>1, <3>1 DEF SemQueue, Waits
    <3>4. ChosenAwake' /\ (ChosenCancelled' <=> ChosenCancelled)
      BY <1>1, <2>1, <3>1
         DEF ChosenAwake, ChosenCancelled, ChosenByPost, Waits
    <3>5. UnitsCovered'
      BY <1>1, <1>10, <2>2, <3>1, <3>4 DEF UnitsCovered
    <3> QED BY <3>2, <3>3, <3>4, <3>5
  <2>3. CASE waiting # << >>
    <3> DEFINE h == Head(waiting)
               m == Wake(h)
    <3>1. /\ waiting' = Tail(waiting)
          /\ thr' = IF num' >= buf THEN FiberYield(m) ELSE m
      BY <1>10, <2>3 DEF Post, Wakes
    <3>2. /\ h \in Range(waiting) /\ h \in Fibers
          /\ waiting' \in Seq(Fibers) /\ IsInjective(waiting')
          /\ Range(waiting') = Range(waiting) \ {h}
      BY <1>1, <2>3, <3>1, HeadTailRange
    <3>3. h # f /\ Waits(h)
      BY <1>1, <1>2, <2>1, <3>2
    <3>4. /\ Whole(m) /\ m.running = f
          /\ Awake(m) = Awake(thr) \cup {h}
          /\ Present(m) = Present(thr) \cup {h}
          /\ \A g \in Fibers \ {h} : m.flag[g] = thr.flag[g]
          /\ m.flag[h] = thr.flag[h] \ {"timer"}
      BY <1>1, <2>1, <3>2, <3>3, WakeByPost
    <3> HIDE DEF m
    <3>5. /\ Whole(thr') /\ thr'.flag = m.flag /\ Awake(thr') = Awake(m)
          /\ Present(m) \subseteq Present(thr')
      <4>1. CASE thr' = FiberYield(m)
        BY <3>4, <4>1, YieldLemma
      <4> QED BY <3>1, <3>4, <4>1
    <3>6. /\ Whole(thr') /\ Awake(thr') = Awake(thr) \cup {h}
          /\ Present(thr) \cup {h} \subseteq Present(thr')
          /\ \A g \in Fibers \ {h} : thr'.flag[g] = thr.flag[g]
          /\ thr'.flag[h] = thr.flag[h] \ {"timer"}
      BY <3>4, <3>5
    <3> HIDE DEF h
    <3>7. SemThread'
      BY <1>1, <2>1, <3>2, <3>6 DEF SemThread, ThreadSound
    <3>8. SemQueue'
      BY <1>1, <2>1, <3>2 DEF SemQueue, Waits
    <3>9. \A g \in Fibers : ChosenByPost(g)' <=> ChosenByPost(g) \/ g = h
      BY <1>1, <2>1, <3>2, <3>3 DEF ChosenByPost, Waits
    <3>10. ChosenAwake'
      BY <1>1, <3>6, <3>9 DEF ChosenAwake
    \* Until a chosen fiber is killed, h is one that will take the new unit.
    <3>11. ~ harmed' => Chosen \cup {h} \subseteq Chosen' /\ h \notin Chosen
      <4> SUFFICES ASSUME ~ harmed'
                   PROVE  Chosen \cup {h} \subseteq Chosen' /\ h \notin Chosen
        OBVIOUS
      <4>1. ~ ChosenCancelled'
        BY <1>10
      <4>2. \A g \in Fibers : ChosenByPost(g)' => g \in Chosen'
        BY <4>1 DEF ChosenCancelled, Chosen
      <4> QED BY <3>2, <3>9, <4>2 DEF Chosen, ChosenByPost
    <3>12. UnitsCovered'
      BY <1>1, <1>10, <2>1, <2>3, <3>11, Covered
    <3> QED BY <3>7, <3>8, <3>10, <3>12
  <2> QED BY <2>2, <2>3
<1>11. ASSUME ThreadStep, UNCHANGED semVars,
              harmed' = (harmed \/ ChosenCancelled')
       PROVE  P
  <2>1. /\ ThreadSound' /\ Present(thr) \subseteq Present(thr')
        /\ \A g \in Fibers : \/ at'[g] = at[g]
                             \/ at[g] \in Outside /\ at'[g] \in Outside
        /\ \A g \in Fibers : at[g] \notin Outside => Undisturbed(thr, thr', g)
    BY <1>1, <1>11, ThreadSoundStep DEF ThreadSound
  <2>2. num' = num /\ buf' = buf /\ waiting' = waiting
    BY <1>11 DEF semVars
  <2>3. \A g \in Fibers : Waits(g)' <=> Waits(g)
    BY <2>1 DEF Waits, Outside
  <2>4. SemThread' /\ SemQueue'
    BY <1>1, <2>1, <2>2, <2>3 DEF SemThread, SemQueue
  <2>5. \A g \in Fibers : ChosenByPost(g)' <=> ChosenByPost(g)
    BY <2>2, <2>3 DEF ChosenByPost
  \* Ready or running, a chosen fiber is in no timer.
  <2>6. ASSUME NEW g \in Fibers, ChosenByPost(g)
        PROVE  g \in Awake(thr') /\ "timer" \notin thr'.flag[g]
    <3>1. Undisturbed(thr, thr', g)
      BY <2>1, <2>6 DEF ChosenByPost, Waits, Outside
    <3>2. g \in Awake(thr) /\ "timer" \notin thr.flag[g]
      BY <1>1, <2>6 DEF ChosenAwake
    <3>3. g \notin Linked(thr, "timer")
      BY <1>1, <3>2, NotAwake, SemConstants
    <3> QED BY <3>1, <3>2, <3>3 DEF Undisturbed
  <2>7. ChosenAwake'
    BY <2>5, <2>6 DEF ChosenAwake
  <2>8. ~ harmed' => Chosen \subseteq Chosen'
    <3> SUFFICES ASSUME ~ harmed' PROVE Chosen \subseteq Chosen'
      OBVIOUS
    <3>1. ~ ChosenCancelled'
      BY <1>11
    <3> QED BY <2>5, <3>1 DEF Chosen, ChosenCancelled
  <2>9. UnitsCovered'
    BY <1>1, <1>11, <2>2, <2>8, Covered
  <2> QED BY <2>4, <2>7, <2>9
<1>12. CASE UNCHANGED vars
  <2>1. /\ thr' = thr /\ at' = at /\ num' = num /\ buf' = buf
        /\ waiting' = waiting /\ harmed' = harmed
    BY <1>12 DEF vars, codeVars, semVars
  <2>2. SemThread'
    BY <1>1, <2>1 DEF SemThread, ThreadSound
  <2>3. SemQueue'
    BY <1>1, <2>1 DEF SemQueue, Waits
  <2>4. /\ ChosenAwake' /\ (ChosenCancelled' <=> ChosenCancelled)
        /\ Chosen' = Chosen
    BY <1>1, <2>1 DEF ChosenAwake, ChosenCancelled, Chosen, ChosenByPost, Waits
  <2>5. UnitsCovered'
    BY <1>1, <2>1, <2>4 DEF UnitsCovered
  <2> QED BY <1>1, <2>1, <2>2, <2>3, <2>4, <2>5 DEF SemInv
<1>13. CASE Next
  <2>1. P
    BY <1>3, <1>5, <1>6, <1>8, <1>9, <1>10, <1>11, <1>13 DEF Next
  <2>2. harmed' \in BOOLEAN
    BY <1>1, <1>13 DEF Next
  <2> QED BY <2>1, <2>2 DEF SemInv
<1> QED BY <1>12, <1>13

\* The inductive invariant contains the invariants that the run checks.
LEMMA SemInvImplies == SemInv => StateIntact /\ ChosenNotTimedOut /\ LossNeedsKill
<1> SUFFICES ASSUME SemInv PROVE StateIntact /\ ChosenNotTimedOut /\ LossNeedsKill
  OBVIOUS
<1>1. ThreadTypeOK /\ RingsIntact(thr)
  BY WholeImplies DEF SemInv, SemThread, ThreadSound, ThreadTypeOK
<1>2. TypeOK
  BY <1>1 DEF SemInv, SemQueue, TypeOK
<1>3. \A f \in Fibers : Reachable(thr, f) \/ f \in Range(waiting)
  <2>1. DOMAIN thr.ring = Rings
    BY <1>1 DEF ThreadTypeOK, Threads
  <2>2. \A f \in Present(thr) : Reachable(thr, f)
    BY <2>1 DEF Present, Reachable, In, Linked
  <2> QED BY <2>2 DEF SemInv, SemThread
<1>4. StateIntact
  BY <1>1, <1>2, <1>3 DEF StateIntact, SemInv, SemQueue
<1>5. ChosenNotTimedOut
  BY DEF SemInv, ChosenAwake, ChosenNotTimedOut
<1>6. LossNeedsKill
  BY DEF SemInv, UnitsCovered, LossNeedsKill, NoLostWakeup
<1> QED BY <1>4, <1>5, <1>6

-----------------------------------------------------------------------------
(* The theorems *)

\* The inductive invariant.
THEOREM SemInductive == Spec => []SemInv
<1>1. SemInv /\ [Next]_vars => SemInv'
  BY SemStep
<1> QED BY <1>1, SemInit, PTL DEF Spec

\* The types hold; no entry is linked twice; only waiters are in the ring of
\* the semaphore, and every fiber is where something can bring it back.
THEOREM SemStateIntact == Spec => []StateIntact
BY SemInductive, SemInvImplies, PTL

\* A fiber that a post has chosen never goes away as one that timed out.
THEOREM SemChosenNotTimedOut == Spec => []ChosenNotTimedOut
BY SemInductive, SemInvImplies, PTL

\* No wake-up is lost before a fiber that a post has chosen is killed.
THEOREM SemLossNeedsKill == Spec => []LossNeedsKill
BY SemInductive, SemInvImplies, PTL
=============================================================================
