--------------------------- MODULE FiberLockProofs ---------------------------
(***************************************************************************)
(* Proofs about FiberLock, for any finite set of fibers, any of which may  *)
(* be killed or misled by trylock: the invariants that the run checks on   *)
(* three fibers.                                                           *)
(*                                                                         *)
(* The argument: the owner knows (OwnerKnows), because unlock only names a *)
(* fiber of the waiting ring, which is in __lock (OnlyWaitersQueued), and  *)
(* makes it ready; a ready fiber stays ready until it runs, and when it    *)
(* runs __lock looks at owner and not at what has woken it.                *)
(*                                                                         *)
(* The second half is the refinement of FairLock, whose queue is the       *)
(* waiting ring as a sequence: each operator of FiberOps leaves such a     *)
(* ring alone, appends to it, or removes one fiber.                        *)
(***************************************************************************)
EXTENDS FiberLock, FiberThreadInv

LockInv ==
    /\ ThreadInv
    /\ owner \in Fibers \cup {None}
    /\ holds \subseteq Fibers
    /\ MutualExclusion
    /\ NoStrandedWaiter
    /\ OnlyWaitersQueued
    /\ fatal \in BOOLEAN
    /\ FatalIfMisled
    /\ owner \notin {None} \cup Misled =>
          \/ owner \in holds
          \/ at[owner] = "lock" /\ owner \in Awake(thr)

\* The rings and places of this component, from its assumptions.
LEMMA LockConstants ==
    /\ "waiting" \in Rings \ {"ready", "timer"} /\ "ready" \in Rings
    /\ "lock" \in Places /\ "run" \in Places
    /\ None \notin Fibers
BY LockRings, LockPlaces, NoneAssumption
   DEF LockRings, LockPlaces, NoneAssumption

\* The two invariants about the waiting ring, in terms of its set of fibers.
LEMMA Waiters ==
    ASSUME thr \in Threads
    PROVE  /\ NoStrandedWaiter <=> (owner = None => Linked(thr, "waiting") = {})
           /\ OnlyWaitersQueued <=>
                 \A g \in Linked(thr, "waiting") :
                    at[g] = "lock" /\ thr.status[g] = "suspend"
BY LockConstants, LinkedFacts DEF NoStrandedWaiter, OnlyWaitersQueued

\* The inductive invariant contains the invariants that the runs check.
LEMMA LockInvImplies ==
    LockInv => TypeOK /\ NoFiberLost /\ OwnerKnows
<1> SUFFICES ASSUME LockInv PROVE TypeOK /\ NoFiberLost /\ OwnerKnows
  OBVIOUS
<1>1. ThreadTypeOK /\ NoFiberLost
  BY WholeImplies
     DEF LockInv, ThreadInv, ThreadSound, ThreadTypeOK, NoFiberLost
<1>2. TypeOK
  BY <1>1 DEF LockInv, TypeOK
<1>3. \A g : In(thr, "ready", g) <=> g \in Linked(thr, "ready")
  BY DEF In, Linked
<1>4. OwnerKnows
  BY <1>3 DEF LockInv, OwnerKnows, Awake
<1> QED BY <1>1, <1>2, <1>4

\* What the fibers do outside of the lock are moves of their thread.
LEMMA ThreadMoves == ThreadStep => Moves(thr, at, thr', at')
<1> SUFFICES ASSUME ThreadStep PROVE Moves(thr, at, thr', at')
  OBVIOUS
<1>1. ASSUME NEW g \in Fibers, Yield(g) PROVE Yields(thr, at, thr', at', g)
  BY <1>1 DEF Yield, Runs, Yields
<1>2. ASSUME NEW g \in Fibers, Delay(g) PROVE Delays(thr, at, thr', at', g)
  BY <1>2 DEF Delay, Runs, Suspend, Delays
<1>3. ASSUME NEW g \in Fibers, DelayReturn(g)
      PROVE  DelayReturns(thr, at, thr', at', g)
  BY <1>3 DEF DelayReturn, Resumed, Resume, DelayReturns
<1>4. ASSUME NEW g \in Fibers, Clear(g) PROVE Clears(thr, at, thr', at', g)
  BY <1>4 DEF Clear, Runs, Clears
<1>5. ASSUME NEW g \in Fibers, NEW h \in Victims, Kill(g, h)
      PROVE  h \in Fibers /\ Kills(thr, at, thr', at', h)
  BY <1>5, VictimsAssumption DEF Kill, Kills, VictimsAssumption
<1>6. ASSUME NEW g \in Fibers, TimerExpires(g)
      PROVE  TimerEnds(thr, at, thr', at', g)
  BY <1>6 DEF TimerExpires, TimerEnds
<1>7. ASSUME Dispatch PROVE Dispatches(thr, at, thr', at')
  BY <1>7 DEF Dispatch, Dispatches
<1> QED BY <1>1, <1>2, <1>3, <1>4, <1>5, <1>6, <1>7
        DEF ThreadStep, FiberStep, Moves

\* They keep it sound, and leave those in calls where they are, or make them ready.
LEMMA ThreadStepLemma ==
    ASSUME ThreadInv, ThreadStep
    PROVE  /\ ThreadInv'
           /\ Kept(thr, thr')
           /\ \A g \in Fibers : \/ at'[g] = at[g]
                                \/ at[g] \in Outside /\ at'[g] \in Outside
           /\ \A g \in Fibers : at[g] \notin Outside
                                   => Undisturbed(thr, thr', g)
<1>1. Moves(thr, at, thr', at')
  BY ThreadMoves
<1>2. Whole(thr) /\ at \in [Fibers -> Places]
  BY DEF ThreadInv, ThreadSound
<1>3. "run" \in Places /\ "delay" \in Places
  BY PlacesAssumption DEF PlacesAssumption
<1>4. Present(thr') \subseteq Fibers
  BY DEF Present
<1> QED BY <1>1, <1>2, <1>3, <1>4, MovesLemma DEF ThreadInv, ThreadSound

\* At the start nobody has the lock and nobody waits.
LEMMA LockInit == Init => LockInv
<1> SUFFICES ASSUME Init PROVE LockInv
  OBVIOUS
<1>1. /\ ThreadInv /\ Linked(thr, "waiting") = {}
      /\ owner = None /\ holds = {} /\ fatal = FALSE
  <2>1. PICK order \in SetToSeqs(Fibers) : thr = FreshThread(order)
    BY DEF Init, ThreadInit
  <2>2. /\ Whole(thr) /\ Present(thr) = Fibers /\ thr.running = None
        /\ \A r \in Rings \ {"ready"} : Linked(thr, r) = {}
    BY <2>1, FreshStart
  <2>3. at \in [Fibers -> Places] /\ \A g \in Fibers : at[g] = "run"
    BY PlacesAssumption DEF Init, ThreadInit, PlacesAssumption
  <2> QED BY <2>2, <2>3, LockConstants DEF Init, ThreadInv, ThreadSound
<1>2. thr \in Threads
  BY <1>1 DEF ThreadInv, ThreadSound, Whole, Sound
<1>3. NoStrandedWaiter /\ OnlyWaitersQueued
  BY <1>1, <1>2, Waiters
<1> QED BY <1>1, <1>3 DEF LockInv, MutualExclusion, FatalIfMisled

-----------------------------------------------------------------------------
(* The steps *)

\* Every call of the lock, and every step of the thread, keeps the invariant.
LEMMA LockStep ==
    ASSUME LockInv, [Next]_vars
    PROVE  LockInv'
<1> DEFINE W == Linked(thr, "waiting")
           WaitersOK == \A g \in W : at[g] = "lock" /\ thr.status[g] = "suspend"
           OwnerOK == owner \notin {None} \cup Misled =>
               \/ owner \in holds
               \/ at[owner] = "lock" /\ owner \in Awake(thr)
<1>1. /\ Whole(thr) /\ at \in [Fibers -> Places] /\ thr \in Threads
      /\ Present(thr) = Fibers /\ Present(thr') \subseteq Fibers
      /\ W \subseteq Fibers
      /\ owner = None => W = {}
      /\ WaitersOK /\ OwnerOK
      /\ fatal \in BOOLEAN /\ (fatal => thr.running \in Misled)
      /\ \A g \in holds \ Misled : owner = g
      /\ owner \in Fibers \cup {None} /\ holds \subseteq Fibers
  <2>1. thr \in Threads
    BY DEF LockInv, ThreadInv, ThreadSound, Whole, Sound
  <2> QED BY <2>1, Waiters, LinkedFacts, LockConstants
          DEF LockInv, ThreadInv, ThreadSound, Present, MutualExclusion,
              FatalIfMisled
\* It is enough to look at the waiting ring as a set.
<1>2. SUFFICES /\ ThreadInv' /\ (owner' = None => W' = {})
               /\ WaitersOK' /\ OwnerOK'
               /\ fatal' \in BOOLEAN /\ (fatal' => thr'.running \in Misled)
               /\ \A g \in holds' \ Misled : owner' = g
               /\ owner' \in Fibers \cup {None} /\ holds' \subseteq Fibers
  <2>1. ThreadInv' => thr' \in Threads
    BY DEF ThreadInv, ThreadSound, Whole, Sound
  <2>2. thr' \in Threads =>
           /\ NoStrandedWaiter' <=> (owner' = None => W' = {})
           /\ OnlyWaitersQueued' <=> WaitersOK'
    BY Waiters, LockConstants, LinkedFacts
       DEF NoStrandedWaiter, OnlyWaitersQueued
  <2> QED BY <2>1, <2>2 DEF LockInv, MutualExclusion, FatalIfMisled
<1> DEFINE P == /\ ThreadInv' /\ (owner' = None => W' = {})
                /\ WaitersOK' /\ OwnerOK'
                /\ fatal' \in BOOLEAN /\ (fatal' => thr'.running \in Misled)
                /\ \A g \in holds' \ Misled : owner' = g
                /\ owner' \in Fibers \cup {None} /\ holds' \subseteq Fibers
\* A fiber in its own code that does not hold the lock does not own it, unless
\* it was misled.
<1>3. ASSUME NEW f \in Fibers \ Misled, Runs(f), f \notin holds
      PROVE  owner # f
  BY <1>1, <1>3, LockConstants DEF Runs
\* Only a misled fiber reaches the assert.
<1>assert. ASSUME ~ fatal, NEW f \in Fibers, Runs(f), f \notin holds,
              AssertNotOwner(f)
       PROVE  P
  <2>1. f \in Misled /\ thr.running = f
    BY <1>3, <1>assert DEF AssertNotOwner, Runs
  <2>2. thr' = thr /\ at' = at
    BY <1>assert DEF AssertNotOwner
  <2>3. ThreadInv'
    BY <1>1, <2>2 DEF ThreadInv, ThreadSound
  <2> QED BY <1>1, <1>assert, <2>1, <2>2, <2>3 DEF AssertNotOwner
<1>4. ASSUME ~ fatal, NEW f \in Fibers, LockFree(f) PROVE P
  <2>1. /\ owner = None /\ owner' = f /\ holds' = holds \cup {f}
        /\ thr' = thr /\ at' = at /\ fatal' = fatal
    BY <1>4 DEF LockFree
  <2>2. holds \subseteq Misled
    BY <1>1, <2>1, LockConstants
  <2>3. ThreadInv' /\ W' = W /\ WaitersOK'
    BY <1>1, <2>1 DEF ThreadInv, ThreadSound
  <2>4. OwnerOK' /\ fatal' = FALSE
    BY <1>1, <1>4, <2>1
  <2>5. /\ owner' # None /\ owner' \in Fibers
        /\ holds' \ Misled \subseteq {f} /\ holds' \subseteq Fibers
    BY <1>1, <2>1, <2>2, LockConstants
  <2> QED BY <2>1, <2>3, <2>4, <2>5
<1>5. ASSUME ~ fatal, NEW f \in Fibers, LockBlock(f) PROVE P
  <2> SUFFICES ASSUME ~ AssertNotOwner(f) PROVE P
    BY <1>5, <1>assert DEF LockBlock
  <2>1. /\ thr.running = f /\ at[f] = "run" /\ owner # None /\ owner # f
        /\ thr' = Switch(RingPrepend(thr, "waiting", f))
        /\ at' = [at EXCEPT ![f] = "lock"]
        /\ owner' = owner /\ holds' = holds /\ fatal' = FALSE
    BY <1>1, <1>5 DEF LockBlock, Suspend, Runs, lockVars
  <2>2. /\ Whole(thr') /\ W' = W \cup {f} /\ Present(thr) \subseteq Present(thr')
        /\ Awake(thr) \ {f} \subseteq Awake(thr')
        /\ thr'.status[f] = "suspend"
        /\ \A g \in Fibers \ Awake(thr) : thr'.status[g] = thr.status[g]
    BY <1>1, <2>1, SuspendLemma, LockConstants
  <2>3. WaitersOK'
    BY <1>1, <2>1, <2>2, NotAwake, LockConstants
  <2> QED BY <1>1, <2>1, <2>2, <2>3, LockConstants DEF ThreadInv, ThreadSound
<1>6. ASSUME ~ fatal, NEW f \in Fibers, LockReturn(f) PROVE P
  <2>1. /\ thr.running = f /\ at[f] = "lock"
        /\ thr' = RingDetach(thr, f)
        /\ at' = [at EXCEPT ![f] = "run"]
        /\ holds' = IF owner = f THEN holds \cup {f} ELSE holds
        /\ owner' = owner /\ fatal' = FALSE
    BY <1>1, <1>6 DEF LockReturn, Resumed, Resume, LockResult
  <2>2. /\ Sound(thr') /\ thr'.status = thr.status /\ thr'.running = f
        /\ \A r \in Rings : Linked(thr', r) = Linked(thr, r)
    <3>1. \A r \in Rings : Linked(thr, r) \ {f} = Linked(thr, r)
      BY <1>1, <2>1 DEF Whole, Unlinked
    <3>2. Sound(thr)
      BY <1>1 DEF Whole
    <3>3. /\ Sound(thr') /\ SameBut(thr, thr', "ring")
          /\ \A r \in Rings : Linked(thr', r) = Linked(thr, r) \ {f}
      BY <2>1, <3>2, DetachLemma
    <3> QED BY <2>1, <3>1, <3>3 DEF SameBut
  <2>3. Whole(thr') /\ Awake(thr') = Awake(thr) /\ Present(thr') = Present(thr)
    BY <1>1, <2>1, <2>2, LockConstants DEF Whole, Unlinked, Awake, Present
  <2>4. f \notin W
    BY <1>1, <2>1, LockConstants DEF Whole, Unlinked
  <2>5. WaitersOK'
    BY <1>1, <2>1, <2>2, <2>4, LockConstants
  <2>6. OwnerOK'
    BY <1>1, <2>1, <2>3
  <2>7. ThreadInv'
    BY <1>1, <2>1, <2>3, LockConstants DEF ThreadInv, ThreadSound
  <2>8. \A g \in holds' \ Misled : owner' = g
    BY <1>1, <2>1
  <2>9. W' = W
    BY <2>2, LockConstants
  <2> QED BY <1>1, <2>1, <2>5, <2>6, <2>7, <2>8, <2>9
<1>7. ASSUME ~ fatal, NEW f \in Fibers, TryLock(f) PROVE P
  <2>1. Runs(f) /\ f \notin holds
    BY <1>7 DEF TryLock
  <2> SUFFICES ASSUME ~ AssertNotOwner(f) PROVE P
    BY <1>7, <1>assert, <2>1 DEF TryLock
  <2>2. /\ owner' = IF owner = None THEN f ELSE owner
        /\ holds' \subseteq holds \cup {f}
        /\ f \notin Misled => (f \in holds' <=> owner = None)
        /\ thr' = thr /\ at' = at /\ fatal' = FALSE
        /\ holds \subseteq holds'
    BY <1>1, <1>7, <2>1
       DEF TryLock, TryLockOwner, TryLockResult, TakenForSuccess
  <2>3. ThreadInv' /\ W' = W /\ WaitersOK'
    BY <1>1, <2>2 DEF ThreadInv, ThreadSound
  <2>4. holds' \subseteq Fibers
    BY <1>1, <2>2
  <2>5. CASE owner = None
    <3>1. owner' = f /\ f # None /\ holds' \subseteq Misled \cup {f}
      BY <1>1, <2>2, <2>5, LockConstants
    <3> QED BY <1>1, <2>2, <2>3, <2>4, <2>5, <3>1
  <2>6. CASE owner # None
    <3>1. owner' = owner /\ holds' \subseteq holds \cup Misled
      BY <2>1, <2>2, <2>6
    <3> QED BY <1>1, <2>2, <2>3, <2>4, <2>6, <3>1
  <2> QED BY <2>5, <2>6
<1>8. ASSUME ~ fatal, NEW f \in Fibers, Unlock(f) PROVE P
  <2>1. /\ thr.running = f /\ at[f] = "run" /\ owner = f
        /\ owner' = First(thr, "waiting")
        /\ thr' = IF owner' = None THEN thr ELSE HandOver(owner')
        /\ holds' = holds \ {f}
        /\ at' = at /\ fatal' = FALSE
    BY <1>1, <1>8 DEF Unlock, UnlockAllowed, Runs, NextOwner, Told
  <2>2. holds' \subseteq Misled /\ holds' \subseteq Fibers
    BY <1>1, <2>1
  <2>3. CASE Empty(thr, "waiting")
    <3>1. owner' = None /\ thr' = thr
      BY <2>1, <2>3 DEF First
    <3>2. W' = {}
      BY <1>1, <2>3, <3>1, LinkedFacts, LockConstants
    <3> QED BY <1>1, <2>1, <2>2, <3>1, <3>2 DEF ThreadInv, ThreadSound
  <2>4. CASE ~ Empty(thr, "waiting")
    <3> DEFINE g == Head(thr.ring["waiting"])
               m == FiberReady(RingDetach(thr, g), g)
    <3>1. g \in W
      <4>1. /\ thr.ring["waiting"] \in Seq(Fibers)
            /\ IsInjective(thr.ring["waiting"])
            /\ thr.ring["waiting"] # << >>
        BY <1>1, <2>4, LockConstants DEF Whole, Sound, Threads, Empty
      <4> QED BY <4>1, HeadTailRange DEF Linked
    <3>2. owner' = g /\ g \in Fibers /\ g # None
      BY <1>1, <2>1, <2>4, <3>1, LockConstants DEF First
    <3>3. thr' = FiberYield(m)
      BY <2>1, <3>2 DEF HandOver
    <3>4. g # thr.running
      BY <1>1, <3>1, LockConstants DEF Whole, Unlinked
    <3> HIDE DEF g
    <3>5. /\ Whole(m) /\ m.running = f
          /\ m.status = [thr.status EXCEPT ![g] = "ready"]
          /\ Linked(m, "ready") = Linked(thr, "ready") \cup {g}
          /\ Linked(m, "waiting") = W \ {g}
          /\ Present(thr) \subseteq Present(m)
      BY <1>1, <2>1, <3>2, <3>4, WakeLemma, LockConstants
    <3> HIDE DEF m
    <3>6. /\ Whole(thr') /\ Awake(thr') = Awake(m)
          /\ W' = W \ {g} /\ Present(m) \subseteq Present(thr')
          /\ \A h \in Fibers \ Awake(m) : thr'.status[h] = m.status[h]
      BY <3>3, <3>5, YieldLemma, LockConstants
    <3>7. g \in Awake(thr')
      BY <3>5, <3>6 DEF Awake
    <3>8. WaitersOK'
      <4>1. \A h \in W \ {g} : h \in Fibers \ Awake(m)
        BY <3>5, NotAwake, LockConstants
      <4>2. \A h \in W \ {g} : m.status[h] = thr.status[h]
        BY <1>1, <3>5 DEF Threads
      <4> QED BY <1>1, <2>1, <3>6, <4>1, <4>2
    <3>9. ThreadInv'
      BY <1>1, <2>1, <3>5, <3>6 DEF ThreadInv, ThreadSound
    <3> QED BY <1>1, <2>1, <2>2, <3>1, <3>2, <3>6, <3>7, <3>8, <3>9
  <2> QED BY <2>3, <2>4
\* Only a misled fiber reaches unlock's msg_fatal: the others that hold the
\* lock own it.
<1>9. ASSUME ~ fatal, NEW f \in Fibers, UnlockFatal(f) PROVE P
  <2>1. f \in Misled /\ thr.running = f
    BY <1>1, <1>9 DEF UnlockFatal, UnlockAllowed, Runs
  <2>2. thr' = thr /\ at' = at
    BY <1>9 DEF UnlockFatal
  <2>3. ThreadInv'
    BY <1>1, <2>2 DEF ThreadInv, ThreadSound
  <2> QED BY <1>1, <1>9, <2>1, <2>2, <2>3 DEF UnlockFatal
<1>10. ASSUME ~ fatal, ThreadStep, UNCHANGED lockVars PROVE P
  <2>1. /\ ThreadInv'
        /\ Kept(thr, thr')
        /\ \A g \in Fibers : \/ at'[g] = at[g]
                             \/ at[g] \in Outside /\ at'[g] \in Outside
        /\ \A g \in Fibers : at[g] \notin Outside /\ g \in Awake(thr)
                                => g \in Awake(thr')
    BY <1>10, ThreadStepLemma DEF LockInv, Undisturbed
  <2>2. owner' = owner /\ holds' = holds /\ fatal' = FALSE
    BY <1>1, <1>10 DEF lockVars
  <2>3. /\ W' \subseteq W /\ \A g \in W' : thr'.status[g] = thr.status[g]
    BY <2>1, LockConstants DEF Kept
  <2>4. \A g \in Fibers : at[g] = "lock" => at'[g] = "lock"
    BY <2>1 DEF Outside
  <2>5. WaitersOK'
    BY <1>1, <2>3, <2>4
  <2>6. OwnerOK'
    <3>1. ASSUME owner \notin {None} \cup Misled, owner \notin holds
          PROVE  at'[owner] = "lock" /\ owner \in Awake(thr')
      <4>1. at[owner] = "lock" /\ owner \in Awake(thr) /\ owner \in Fibers
        BY <1>1, <3>1
      <4>2. at[owner] \notin Outside
        BY <4>1 DEF Outside
      <4> QED BY <2>1, <2>4, <4>1, <4>2
    <3> QED BY <2>2, <3>1
  <2> QED BY <1>1, <2>1, <2>2, <2>3, <2>5, <2>6
<1>11. CASE UNCHANGED vars
  <2>1. thr' = thr /\ at' = at
    BY <1>11 DEF vars
  <2>2. ThreadInv'
    BY <1>1, <2>1 DEF ThreadInv, ThreadSound
  <2> QED BY <1>1, <1>11, <2>1, <2>2 DEF vars, lockVars
<1>12. CASE Next
  BY <1>4, <1>5, <1>6, <1>7, <1>8, <1>9, <1>10, <1>12 DEF Next
<1> QED BY <1>11, <1>12

-----------------------------------------------------------------------------
(* The theorems *)

\* The inductive invariant.
THEOREM LockInductive == Spec => []LockInv
<1>1. LockInv /\ [Next]_vars => LockInv'
  BY LockStep
<1> QED BY <1>1, LockInit, PTL DEF Spec

\* The type invariant.
THEOREM LockTypes == Spec => []TypeOK
BY LockInductive, LockInvImplies, PTL

\* No two fibers are ever told that they have the lock, misled ones apart.
THEOREM LockExclusion == Spec => []MutualExclusion
<1>1. LockInv => MutualExclusion
  BY DEF LockInv
<1> QED BY <1>1, LockInductive, PTL

\* The lock is never left to a fiber that does not know, killed or not.
THEOREM LockOwnerKnows == Spec => []OwnerKnows
BY LockInductive, LockInvImplies, PTL

\* Nobody waits for a lock that nobody has, and only waiters are queued.
THEOREM LockWaiters ==
    Spec => [](NoStrandedWaiter /\ OnlyWaitersQueued)
<1>1. LockInv => NoStrandedWaiter /\ OnlyWaitersQueued
  BY DEF LockInv
<1> QED BY <1>1, LockInductive, PTL

\* The rings keep their integrity and every fiber can be brought back.
THEOREM LockNoFiberLost == Spec => []NoFiberLost
BY LockInductive, LockInvImplies, PTL

\* Only a misled fiber reaches the assert of __lock or the msg_fatal of unlock.
THEOREM LockFatal == Spec => []FatalIfMisled
<1>1. LockInv => FatalIfMisled
  BY DEF LockInv
<1> QED BY <1>1, LockInductive, PTL

\* Only its owner's unlock takes the lock away, whatever the callers make of
\* trylock's result: unlock looks at owner, and everyone else at None.
THEOREM LockOwnerKept == Spec => OwnerKept
<1> DEFINE K == owner # None /\ owner' # owner => thr.running = owner
<1>1. [Next]_vars => [K]_vars
  <2> SUFFICES ASSUME Next PROVE K
    OBVIOUS
  <2>1. ASSUME NEW f \in Fibers, LockFree(f) \/ LockBlock(f) \/ LockReturn(f)
        PROVE  K
    BY <2>1 DEF LockFree, LockBlock, LockReturn, AssertNotOwner, lockVars
  <2>2. ASSUME NEW f \in Fibers, TryLock(f) \/ Unlock(f) \/ UnlockFatal(f)
        PROVE  K
    BY <2>2 DEF TryLock, TryLockOwner, AssertNotOwner, Unlock, UnlockAllowed,
                UnlockFatal, Runs
  <2>3. ASSUME UNCHANGED lockVars PROVE K
    BY <2>3 DEF lockVars
  <2> QED BY <2>1, <2>2, <2>3 DEF Next
<1> QED BY <1>1, PTL DEF Spec, OwnerKept

-----------------------------------------------------------------------------
(* The refinement *)

\* FairLock's helpers on sequences are those of FiberLock.
LEMMA FairHelpers ==
    ASSUME NEW s, NEW e
    PROVE  /\ Fair!Range(s) = Range(s)
           /\ Fair!RemoveFirst(s, e) = RemoveFirst(s, e)
<1>1. Fair!Range(s) = Range(s)
  BY DEF Fair!Range, Range
<1>2. Fair!RemoveFirst(s, e) = RemoveFirst(s, e)
  BY DEF Fair!RemoveFirst, Fair!RemoveAt, Fair!SelectInSeq, Fair!Min,
         RemoveFirst, RemoveAt, SelectInSeq, Min
<1> QED BY <1>1, <1>2

\* The lock starts free, with nobody waiting.
LEMMA FairInit == Init => Fair!Init
<1> SUFFICES ASSUME Init PROVE Fair!Init
  OBVIOUS
<1>1. thr.ring["waiting"] = << >>
  BY LockConstants DEF Init, ThreadInit, FreshThread
<1> QED BY <1>1 DEF Init, Fair!Init

\* Every step is a step of the FIFO lock, or changes neither owner nor queue.
LEMMA FairStep == LockInv /\ [Next]_vars => [Fair!Next]_(Fair!vars)
<1> SUFFICES ASSUME LockInv, [Next]_vars PROVE [Fair!Next]_(Fair!vars)
  OBVIOUS
<1> DEFINE q == thr.ring["waiting"]
           P == Fair!Next \/ (owner' = owner /\ q' = q)
<1>0. /\ Whole(thr) /\ Sound(thr) /\ thr \in Threads
      /\ q \in Seq(Fibers) /\ IsInjective(q)
      /\ "waiting" \in Rings \ {"ready", "timer"}
      /\ owner \in Fibers \cup {None} /\ None \notin Fibers
      /\ owner = None => q = << >>
  BY LockConstants
     DEF LockInv, ThreadInv, ThreadSound, Whole, Sound, Threads, NoStrandedWaiter, Empty
<1>1. SUFFICES P
  BY DEF Fair!vars
<1>2. \A g \in Fibers : thr.running = g => g \notin Range(q)
  BY <1>0 DEF Whole, Unlinked, Linked
<1>3. ASSUME NEW f \in Fibers, LockFree(f) PROVE P
  <2>1. Fair!Take(f)
    BY <1>0, <1>3 DEF LockFree, Fair!Take
  <2> QED BY <2>1 DEF Fair!Next
<1>4. ASSUME NEW f \in Fibers, LockBlock(f) PROVE P
  <2>1. CASE AssertNotOwner(f)
    BY <2>1 DEF AssertNotOwner
  <2>2. CASE ~ AssertNotOwner(f)
    <3> DEFINE p == RingPrepend(thr, "waiting", f)
    <3>1. /\ owner \notin {None, f} /\ owner' = owner
          /\ thr.running = f /\ thr' = Switch(p)
      BY <1>4, <2>2 DEF LockBlock, Suspend, Runs, lockVars
    <3>2. p.ring["waiting"] = Append(q, f)
      BY <1>0, PrependRing
    <3>3. p \in Threads
      BY <1>0, <3>1, PrependLemma DEF Whole, Sound
    <3> HIDE DEF p
    <3>4. q' = Append(q, f) /\ f \notin Range(q)
      BY <1>0, <1>2, <3>1, <3>2, <3>3, SwitchRing
    <3>5. Fair!Enqueue(f)
      BY <3>1, <3>4, FairHelpers DEF Fair!Enqueue
    <3> QED BY <3>5 DEF Fair!Next
  <2> QED BY <2>1, <2>2
<1>5. ASSUME NEW f \in Fibers, LockReturn(f) PROVE P
  <2>1. thr.running = f /\ thr' = RingDetach(thr, f) /\ owner' = owner
    BY <1>5 DEF LockReturn, Resumed, Resume
  <2>2. q' = q
    BY <1>0, <1>2, <2>1, DetachRing, RemoveFirstAbsent
  <2> QED BY <2>1, <2>2
<1>6. ASSUME NEW f \in Fibers, TryLock(f) PROVE P
  <2>1. CASE owner' = owner
    BY <1>6, <2>1 DEF TryLock, AssertNotOwner
  <2>2. CASE owner' # owner
    <3>1. owner = None /\ owner' = f /\ thr' = thr
      BY <1>6, <2>2 DEF TryLock, TryLockOwner, AssertNotOwner
    <3>2. Fair!Take(f)
      BY <1>0, <3>1 DEF Fair!Take
    <3> QED BY <3>2 DEF Fair!Next
  <2> QED BY <2>1, <2>2
<1>7. ASSUME NEW f \in Fibers, Unlock(f) PROVE P
  <2>1. /\ thr.running = f /\ owner = f /\ owner # None
        /\ owner' = First(thr, "waiting")
        /\ thr' = IF owner' = None THEN thr ELSE HandOver(owner')
    BY <1>0, <1>7 DEF Unlock, UnlockAllowed, Runs, NextOwner
  <2>2. CASE q = << >>
    <3>1. owner' = None /\ thr' = thr
      BY <2>1, <2>2 DEF First, Empty
    <3>2. Fair!Release
      BY <2>1, <2>2, <3>1 DEF Fair!Release
    <3> QED BY <3>2 DEF Fair!Next
  <2>3. CASE q # << >>
    <3> DEFINE g == Head(q)
               d == RingDetach(thr, g)
               m == FiberReady(d, g)
    <3>1. /\ g \in Range(q) /\ g \in Fibers /\ Tail(q) \in Seq(Fibers)
          /\ g \notin Range(Tail(q))
      BY <1>0, <2>3, HeadTailRange
    <3>2. owner' = g /\ g # None /\ g # thr.running
      BY <1>0, <1>2, <2>1, <2>3, <3>1 DEF First, Empty
    <3>3. thr' = FiberYield(m)
      BY <2>1, <3>2 DEF HandOver
    <3>4. d.ring["waiting"] = Tail(q)
      BY <1>0, <2>3, DetachRing, RemoveFirstHead
    <3>5. Sound(d)
      BY <1>0, <3>1, DetachLemma
    <3> HIDE DEF g
    <3>6. Whole(m) /\ m.running = f
      BY <1>0, <2>1, <3>1, <3>2, WakeLemma
    <3> HIDE DEF d
    <3>7. m.ring["waiting"] = Tail(q)
      <4>1. m.ring["waiting"] = RemoveFirst(Tail(q), g)
        BY <1>0, <3>1, <3>4, <3>5, ReadyRing
      <4> QED BY <3>1, <4>1, RemoveFirstAbsent
    <3> HIDE DEF m
    <3>8. q' = Tail(q)
      BY <1>0, <3>3, <3>6, <3>7, YieldRing
    <3>9. Fair!HandOff
      BY <2>1, <2>3, <3>2, <3>8 DEF Fair!HandOff, g
    <3> QED BY <3>9 DEF Fair!Next
  <2> QED BY <2>2, <2>3
<1>8. ASSUME NEW f \in Fibers, UnlockFatal(f) PROVE P
  BY <1>8 DEF UnlockFatal
<1>9. ASSUME ThreadStep, UNCHANGED lockVars PROVE P
  <2>1. owner' = owner
    BY <1>9 DEF lockVars
  <2>2. CASE q' = q
    BY <2>1, <2>2
  <2>3. CASE q' # q
    <3>1. PICK g \in Fibers : g \in Range(q) /\ q' = RemoveFirst(q, g)
      <4>1. Moves(thr, at, thr', at') /\ Whole(thr)
        BY <1>9, ThreadMoves DEF LockInv, ThreadInv, ThreadSound
      <4> QED BY <1>0, <2>3, <4>1, MovesRing
    <3>2. Fair!Abandon(g)
      BY <2>1, <3>1, FairHelpers DEF Fair!Abandon
    <3> QED BY <3>2 DEF Fair!Next
  <2> QED BY <2>2, <2>3
<1>10. CASE UNCHANGED vars
  BY <1>10 DEF vars, lockVars
<1>11. CASE Next
  BY <1>3, <1>4, <1>5, <1>6, <1>7, <1>8, <1>9, <1>11 DEF Next
<1> QED BY <1>10, <1>11

\* The fiber lock implements the FIFO lock with hand-off: nobody overtakes the
\* waiters, and a kill only takes its victim out of the queue.
THEOREM LockImplementsFair == Spec => ImplementsFairLock
BY LockInductive, FairInit, FairStep, PTL
   DEF Spec, ImplementsFairLock, Fair!Spec
=============================================================================
