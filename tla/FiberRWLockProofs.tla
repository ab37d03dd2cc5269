-------------------------- MODULE FiberRWLockProofs --------------------------
(***************************************************************************)
(* Proofs about FiberRWLock, for any finite set of fibers, any of which    *)
(* may be killed at any moment: the invariants that the run checks on      *)
(* three fibers, one of which is killed.                                   *)
(*                                                                         *)
(* The argument: the lock counts as a reader, or names as the writer, a    *)
(* fiber that was told so, or that an unlock has taken out of its waiting  *)
(* ring and that has not run.  A fiber leaves a waiting ring in two ways   *)
(* only, by an unlock that grants it the lock, and by a kill, and a killed *)
(* one is told nothing: so the count is never less than the readers there  *)
(* are, and it is exact until a fiber is killed in its call.               *)
(***************************************************************************)
EXTENDS FiberRWLock, FiberThreadInv

-----------------------------------------------------------------------------
(* The inductive invariant *)

\* The fibers that an unlock has granted the lock to, and that will be told.
Woke(g, place, ring) ==
    at[g] = place /\ g \notin Linked(thr, ring) /\ ~ Canceled(thr, g)

Reading(g) == mode[g] = "read"  \/ Woke(g, "rlock", "rwaiting")
Writing(g) == mode[g] = "write" \/ Woke(g, "wlock", "wwaiting")

Readers == {g \in Fibers : Reading(g)}

\* Only suspended callers are in a waiting ring; those who have left it will
\* run, and have nothing as yet.
Queued(place, ring) ==
    /\ \A g \in Linked(thr, ring) : at[g] = place /\ thr.status[g] = "suspend"
    /\ \A g \in Fibers : at[g] = place =>
          mode[g] = "none" /\ (g \in Linked(thr, ring) \/ g \in Awake(thr))

\* What the lock has in its books is no less than what there is, and exactly
\* that until a fiber is killed in its call.
Books ==
    /\ Cardinality(Readers) <= readers
    /\ \A g \in Fibers : Writing(g) => writer = g
    /\ writer # None => readers = 0
    /\ ~ harmed => /\ ~ CancelledInCall
                   /\ Cardinality(Readers) = readers
                   /\ writer # None => Writing(writer)

Stranded ==
    \/ Linked(thr, "wwaiting") # {} /\ writer = None /\ readers = 0
    \/ /\ Linked(thr, "rwaiting") # {} /\ ~ harmed
       /\ writer = None /\ Linked(thr, "wwaiting") = {}

RWInv ==
    /\ ThreadInv
    /\ readers \in Nat /\ writer \in Fibers \cup {None}
    /\ mode \in [Fibers -> Modes] /\ harmed \in BOOLEAN
    /\ Queued("rlock", "rwaiting")
    /\ Queued("wlock", "wwaiting")
    /\ Books
    /\ ~ Stranded

-----------------------------------------------------------------------------
(* Lemmas *)

\* The rings and places of this component, from its assumptions.
LEMMA RWConstants ==
    /\ "rwaiting" \in Rings \ {"ready", "timer"}
    /\ "wwaiting" \in Rings \ {"ready", "timer"}
    /\ "ready" \in Rings /\ "timer" \in Rings
    /\ "run" \in Places /\ "rlock" \in Places /\ "wlock" \in Places
    /\ None \notin Fibers
BY RWRings, RWPlaces, NoneAssumption DEF RWRings, RWPlaces, NoneAssumption

\* Putting one ring behind another that shares no entry with it.
LEMMA ConcatenatedProperties ==
    ASSUME NEW S, NEW a \in Seq(S), NEW b \in Seq(S),
           IsInjective(a), IsInjective(b), Range(a) \cap Range(b) = {}
    PROVE  /\ a \o b \in Seq(S) /\ IsInjective(a \o b)
           /\ Range(a \o b) = Range(a) \cup Range(b)
<1> DEFINE c == a \o b
<1>1. /\ c \in Seq(S) /\ Len(c) = Len(a) + Len(b)
      /\ Len(a) \in Nat /\ Len(b) \in Nat
  OBVIOUS
<1>2. \A i \in 1..Len(c) : c[i] = IF i <= Len(a) THEN a[i] ELSE b[i - Len(a)]
  BY ConcatProperties, <1>1, Zenon
<1> HIDE DEF c
<1>3. /\ DOMAIN c = 1..Len(c) /\ Range(c) = {c[i] : i \in 1..Len(c)}
      /\ DOMAIN a = 1..Len(a) /\ Range(a) = {a[i] : i \in 1..Len(a)}
      /\ DOMAIN b = 1..Len(b) /\ Range(b) = {b[i] : i \in 1..Len(b)}
  BY <1>1, RangeIs
<1>4. ASSUME NEW i \in 1..Len(c)
      PROVE  \/ i \in 1..Len(a) /\ c[i] = a[i] /\ c[i] \in Range(a)
             \/ /\ i > Len(a) /\ i - Len(a) \in 1..Len(b)
                /\ c[i] = b[i - Len(a)] /\ c[i] \in Range(b)
  <2>1. CASE i <= Len(a)
    BY <1>1, <1>2, <1>3, <2>1
  <2>2. CASE ~ (i <= Len(a))
    <3>1. i > Len(a) /\ i - Len(a) \in 1..Len(b)
      BY <1>1, <2>2
    <3>2. c[i] = b[i - Len(a)]
      BY <1>2, <2>2
    <3> QED BY <1>3, <3>1, <3>2
  <2> QED BY <2>1, <2>2
<1>5. IsInjective(c)
  <2> SUFFICES ASSUME NEW i \in 1..Len(c), NEW j \in 1..Len(c), c[i] = c[j]
               PROVE  i = j
    BY <1>3 DEF IsInjective
  <2>1. CASE i \in 1..Len(a) /\ c[i] = a[i] /\ c[i] \in Range(a)
    <3>1. j \in 1..Len(a) /\ c[j] = a[j]
      BY <1>4, <2>1
    <3> QED BY <1>3, <2>1, <3>1 DEF IsInjective
  <2>2. CASE /\ i > Len(a) /\ i - Len(a) \in 1..Len(b)
             /\ c[i] = b[i - Len(a)] /\ c[i] \in Range(b)
    <3>1. j - Len(a) \in 1..Len(b) /\ c[j] = b[j - Len(a)]
      BY <1>4, <2>2
    <3>2. i - Len(a) = j - Len(a)
      BY <1>3, <2>2, <3>1, Zenon DEF IsInjective
    <3> QED BY <1>1, <3>2
  <2> QED BY <1>4, <2>1, <2>2
<1>6. Range(c) \subseteq Range(a) \cup Range(b)
  BY <1>3, <1>4
<1>7. ASSUME NEW i \in 1..Len(a) PROVE a[i] \in Range(c)
  <2>1. i \in 1..Len(c) /\ c[i] = a[i]
    BY <1>1, <1>2
  <2> QED BY <1>3, <2>1
<1>8. ASSUME NEW i \in 1..Len(b) PROVE b[i] \in Range(c)
  <2>1. Len(a) + i \in 1..Len(c) /\ ~ (Len(a) + i <= Len(a))
        /\ (Len(a) + i) - Len(a) = i
    BY <1>1
  <2>2. c[Len(a) + i] = b[i]
    BY <1>2, <2>1
  <2> QED BY <1>3, <2>1, <2>2
<1>9. Range(a) \cup Range(b) \subseteq Range(c)
  BY <1>3, <1>7, <1>8
<1> QED BY <1>1, <1>5, <1>6, <1>9 DEF c

\* A ring is as long as it has fibers.
LEMMA LengthIsCardinality ==
    ASSUME NEW S, NEW s \in Seq(S), IsInjective(s)
    PROVE  IsFiniteSet(Range(s)) /\ Cardinality(Range(s)) = Len(s)
<1>1. /\ DOMAIN s = 1..Len(s) /\ Len(s) \in Nat
      /\ Range(s) = {s[i] : i \in 1..Len(s)}
  BY RangeIs
<1>2. s \in Bijection(1..Len(s), Range(s))
  <2>1. s \in [1..Len(s) -> Range(s)]
    BY <1>1
  <2>2. s \in Injection(1..Len(s), Range(s))
    BY <1>1, <2>1 DEF Injection, IsInjective
  <2>3. s \in Surjection(1..Len(s), Range(s))
    BY <1>1, <2>1 DEF Surjection
  <2> QED BY <2>2, <2>3 DEF Bijection
<1>3. IsFiniteSet(1..Len(s)) /\ Cardinality(1..Len(s)) = Len(s)
  BY <1>1, FS_Interval
<1> QED BY <1>1, <1>2, <1>3, FS_Bijection DEF ExistsBijection

\* wunlock's loop empties the ring of the readers into the ready ring.
LEMMA ReadyAllLemma ==
    ASSUME NEW t, Whole(t), NEW r \in Rings \ {"ready"},
           NEW u, u = ReadyAll(t, r)
    PROVE  /\ Whole(u) /\ u.running = t.running /\ u.flag = t.flag
           /\ Linked(u, r) = {}
           /\ \A q \in Rings \ {"ready", r} : Linked(u, q) = Linked(t, q)
           /\ Awake(u) = Awake(t) \cup Linked(t, r)
           /\ Present(u) = Present(t)
           /\ \A h \in Fibers \ Linked(t, r) : u.status[h] = t.status[h]
<1> DEFINE a == t.ring["ready"]
           b == t.ring[r]
           rings == [t.ring EXCEPT !["ready"] = a \o b, ![r] = << >>]
           stats == [h \in Fibers |->
                        IF In(t, r, h) THEN "ready" ELSE t.status[h]]
<1>1. "ready" \in Rings /\ t \in Threads /\ Sound(t)
  BY RingsAssumption DEF Whole, Sound, RingsAssumption
<1>2. /\ a \in Seq(Fibers) /\ b \in Seq(Fibers)
      /\ IsInjective(a) /\ IsInjective(b) /\ Range(a) \cap Range(b) = {}
  BY <1>1 DEF Sound, Threads, Linked
<1>3. /\ a \o b \in Seq(Fibers) /\ IsInjective(a \o b)
      /\ Range(a \o b) = Range(a) \cup Range(b)
  BY <1>2, ConcatenatedProperties
<1>4. u = [ring |-> rings, status |-> stats, flag |-> t.flag,
           running |-> t.running]
  <2>1. [t.ring EXCEPT !["ready"] = @ \o b, ![r] = << >>] = rings
    OBVIOUS
  <2>2. u = [t EXCEPT !.ring = rings, !.status = stats]
    BY <2>1, Zenon DEF ReadyAll
  <2> HIDE DEF rings, stats
  <2> QED BY <1>1, <2>2 DEF Threads
<1>5. /\ u.ring = rings /\ u.status = stats /\ u.flag = t.flag
      /\ u.running = t.running
  BY <1>4
<1>6. /\ rings["ready"] = a \o b /\ rings[r] = << >>
      /\ \A q \in Rings \ {"ready", r} : rings[q] = t.ring[q]
      /\ rings = [q \in Rings |-> rings[q]]
  BY <1>1 DEF Threads
<1> HIDE DEF rings
<1>7. IsInjective(<< >>) /\ Range(<< >>) = {} /\ << >> \in Seq(Fibers)
  BY DEF IsInjective, Range
<1>8. /\ Linked(u, "ready") = Linked(t, "ready") \cup Linked(t, r)
      /\ Linked(u, r) = {}
      /\ \A q \in Rings \ {"ready", r} : Linked(u, q) = Linked(t, q)
  BY <1>3, <1>5, <1>6, <1>7 DEF Linked
<1>9. \A q \in Rings : rings[q] \in Seq(Fibers) /\ IsInjective(rings[q])
  BY <1>1, <1>3, <1>6, <1>7 DEF Sound, Threads
<1>10. /\ stats \in [Fibers -> Status]
       /\ \A h \in Fibers : stats[h] # "exiting"
  BY <1>1 DEF Sound, Threads, Status
<1>11. u \in Threads
  <2>1. rings \in [Rings -> Seq(Fibers)]
    BY <1>6, <1>9
  <2> HIDE DEF stats
  <2> QED BY <1>1, <1>4, <1>5, <1>10, <2>1 DEF Threads
<1>12. \A h \in Fibers \ Linked(t, r) : u.status[h] = t.status[h]
  BY <1>5 DEF In, Linked
<1> HIDE DEF stats
<1>13. Sound(u)
  <2>1. \A p, q \in Rings : p # q => Linked(u, p) \cap Linked(u, q) = {}
    BY <1>1, <1>8 DEF Sound
  <2> QED BY <1>5, <1>9, <1>10, <1>11, <2>1 DEF Sound
<1>14. Unlinked(u, t.running) /\ t.running \notin Linked(t, r)
  BY <1>1, <1>8 DEF Whole, Unlinked
<1>15. Whole(u)
  <2>1. t.running # None => t.running \in Fibers
    BY <1>1 DEF Threads
  <2> QED BY <1>5, <1>12, <1>13, <1>14, <2>1 DEF Whole
<1>16. Awake(u) = Awake(t) \cup Linked(t, r) /\ Present(u) = Present(t)
  BY <1>1, <1>5, <1>8 DEF Awake, Present
<1> QED BY <1>5, <1>8, <1>12, <1>15, <1>16

\* The fibers that read are finitely many.
LEMMA ReadersFinite ==
    /\ IsFiniteSet(Readers) /\ Cardinality(Readers) \in Nat
    /\ Cardinality(Readers) = 0 => Readers = {}
BY FibersAssumption, FS_Subset, FS_CardinalityType, FS_EmptySet
   DEF FibersAssumption, Readers

\* A step that grants the lock to nobody, and takes it from nobody unless a
\* fiber is killed in its call, keeps the books.
LEMMA BooksKept ==
    ASSUME Books, harmed \in BOOLEAN, readers \in Nat,
           writer \in Fibers \cup {None},
           harmed' = (harmed \/ CancelledInCall'),
           readers' = readers, writer' = writer,
           \A g \in Fibers : /\ Reading(g)' => Reading(g)
                             /\ Writing(g)' => Writing(g),
           ~ harmed' => \A g \in Fibers : /\ Reading(g) => Reading(g)'
                                          /\ Writing(g) => Writing(g)'
    PROVE  Books'
<1>1. Readers' \subseteq Readers
  BY DEF Readers
<1>2. Cardinality(Readers') <= Cardinality(Readers) /\ Cardinality(Readers') \in Nat
  BY <1>1, ReadersFinite, FS_Subset, FS_CardinalityType
<1>3. Cardinality(Readers') <= readers'
  BY <1>2, ReadersFinite DEF Books
<1>4. ASSUME ~ harmed'
      PROVE  /\ ~ CancelledInCall' /\ Cardinality(Readers') = readers'
             /\ (writer # None => Writing(writer))'
  <2>1. Readers' = Readers
    BY <1>1, <1>4 DEF Readers
  <2>2. ~ harmed /\ ~ CancelledInCall'
    BY <1>4
  <2>3. Cardinality(Readers') = readers'
    BY <2>1, <2>2 DEF Books
  <2>4. (writer # None => Writing(writer))'
    <3> SUFFICES ASSUME writer' # None PROVE Writing(writer)'
      OBVIOUS
    <3>1. Writing(writer) /\ writer \in Fibers
      BY <2>2 DEF Books
    <3>2. \A g \in Fibers : Writing(g) => Writing(g)'
      BY <1>4
    <3> QED BY <3>1, <3>2 DEF Writing, Woke
  <2> QED BY <2>2, <2>3, <2>4
<1>5. \A g \in Fibers : Writing(g)' => writer' = g
  BY DEF Books
<1>6. writer' # None => readers' = 0
  BY DEF Books
<1> QED BY <1>3, <1>4, <1>5, <1>6 DEF Books

\* FIRST_FIBER of a ring that is not empty is in it.
LEMMA FirstLemma ==
    ASSUME NEW t, Whole(t), NEW r \in Rings, Linked(t, r) # {}
    PROVE  First(t, r) \in Linked(t, r)
<1>1. /\ t.ring[r] \in Seq(Fibers) /\ IsInjective(t.ring[r])
      /\ ~ Empty(t, r) /\ t.ring[r] # << >>
  BY LinkedFacts DEF Whole, Sound, Threads, Empty
<1> QED BY <1>1, HeadTailRange DEF First, Linked

-----------------------------------------------------------------------------
(* The invariant *)

\* What the fibers do outside of the lock are moves of their thread.
LEMMA ThreadMoves == ThreadStep => Moves(thr, at, thr', at')
<1> SUFFICES ASSUME ThreadStep PROVE Moves(thr, at, thr', at')
  OBVIOUS
<1>1. ASSUME NEW g \in Fibers, Yield(g) PROVE Yields(thr, at, thr', at', g)
  BY <1>1 DEF Yield, Runs, Yields
<1>2. ASSUME NEW g \in Fibers, Delay(g) PROVE Delays(thr, at, thr', at', g)
  BY <1>2 DEF Delay, Runs, Suspend, Delays
<1>3. ASSUME NEW g \in Fibers, DelayReturn(g)
      PROVE  DelayReturns(thr, at, thr', at', g)
  BY <1>3 DEF DelayReturn, Resumed, Resume, DelayReturns
<1>4. ASSUME NEW g \in Fibers, Clear(g) PROVE Clears(thr, at, thr', at', g)
  BY <1>4 DEF Clear, Runs, Clears
<1>5. ASSUME NEW g \in Fibers, NEW h \in Victims, Kill(g, h)
      PROVE  h \in Fibers /\ Kills(thr, at, thr', at', h)
  BY <1>5, VictimsAssumption DEF Kill, Kills, VictimsAssumption
<1>6. ASSUME NEW g \in Fibers, TimerExpires(g)
      PROVE  TimerEnds(thr, at, thr', at', g)
  BY <1>6 DEF TimerExpires, TimerEnds
<1>7. ASSUME Dispatch PROVE Dispatches(thr, at, thr', at')
  BY <1>7 DEF Dispatch, Dispatches
<1> QED BY <1>1, <1>2, <1>3, <1>4, <1>5, <1>6, <1>7
        DEF ThreadStep, FiberStep, Moves

\* They keep it sound, and leave those in calls where they are, or make them ready.
LEMMA ThreadStepLemma ==
    ASSUME ThreadInv, ThreadStep
    PROVE  /\ ThreadInv'
           /\ Kept(thr, thr')
           /\ \A g \in Fibers : \/ at'[g] = at[g]
                                \/ at[g] \in Outside /\ at'[g] \in Outside
           /\ \A g \in Fibers : at[g] \notin Outside
                                   => Undisturbed(thr, thr', g)
<1>1. Moves(thr, at, thr', at')
  BY ThreadMoves
<1>2. Whole(thr) /\ at \in [Fibers -> Places]
  BY DEF ThreadInv, ThreadSound
<1>3. "run" \in Places /\ "delay" \in Places
  BY PlacesAssumption DEF PlacesAssumption
<1>4. Present(thr') \subseteq Fibers
  BY DEF Present
<1> QED BY <1>1, <1>2, <1>3, <1>4, MovesLemma DEF ThreadInv, ThreadSound

\* At the start nobody has the lock and nobody waits.
LEMMA RWInit == Init => RWInv
<1> SUFFICES ASSUME Init PROVE RWInv
  OBVIOUS
<1>1. /\ ThreadInv /\ Linked(thr, "rwaiting") = {} /\ Linked(thr, "wwaiting") = {}
      /\ \A g \in Fibers : at[g] = "run"
      /\ readers = 0 /\ writer = None /\ mode = [g \in Fibers |-> "none"]
      /\ harmed = FALSE
  <2>1. PICK order \in SetToSeqs(Fibers) : thr = FreshThread(order)
    BY DEF Init, ThreadInit
  <2>2. /\ Whole(thr) /\ Present(thr) = Fibers /\ thr.running = None
        /\ \A r \in Rings \ {"ready"} : Linked(thr, r) = {}
    BY <2>1, FreshStart
  <2>3. at \in [Fibers -> Places] /\ \A g \in Fibers : at[g] = "run"
    BY PlacesAssumption DEF Init, ThreadInit, PlacesAssumption
  <2> QED BY <2>2, <2>3, RWConstants DEF Init, ThreadInv, ThreadSound
<1>2. \A g \in Fibers : ~ Reading(g) /\ ~ Writing(g)
  BY <1>1 DEF Reading, Writing, Woke
<1>3. Cardinality(Readers) = 0
  BY <1>2, FS_EmptySet DEF Readers
<1>4. Books
  BY <1>1, <1>2, <1>3 DEF Books, CancelledInCall, InCall
<1>5. Queued("rlock", "rwaiting") /\ Queued("wlock", "wwaiting") /\ ~ Stranded
  BY <1>1 DEF Queued, Stranded
<1> QED BY <1>1, <1>4, <1>5 DEF RWInv, Modes

\* Every call of the lock, and every step of the thread, keeps the invariant.
LEMMA RWStep ==
    ASSUME RWInv, [Next]_vars
    PROVE  RWInv'
<1> DEFINE R == Linked(thr, "rwaiting")
           W == Linked(thr, "wwaiting")
           \* The part of the invariant that the books are no part of.
           Q == /\ ThreadInv
                /\ readers \in Nat /\ writer \in Fibers \cup {None}
                /\ mode \in [Fibers -> Modes]
                /\ Queued("rlock", "rwaiting")
                /\ Queued("wlock", "wwaiting")
<1>1. /\ Whole(thr) /\ at \in [Fibers -> Places] /\ thr \in Threads
      /\ Present(thr) = Fibers /\ Present(thr') \subseteq Fibers
      /\ R \subseteq Fibers /\ W \subseteq Fibers /\ R \cap W = {}
      /\ R \cap Awake(thr) = {} /\ W \cap Awake(thr) = {}
  <2>1. Whole(thr) /\ at \in [Fibers -> Places] /\ Present(thr) = Fibers
    BY DEF RWInv, ThreadInv, ThreadSound
  <2>2. thr \in Threads /\ R \cap W = {}
    BY <2>1, RWConstants DEF Whole, Sound
  <2> QED BY <2>1, <2>2, LinkedFacts, NotAwake, RWConstants DEF Present
<1>2. /\ readers \in Nat /\ writer \in Fibers \cup {None} /\ None \notin Fibers
      /\ mode \in [Fibers -> Modes] /\ harmed \in BOOLEAN
      /\ \A g \in R : at[g] = "rlock" /\ thr.status[g] = "suspend"
      /\ \A g \in W : at[g] = "wlock" /\ thr.status[g] = "suspend"
      /\ \A g \in Fibers : at[g] = "rlock" =>
            mode[g] = "none" /\ (g \in R \/ g \in Awake(thr))
      /\ \A g \in Fibers : at[g] = "wlock" =>
            mode[g] = "none" /\ (g \in W \/ g \in Awake(thr))
      /\ Books /\ ~ Stranded
  BY RWConstants DEF RWInv, Queued
\* The running fiber is in no ring.
<1>3. ASSUME NEW f \in Fibers, thr.running = f
      PROVE  f \notin R /\ f \notin W /\ f \in Awake(thr)
  BY <1>1, <1>3, RWConstants DEF Whole, Unlinked, Awake
<1> DEFINE P == Q' /\ Books' /\ ~ Stranded'
<1>4. ASSUME NEW f \in Fibers, RLock(f), harmed' = (harmed \/ CancelledInCall')
      PROVE  P
  <2>1. /\ thr.running = f /\ at[f] = "run" /\ mode[f] = "none"
        /\ writer = None /\ W = {}
        /\ readers' = readers + 1 /\ mode' = [mode EXCEPT ![f] = "read"]
        /\ thr' = thr /\ at' = at /\ writer' = writer
    BY <1>1, <1>4, LinkedFacts, RWConstants
       DEF RLock, Calls, Runs, ReadFree
  <2>2. ThreadInv'
    BY <1>1, <2>1 DEF ThreadInv, ThreadSound
  <2>3. Q'
    BY <1>2, <2>1, <2>2 DEF Queued, Modes
  <2>4. Readers' = Readers \cup {f} /\ f \notin Readers
    BY <1>2, <2>1 DEF Readers, Reading, Woke
  <2>5. Cardinality(Readers') = Cardinality(Readers) + 1
    BY <2>4, ReadersFinite, FS_AddElement
  <2>6. \A g \in Fibers : Writing(g)' => Writing(g)
    BY <1>2, <2>1 DEF Writing, Woke
  <2>7. CancelledInCall' <=> CancelledInCall
    BY <2>1 DEF CancelledInCall, InCall
  <2>8. Books'
    BY <1>2, <1>4, <2>1, <2>5, <2>6, <2>7, ReadersFinite DEF Books
  <2>9. ~ Stranded'
    BY <1>2, <1>4, <2>1 DEF Stranded
  <2> QED BY <2>3, <2>8, <2>9
<1>5. ASSUME NEW f \in Fibers, RLockBlock(f),
             harmed' = (harmed \/ CancelledInCall')
      PROVE  P
  <2>1. /\ thr.running = f /\ at[f] = "run" /\ mode[f] = "none"
        /\ writer # None \/ W # {}
        /\ thr' = Switch(RingPrepend(thr, "rwaiting", f))
        /\ at' = [at EXCEPT ![f] = "rlock"]
        /\ readers' = readers /\ writer' = writer /\ mode' = mode
    BY <1>1, <1>5, LinkedFacts, RWConstants
       DEF RLockBlock, Calls, Runs, ReadFree, Suspend, rwVars
  <2>2. /\ Whole(thr') /\ thr'.flag = thr.flag
        /\ R' = R \cup {f} /\ W' = W
        /\ Awake(thr) \ {f} \subseteq Awake(thr')
        /\ Present(thr) \subseteq Present(thr')
        /\ thr'.status[f] = "suspend"
        /\ \A g \in Fibers \ Awake(thr) : thr'.status[g] = thr.status[g]
    BY <1>1, <2>1, SuspendLemma, RWConstants
  <2>3. ThreadInv'
    BY <1>1, <2>1, <2>2, RWConstants DEF ThreadInv, ThreadSound
  <2>4. Queued("rlock", "rwaiting")' /\ Queued("wlock", "wwaiting")'
    BY <1>1, <1>2, <2>1, <2>2 DEF Queued
  <2>5. \A g \in Fibers : /\ Reading(g)' <=> Reading(g)
                          /\ Writing(g)' <=> Writing(g)
    BY <1>1, <1>2, <2>1, <2>2 DEF Reading, Writing, Woke, Canceled
  <2>6. Books'
    BY <1>2, <1>5, <2>1, <2>5, BooksKept
  <2>7. ~ Stranded'
    BY <1>2, <1>5, <2>1, <2>2 DEF Stranded
  <2> QED BY <1>2, <2>1, <2>3, <2>4, <2>6, <2>7
<1>6. ASSUME NEW f \in Fibers, RLockReturn(f),
             harmed' = (harmed \/ CancelledInCall')
      PROVE  P
  <2>1. /\ thr.running = f /\ at[f] = "rlock"
        /\ thr' = RingDetach(thr, f) /\ at' = [at EXCEPT ![f] = "run"]
        /\ mode' = [mode EXCEPT ![f] = IF Canceled(thr, f) THEN "none"
                                                          ELSE "read"]
        /\ readers' = readers /\ writer' = writer
    BY <1>6 DEF RLockReturn, Resumed, Resume, Granted
  <2>2. /\ Whole(thr') /\ thr'.flag = thr.flag /\ thr'.status = thr.status
        /\ R' = R /\ W' = W
        /\ Awake(thr') = Awake(thr) /\ Present(thr') = Present(thr)
    BY <1>1, <2>1, DetachRunningLemma, RWConstants DEF SameBut
  <2>3. ThreadInv'
    BY <1>1, <2>1, <2>2, RWConstants DEF ThreadInv, ThreadSound
  <2>4. Queued("rlock", "rwaiting")' /\ Queued("wlock", "wwaiting")'
    BY <1>1, <1>2, <1>3, <2>1, <2>2 DEF Queued
  <2>5. \A g \in Fibers : /\ Reading(g)' <=> Reading(g)
                          /\ Writing(g)' <=> Writing(g)
    BY <1>1, <1>2, <1>3, <2>1, <2>2 DEF Reading, Writing, Woke, Canceled
  <2>6. Books'
    BY <1>2, <1>6, <2>1, <2>5, BooksKept
  <2>7. ~ Stranded'
    BY <1>2, <1>6, <2>1, <2>2 DEF Stranded
  <2>8. mode' \in [Fibers -> Modes]
    BY <1>2, <2>1 DEF Modes
  <2> QED BY <1>2, <2>1, <2>3, <2>4, <2>6, <2>7, <2>8
<1>7. ASSUME NEW f \in Fibers, WLock(f), harmed' = (harmed \/ CancelledInCall')
      PROVE  P
  <2>1. /\ thr.running = f /\ at[f] = "run" /\ mode[f] = "none"
        /\ writer = None /\ readers = 0
        /\ writer' = f /\ mode' = [mode EXCEPT ![f] = "write"]
        /\ thr' = thr /\ at' = at /\ readers' = readers
    BY <1>7 DEF WLock, Calls, Runs, WriteFree
  <2>2. ThreadInv'
    BY <1>1, <2>1 DEF ThreadInv, ThreadSound
  <2>3. Q'
    BY <1>2, <2>1, <2>2 DEF Queued, Modes
  <2>4. Readers' = Readers
    BY <1>2, <2>1 DEF Readers, Reading, Woke
  \* Nobody has the lock to write before, so f is the only one to have it.
  <2>5. \A g \in Fibers : Writing(g)' <=> g = f
    BY <1>2, <2>1 DEF Writing, Woke, Books
  <2>6. CancelledInCall' <=> CancelledInCall
    BY <2>1 DEF CancelledInCall, InCall
  <2>7. (writer # None => Writing(writer))'
    BY <1>2, <2>1 DEF Writing
  <2>8. Books'
    BY <1>2, <1>7, <2>1, <2>4, <2>5, <2>6, <2>7 DEF Books
  <2>9. ~ Stranded'
    BY <1>2, <1>7, <2>1 DEF Stranded
  <2> QED BY <2>3, <2>8, <2>9
<1>8. ASSUME NEW f \in Fibers, WLockBlock(f),
             harmed' = (harmed \/ CancelledInCall')
      PROVE  P
  <2>1. /\ thr.running = f /\ at[f] = "run" /\ mode[f] = "none"
        /\ writer # None \/ readers # 0
        /\ thr' = Switch(RingPrepend(thr, "wwaiting", f))
        /\ at' = [at EXCEPT ![f] = "wlock"]
        /\ readers' = readers /\ writer' = writer /\ mode' = mode
    BY <1>1, <1>8, LinkedFacts, RWConstants
       DEF WLockBlock, Calls, Runs, WriteFree, Suspend, rwVars
  <2>2. /\ Whole(thr') /\ thr'.flag = thr.flag
        /\ R' = R /\ W' = W \cup {f}
        /\ Awake(thr) \ {f} \subseteq Awake(thr')
        /\ Present(thr) \subseteq Present(thr')
        /\ thr'.status[f] = "suspend"
        /\ \A g \in Fibers \ Awake(thr) : thr'.status[g] = thr.status[g]
    BY <1>1, <2>1, SuspendLemma, RWConstants
  <2>3. ThreadInv'
    BY <1>1, <2>1, <2>2, RWConstants DEF ThreadInv, ThreadSound
  <2>4. Queued("rlock", "rwaiting")' /\ Queued("wlock", "wwaiting")'
    BY <1>1, <1>2, <2>1, <2>2 DEF Queued
  <2>5. \A g \in Fibers : /\ Reading(g)' <=> Reading(g)
                          /\ Writing(g)' <=> Writing(g)
    BY <1>1, <1>2, <2>1, <2>2 DEF Reading, Writing, Woke, Canceled
  <2>6. Books'
    BY <1>2, <1>8, <2>1, <2>5, BooksKept
  <2>7. ~ Stranded'
    BY <1>2, <1>8, <2>1, <2>2 DEF Stranded
  <2> QED BY <1>2, <2>1, <2>3, <2>4, <2>6, <2>7
<1>9. ASSUME NEW f \in Fibers, WLockReturn(f),
             harmed' = (harmed \/ CancelledInCall')
      PROVE  P
  <2>1. /\ thr.running = f /\ at[f] = "wlock"
        /\ thr' = RingDetach(thr, f) /\ at' = [at EXCEPT ![f] = "run"]
        /\ mode' = [mode EXCEPT ![f] = IF Canceled(thr, f) THEN "none"
                                                          ELSE "write"]
        /\ readers' = readers /\ writer' = writer
    BY <1>9 DEF WLockReturn, Resumed, Resume, Granted
  <2>2. /\ Whole(thr') /\ thr'.flag = thr.flag /\ thr'.status = thr.status
        /\ R' = R /\ W' = W
        /\ Awake(thr') = Awake(thr) /\ Present(thr') = Present(thr)
    BY <1>1, <2>1, DetachRunningLemma, RWConstants DEF SameBut
  <2>3. ThreadInv'
    BY <1>1, <2>1, <2>2, RWConstants DEF ThreadInv, ThreadSound
  <2>4. Queued("rlock", "rwaiting")' /\ Queued("wlock", "wwaiting")'
    BY <1>1, <1>2, <1>3, <2>1, <2>2 DEF Queued
  <2>5. \A g \in Fibers : /\ Reading(g)' <=> Reading(g)
                          /\ Writing(g)' <=> Writing(g)
    BY <1>1, <1>2, <1>3, <2>1, <2>2 DEF Reading, Writing, Woke, Canceled
  <2>6. Books'
    BY <1>2, <1>9, <2>1, <2>5, BooksKept
  <2>7. ~ Stranded'
    BY <1>2, <1>9, <2>1, <2>2 DEF Stranded
  <2>8. mode' \in [Fibers -> Modes]
    BY <1>2, <2>1 DEF Modes
  <2> QED BY <1>2, <2>1, <2>3, <2>4, <2>6, <2>7, <2>8
<1>10. ASSUME NEW f \in Fibers, RUnlock(f), harmed' = (harmed \/ CancelledInCall')
       PROVE  P
  <2> DEFINE g == First(thr, "wwaiting")
  <2>1. /\ thr.running = f /\ at[f] = "run" /\ mode[f] = "read"
        /\ readers' = readers - 1 /\ mode' = [mode EXCEPT ![f] = "none"]
        /\ at' = at
        /\ IF readers = 1 /\ W # {}
           THEN writer' = g /\ thr' = FiberYield(FiberReady(thr, g))
           ELSE thr' = thr /\ writer' = writer
    BY <1>1, <1>10, LinkedFacts, RWConstants DEF RUnlock, Runs, LastReader
  \* f is counted, so the count is not 0 and there is no writer.
  <2>2. /\ Cardinality(Readers) > 0 /\ readers > 0 /\ readers - 1 \in Nat
        /\ writer = None
    <3>1. f \in Readers
      BY <2>1 DEF Readers, Reading
    <3>2. Cardinality(Readers) # 0
      BY <3>1, ReadersFinite
    <3> QED BY <1>2, <3>2, ReadersFinite DEF Books
  <2>3. /\ ThreadInv' /\ thr'.flag = thr.flag
        /\ R' = R /\ W' = W \ {writer'}
        /\ Awake(thr) \subseteq Awake(thr')
        /\ readers = 1 /\ W # {} => writer' \in W /\ writer' \in Awake(thr')
        /\ \A h \in Fibers \ Awake(thr') : thr'.status[h] = thr.status[h]
    <3>1. CASE readers = 1 /\ W # {}
      <4>1. g \in W
        BY <1>1, <3>1, FirstLemma, RWConstants
      <4> DEFINE m == FiberReady(thr, g)
      <4>2. writer' = g /\ thr' = FiberYield(m)
        BY <2>1, <3>1
      <4> HIDE DEF g
      <4>3. /\ Whole(thr') /\ thr'.flag = thr.flag
            /\ Awake(thr') = Awake(thr) \cup {g}
            /\ Present(thr) \subseteq Present(thr')
            /\ W' = W \ {g} /\ R' = R
            /\ \A h \in Fibers \ (Awake(thr) \cup {g}) :
                  thr'.status[h] = thr.status[h]
        BY <1>1, <2>1, <4>1, <4>2, HandOverLemma, RWConstants
      <4>4. ThreadInv'
        BY <1>1, <2>1, <4>3 DEF ThreadInv, ThreadSound
      <4> QED BY <4>1, <4>2, <4>3, <4>4
    <3>2. CASE ~ (readers = 1 /\ W # {})
      <4>1. thr' = thr /\ writer' = None
        BY <2>1, <2>2, <3>2
      <4>2. ThreadInv'
        BY <1>1, <2>1, <4>1 DEF ThreadInv, ThreadSound
      <4> QED BY <1>1, <1>2, <3>2, <4>1, <4>2
    <3> QED BY <3>1, <3>2
  <2>4. writer' \in Fibers \cup {None} /\ (writer' # None => readers' = 0)
    BY <1>1, <2>1, <2>2, <2>3
  <2>5. Queued("rlock", "rwaiting")' /\ Queued("wlock", "wwaiting")'
    <3>1. \A h \in R' : h \notin Awake(thr')
      BY <2>3, NotAwake, RWConstants DEF ThreadInv, ThreadSound
    <3>2. \A h \in W' : h \notin Awake(thr')
      BY <2>3, NotAwake, RWConstants DEF ThreadInv, ThreadSound
    <3>3. \A h \in Fibers : at[h] = "wlock" => h \in W' \/ h \in Awake(thr')
      BY <1>2, <2>1, <2>2, <2>3
    <3> QED BY <1>1, <1>2, <2>1, <2>3, <3>1, <3>2, <3>3 DEF Queued
  <2>6. Readers' = Readers \ {f}
    BY <1>2, <2>1, <2>3 DEF Readers, Reading, Woke, Canceled
  <2>7. Cardinality(Readers') = Cardinality(Readers) - 1
    <3>1. f \in Readers
      BY <2>1 DEF Readers, Reading
    <3> QED BY <2>6, <3>1, ReadersFinite, FS_RemoveElement
  \* Nobody had the lock to write; the first waiting writer may have it now.
  <2>8. \A h \in Fibers : Writing(h)' => writer' = h
    <3>1. \A h \in Fibers : ~ Writing(h)
      BY <1>2, <2>2 DEF Books
    <3> QED BY <1>2, <2>1, <2>3, <3>1 DEF Writing, Woke, Canceled
  <2>9. CancelledInCall' <=> CancelledInCall
    BY <2>1, <2>3 DEF CancelledInCall, InCall, Canceled
  <2>10. ~ harmed' => (writer # None => Writing(writer))'
    <3> SUFFICES ASSUME ~ harmed', writer' # None PROVE Writing(writer)'
      OBVIOUS
    <3>1. writer' \in W /\ writer' \in Fibers
      BY <1>1, <2>1, <2>2, <2>3
    <3>2. at'[writer'] = "wlock" /\ writer' \notin W'
      BY <1>2, <2>1, <2>3, <3>1
    <3>3. ~ CancelledInCall'
      BY <1>2, <1>10
    <3>4. ~ Canceled(thr', writer')
      BY <3>1, <3>2, <3>3 DEF CancelledInCall, InCall
    <3> QED BY <3>2, <3>4 DEF Writing, Woke
  <2>11. Books'
    <3>1. Cardinality(Readers') <= readers'
      BY <1>2, <2>1, <2>2, <2>7, ReadersFinite DEF Books
    <3>2. ~ harmed' => ~ harmed /\ ~ CancelledInCall'
      BY <1>2, <1>10
    <3>3. ~ harmed' => Cardinality(Readers') = readers'
      BY <1>2, <2>1, <2>7, <3>2 DEF Books
    <3> QED BY <2>4, <2>8, <2>10, <3>1, <3>2, <3>3 DEF Books
  <2>12. ~ Stranded'
    <3>1. \A x : x \in W' => W # {}
      BY <2>3
    <3>2. writer' = None => W' = W
      BY <1>1, <1>2, <2>3
    <3> QED BY <1>1, <1>2, <1>10, <2>1, <2>2, <2>3, <3>1, <3>2 DEF Stranded
  <2>13. mode' \in [Fibers -> Modes]
    BY <1>2, <2>1 DEF Modes
  <2> QED BY <2>1, <2>2, <2>3, <2>4, <2>5, <2>11, <2>12, <2>13
<1>11. ASSUME NEW f \in Fibers, WUnlock(f), harmed' = (harmed \/ CancelledInCall')
       PROVE  P
  <2> DEFINE g == First(thr, "wwaiting")
  <2>1. /\ thr.running = f /\ at[f] = "run" /\ mode[f] = "write"
        /\ at' = at /\ mode' = [mode EXCEPT ![f] = "none"]
    BY <1>11 DEF WUnlock, Runs
  \* f is the writer, so no fiber reads.
  <2>2. /\ writer = f /\ readers = 0 /\ Readers = {}
        /\ \A h \in Fibers : Writing(h) => h = f
    <3>1. Writing(f)
      BY <2>1 DEF Writing
    <3>2. writer = f /\ readers = 0
      BY <1>2, <3>1 DEF Books
    <3>3. Cardinality(Readers) = 0
      BY <1>2, <3>2, ReadersFinite DEF Books
    <3> QED BY <1>2, <3>2, <3>3, ReadersFinite DEF Books
  <2>3. /\ Len(thr.ring["rwaiting"]) \in Nat
        /\ Len(thr.ring["rwaiting"]) = Cardinality(R) /\ IsFiniteSet(R)
        /\ thr.ring["rwaiting"] = << >> <=> R = {}
        /\ g = None <=> W = {}
        /\ W # {} => g \in W
    <3>1. /\ thr.ring["rwaiting"] \in Seq(Fibers)
          /\ IsInjective(thr.ring["rwaiting"])
      BY <1>1, RWConstants DEF Whole, Sound, Threads
    <3>2. thr.ring["rwaiting"] = << >> <=> R = {}
      BY <1>1, LinkedFacts, RWConstants DEF Empty
    <3>3. g = None <=> W = {}
      <4>1. W # {} => g \in W
        BY <1>1, FirstLemma, RWConstants
      <4>2. W = {} => Empty(thr, "wwaiting")
        BY <1>1, LinkedFacts, RWConstants
      <4> QED BY <1>1, <1>2, <4>1, <4>2 DEF First
    <3>4. Len(thr.ring["rwaiting"]) = Cardinality(R) /\ IsFiniteSet(R)
      BY <3>1, LengthIsCardinality DEF Linked
    <3>5. W # {} => g \in W
      BY <1>1, FirstLemma, RWConstants
    <3>6. Len(thr.ring["rwaiting"]) \in Nat
      BY <3>1
    <3> QED BY <3>2, <3>3, <3>4, <3>5, <3>6
  <2>4. /\ readers' = Len(thr.ring["rwaiting"])
        /\ writer' = IF R = {} THEN g ELSE None
        /\ \/ R # {} /\ thr' = FiberYield(ReadyAll(thr, "rwaiting"))
           \/ R = {} /\ W # {} /\ thr' = FiberYield(FiberReady(thr, g))
           \/ R = {} /\ W = {} /\ thr' = thr
    BY <1>11, <2>2, <2>3 DEF WUnlock, NewReaders, ReadersLetIn, WriterLetIn
  <2>5. /\ ThreadInv' /\ thr'.flag = thr.flag
        /\ R' = {} /\ W' = W \ {writer'}
        /\ Awake(thr) \subseteq Awake(thr') /\ R \subseteq Awake(thr')
        /\ writer' # None => writer' \in W /\ writer' \in Awake(thr')
        /\ \A h \in Fibers \ Awake(thr') : thr'.status[h] = thr.status[h]
    <3>1. CASE R # {} /\ thr' = FiberYield(ReadyAll(thr, "rwaiting"))
      <4> DEFINE m == ReadyAll(thr, "rwaiting")
      <4>1. /\ Whole(m) /\ m.running = thr.running /\ m.flag = thr.flag
            /\ Linked(m, "rwaiting") = {} /\ Linked(m, "wwaiting") = W
            /\ Awake(m) = Awake(thr) \cup R /\ Present(m) = Present(thr)
            /\ \A h \in Fibers \ R : m.status[h] = thr.status[h]
        BY <1>1, ReadyAllLemma, RWConstants
      <4>2. thr' = FiberYield(m)
        BY <3>1
      <4> HIDE DEF m
      <4>3. /\ Whole(thr') /\ thr'.flag = m.flag /\ Awake(thr') = Awake(m)
            /\ Present(m) \subseteq Present(thr')
            /\ R' = {} /\ W' = W
            /\ \A h \in Fibers \ Awake(m) : thr'.status[h] = m.status[h]
        BY <2>1, <4>1, <4>2, YieldLemma, RWConstants
      <4>4. ThreadInv'
        BY <1>1, <2>1, <4>1, <4>3 DEF ThreadInv, ThreadSound
      <4>5. writer' = None /\ None \notin W
        BY <1>1, <1>2, <2>4, <3>1
      <4> QED BY <4>1, <4>3, <4>4, <4>5
    <3>2. CASE R = {} /\ W # {} /\ thr' = FiberYield(FiberReady(thr, g))
      <4> DEFINE m == FiberReady(thr, g)
      <4>1. g \in W /\ writer' = g /\ thr' = FiberYield(m)
        BY <2>3, <2>4, <3>2
      <4> HIDE DEF g
      <4>2. /\ Whole(thr') /\ thr'.flag = thr.flag
            /\ Awake(thr') = Awake(thr) \cup {g}
            /\ Present(thr) \subseteq Present(thr')
            /\ W' = W \ {g} /\ R' = R
            /\ \A h \in Fibers \ (Awake(thr) \cup {g}) :
                  thr'.status[h] = thr.status[h]
        BY <1>1, <2>1, <4>1, HandOverLemma, RWConstants
      <4>3. ThreadInv'
        BY <1>1, <2>1, <4>2 DEF ThreadInv, ThreadSound
      <4> QED BY <3>2, <4>1, <4>2, <4>3
    <3>3. CASE R = {} /\ W = {} /\ thr' = thr
      <4>1. ThreadInv'
        BY <1>1, <2>1, <3>3 DEF ThreadInv, ThreadSound
      <4> QED BY <2>3, <2>4, <3>3, <4>1
    <3> QED BY <2>4, <3>1, <3>2, <3>3
  <2>6. /\ writer' \in Fibers \cup {None} /\ readers' \in Nat
        /\ writer' # None => readers' = 0
    BY <1>1, <2>3, <2>4, <2>5, FS_EmptySet
  <2>7. Queued("rlock", "rwaiting")' /\ Queued("wlock", "wwaiting")'
    <3>1. \A h \in W' : h \notin Awake(thr')
      BY <2>5, NotAwake, RWConstants DEF ThreadInv, ThreadSound
    <3>2. \A h \in Fibers : at[h] = "wlock" => h \in W' \/ h \in Awake(thr')
      <4>1. \A h \in W : h # writer' => h \in W'
        BY <2>5
      <4> QED BY <1>1, <1>2, <2>5, <4>1
    <3> QED BY <1>1, <1>2, <2>1, <2>5, <3>1, <3>2 DEF Queued
  \* Those who read now are the waiting readers that were not killed.
  <2>8. Readers' = {h \in R : ~ Canceled(thr', h)}
    <3>1. \A h \in Fibers : ~ Reading(h)
      BY <2>2 DEF Readers
    <3> QED BY <1>1, <1>2, <2>1, <2>5, <3>1
            DEF Readers, Reading, Woke, Canceled
  <2>9. \A h \in Fibers : Writing(h)' => writer' = h
    BY <1>1, <1>2, <2>1, <2>2, <2>5 DEF Writing, Woke, Canceled
  <2>10. ~ harmed' => ~ CancelledInCall'
    BY <1>2, <1>11
  <2>11. ~ harmed' => (writer # None => Writing(writer))'
    <3> SUFFICES ASSUME ~ harmed', writer' # None PROVE Writing(writer)'
      OBVIOUS
    <3>1. writer' \in W /\ writer' \in Fibers /\ writer' \notin W'
      BY <1>1, <2>5
    <3>2. at'[writer'] = "wlock"
      BY <1>2, <2>1, <3>1
    <3>3. ~ Canceled(thr', writer')
      BY <2>10, <3>1, <3>2 DEF CancelledInCall, InCall
    <3> QED BY <3>1, <3>2, <3>3 DEF Writing, Woke
  <2>12. ~ harmed' => Readers' = R
    <3>1. \A h \in R : h \in Fibers /\ InCall(h)'
      BY <1>1, <1>2, <2>1 DEF InCall
    <3> QED BY <2>8, <2>10, <3>1 DEF CancelledInCall
  <2>13. Cardinality(Readers') <= readers'
    BY <2>3, <2>4, <2>8, FS_Subset
  <2>14. Books'
    BY <2>3, <2>4, <2>6, <2>9, <2>10, <2>11, <2>12, <2>13 DEF Books
  <2>15. ~ Stranded'
    BY <1>2, <2>3, <2>4, <2>5, FS_EmptySet DEF Stranded
  <2>16. mode' \in [Fibers -> Modes]
    BY <1>2, <2>1 DEF Modes
  <2> QED BY <2>5, <2>6, <2>7, <2>14, <2>15, <2>16
<1>12. ASSUME ThreadStep, UNCHANGED rwVars,
              harmed' = (harmed \/ CancelledInCall')
       PROVE  P
  <2>1. /\ ThreadInv' /\ Kept(thr, thr')
        /\ \A g \in Fibers : \/ at'[g] = at[g]
                             \/ at[g] \in Outside /\ at'[g] \in Outside
        /\ \A g \in Fibers : at[g] \notin Outside => Undisturbed(thr, thr', g)
    BY <1>12, ThreadStepLemma DEF RWInv
  <2>2. readers' = readers /\ writer' = writer /\ mode' = mode
    BY <1>12 DEF rwVars
  <2>3. /\ R' \subseteq R /\ W' \subseteq W
        /\ \A g \in R : g \in R' \/ g \in Awake(thr')
        /\ \A g \in W : g \in W' \/ g \in Awake(thr')
        /\ \A g \in R' \cup W' : thr'.status[g] = thr.status[g]
    BY <2>1, RWConstants DEF Kept
  <2>4. \A g \in Fibers : /\ at'[g] = "rlock" <=> at[g] = "rlock"
                          /\ at'[g] = "wlock" <=> at[g] = "wlock"
    BY <2>1 DEF Outside
  <2>5. ASSUME NEW g \in Fibers, at[g] \in {"rlock", "wlock"}
        PROVE  /\ g \in Awake(thr) => g \in Awake(thr')
               /\ thr.flag[g] \subseteq thr'.flag[g]
    BY <2>1, <2>5 DEF Outside, Undisturbed
  \* A fiber leaves a waiting ring because it is killed.
  <2>6. ASSUME NEW g \in R \cup W, g \notin R' \cup W'
        PROVE  Canceled(thr', g)
    <3>1. g \in Fibers /\ at[g] \notin Outside /\ g \notin Awake(thr)
      BY <1>1, <1>2, <2>6 DEF Outside
    <3>2. g \notin Linked(thr, "timer")
      BY <1>1, <2>6, RWConstants DEF Whole, Sound
    <3>3. g \in Awake(thr')
      BY <2>3, <2>6
    <3> QED BY <2>1, <3>1, <3>2, <3>3 DEF Undisturbed
  <2>7. Queued("rlock", "rwaiting")' /\ Queued("wlock", "wwaiting")'
    BY <1>1, <1>2, <2>2, <2>3, <2>4, <2>5 DEF Queued
  <2>8. \A g \in Fibers : /\ Reading(g)' => Reading(g)
                          /\ Writing(g)' => Writing(g)
    <3>1. ASSUME NEW g \in Fibers, at[g] = "rlock", g \notin R',
                 ~ Canceled(thr', g)
          PROVE  g \notin R /\ ~ Canceled(thr, g)
      <4>1. g \notin W'
        BY <1>2, <2>3, <3>1
      <4> QED BY <2>5, <2>6, <3>1, <4>1 DEF Canceled
    <3>2. ASSUME NEW g \in Fibers, at[g] = "wlock", g \notin W',
                 ~ Canceled(thr', g)
          PROVE  g \notin W /\ ~ Canceled(thr, g)
      <4>1. g \notin R'
        BY <1>2, <2>3, <3>2
      <4> QED BY <2>5, <2>6, <3>2, <4>1 DEF Canceled
    <3> QED BY <2>2, <2>4, <3>1, <3>2 DEF Reading, Writing, Woke
  <2>9. ~ harmed' => \A g \in Fibers : /\ Reading(g) => Reading(g)'
                                       /\ Writing(g) => Writing(g)'
    <3> SUFFICES ASSUME ~ harmed', NEW g \in Fibers
                 PROVE  /\ Reading(g) => Reading(g)'
                        /\ Writing(g) => Writing(g)'
      OBVIOUS
    <3>1. at'[g] \in {"rlock", "wlock"} => ~ Canceled(thr', g)
      BY <1>2, <1>12 DEF CancelledInCall, InCall
    <3> QED BY <2>2, <2>3, <2>4, <3>1 DEF Reading, Writing, Woke
  <2>10. Books'
    BY <1>2, <1>12, <2>2, <2>8, <2>9, BooksKept
  <2>11. ~ harmed' => ~ harmed /\ W' = W
    <3> SUFFICES ASSUME ~ harmed', NEW g \in W, g \notin W' PROVE FALSE
      BY <1>2, <1>12, <2>3
    <3>1. g \notin R' /\ g \in Fibers /\ InCall(g)'
      BY <1>1, <1>2, <2>3, <2>4 DEF InCall
    <3>2. Canceled(thr', g)
      BY <2>6, <3>1
    <3> QED BY <1>2, <1>12, <3>1, <3>2 DEF CancelledInCall
  <2>12. ~ Stranded'
    BY <1>2, <2>2, <2>3, <2>11 DEF Stranded
  <2> QED BY <1>2, <2>1, <2>2, <2>7, <2>10, <2>12
<1>13. CASE UNCHANGED vars
  <2>1. /\ thr' = thr /\ at' = at /\ readers' = readers /\ writer' = writer
        /\ mode' = mode /\ harmed' = harmed
    BY <1>13 DEF vars, codeVars, rwVars
  <2>2. ThreadInv'
    BY <1>1, <2>1 DEF ThreadInv, ThreadSound
  <2>3. /\ Queued("rlock", "rwaiting")' /\ Queued("wlock", "wwaiting")'
        /\ ~ Stranded'
    BY <1>2, <2>1 DEF Queued, Stranded
  <2>4. CancelledInCall' <=> CancelledInCall
    BY <2>1 DEF CancelledInCall, InCall
  <2>5. \A g \in Fibers : /\ Reading(g)' <=> Reading(g)
                          /\ Writing(g)' <=> Writing(g)
    BY <2>1 DEF Reading, Writing, Woke
  <2>6. harmed' = (harmed \/ CancelledInCall')
    BY <1>2, <2>1, <2>4 DEF Books
  <2>7. Books'
    BY <1>2, <2>1, <2>5, <2>6, BooksKept
  <2> QED BY <1>2, <2>1, <2>2, <2>3, <2>7 DEF RWInv
<1>14. CASE Next
  <2>1. P
    BY <1>4, <1>5, <1>6, <1>7, <1>8, <1>9, <1>10, <1>11, <1>12, <1>14 DEF Next
  <2>2. harmed' \in BOOLEAN
    BY <1>2, <1>14 DEF Next
  <2> QED BY <2>1, <2>2 DEF RWInv
<1> QED BY <1>13, <1>14

-----------------------------------------------------------------------------
(* What the invariant says *)

\* The rings, as the properties speak of them.
LEMMA RWRingFacts ==
    ASSUME RWInv
    PROVE  /\ Whole(thr) /\ thr \in Threads
           /\ \A r \in Rings : /\ Linked(thr, r) \subseteq Fibers
                               /\ Empty(thr, r) <=> Linked(thr, r) = {}
                               /\ \A g : In(thr, r, g) <=> g \in Linked(thr, r)
<1>1. Whole(thr) /\ thr \in Threads
  BY DEF RWInv, ThreadInv, ThreadSound, Whole, Sound
<1> QED BY <1>1, LinkedFacts

\* The state is well formed.
LEMMA RWInvIntact == RWInv => StateIntact
<1> SUFFICES ASSUME RWInv PROVE StateIntact
  OBVIOUS
<1>1. ThreadTypeOK /\ NoFiberLost
  BY WholeImplies DEF RWInv, ThreadInv, ThreadSound, ThreadTypeOK, NoFiberLost
<1>2. TypeOK
  BY <1>1 DEF RWInv, TypeOK
<1>3. \A f \in Fibers :
         /\ In(thr, "rwaiting", f) =>
               at[f] = "rlock" /\ thr.status[f] = "suspend"
         /\ In(thr, "wwaiting", f) =>
               at[f] = "wlock" /\ thr.status[f] = "suspend"
  BY RWRingFacts, RWConstants DEF RWInv, Queued
<1> QED BY <1>1, <1>2, <1>3 DEF StateIntact

\* A writer is alone in the books, and the readers are counted in them.
LEMMA RWInvExclusion == RWInv => Exclusion
<1> SUFFICES ASSUME RWInv PROVE Exclusion
  OBVIOUS
<1>1. Books /\ mode \in [Fibers -> Modes] /\ readers \in Nat /\ None \notin Fibers
  BY RWConstants DEF RWInv
<1> DEFINE told == {f \in Fibers : mode[f] = "read"}
<1>2. told \subseteq Readers
  BY DEF Readers, Reading
<1>3. Cardinality(told) <= readers
  BY <1>1, <1>2, ReadersFinite, FS_Subset, FS_CardinalityType DEF Books
<1>4. ASSUME NEW f \in Fibers, mode[f] = "write", NEW g \in Fibers \ {f}
      PROVE  mode[g] = "none" /\ writer = f /\ readers = 0
  <2>1. Writing(f)
    BY <1>4 DEF Writing
  <2>2. writer = f /\ readers = 0
    BY <1>1, <2>1 DEF Books
  <2>3. Cardinality(Readers) = 0
    BY <1>1, <2>2, ReadersFinite DEF Books
  <2>4. mode[g] # "read"
    BY <2>3, ReadersFinite DEF Readers, Reading
  <2>5. mode[g] # "write"
    BY <1>1, <1>4, <2>2 DEF Books, Writing
  <2> QED BY <1>1, <2>2, <2>4, <2>5 DEF Modes
<1>5. \A f \in Fibers : mode[f] = "write" => writer = f /\ readers = 0
  BY <1>1 DEF Books, Writing
<1> QED BY <1>3, <1>4, <1>5 DEF Exclusion

\* Who waits is not stranded, in terms of the rings as sequences.
LEMMA RWInvNoneStranded == RWInv => NoneStranded
<1> SUFFICES ASSUME RWInv PROVE NoneStranded
  OBVIOUS
<1>1. /\ Empty(thr, "rwaiting") <=> Linked(thr, "rwaiting") = {}
      /\ Empty(thr, "wwaiting") <=> Linked(thr, "wwaiting") = {}
  BY RWRingFacts, RWConstants
<1> QED BY <1>1 DEF RWInv, Stranded, NoneStranded

\* The readers counted are the fibers that were told so or were woken.
LEMMA RWInvLeak == RWInv => LeakNeedsKill
<1> SUFFICES ASSUME RWInv, ~ harmed PROVE NothingLeaked
  BY DEF LeakNeedsKill
<1> DEFINE told == {f \in Fibers : mode[f] = "read"}
           woken == Woken("rlock", "rwaiting")
<1>1. /\ Cardinality(Readers) = readers
      /\ writer # None => Writing(writer) /\ writer \in Fibers
  BY DEF RWInv, Books
<1>2. \A r \in {"rwaiting", "wwaiting"} : \A g \in Fibers :
         In(thr, r, g) <=> g \in Linked(thr, r)
  BY RWRingFacts, RWConstants
<1>3. Readers \subseteq told \cup woken
  BY <1>2 DEF Readers, Reading, Woke, Woken
<1>4. /\ IsFiniteSet(told) /\ IsFiniteSet(woken)
      /\ IsFiniteSet(told \cup woken) /\ IsFiniteSet(told \cap woken)
  <2>1. told \subseteq Fibers /\ woken \subseteq Fibers
    BY DEF Woken
  <2> QED BY <2>1, FibersAssumption, FS_Subset DEF FibersAssumption
<1> HIDE DEF told, woken
<1>5. Cardinality(Readers) <= Cardinality(told \cup woken)
  BY <1>3, <1>4, FS_Subset
<1>6. Cardinality(told \cup woken) <= Cardinality(told) + Cardinality(woken)
  <2>1. /\ Cardinality(told \cup woken) =
              Cardinality(told) + Cardinality(woken) - Cardinality(told \cap woken)
        /\ Cardinality(told \cap woken) \in Nat
        /\ Cardinality(told) \in Nat /\ Cardinality(woken) \in Nat
    BY <1>4, FS_Union, FS_CardinalityType
  <2> QED BY <2>1
<1>7. readers <= Cardinality(told) + Cardinality(woken)
  BY <1>1, <1>4, <1>5, <1>6, ReadersFinite, FS_CardinalityType
<1>8. writer # None =>
         mode[writer] = "write" \/ writer \in Woken("wlock", "wwaiting")
  BY <1>1, <1>2 DEF Writing, Woke, Woken
<1> QED BY <1>7, <1>8 DEF NothingLeaked, told, woken

-----------------------------------------------------------------------------
(* The theorems *)

\* The inductive invariant.
THEOREM RWInductive == Spec => []RWInv
<1>1. RWInv /\ [Next]_vars => RWInv'
  BY RWStep
<1> QED BY <1>1, RWInit, PTL DEF Spec

\* The types hold, no fiber is lost or linked twice, and a waiting ring holds
\* only fibers suspended in the call that the ring is for.
THEOREM RWStateIntact == Spec => []StateIntact
BY RWInductive, RWInvIntact, PTL

\* A writer is alone and every reader is counted, whoever is killed.
THEOREM RWExclusion == Spec => []Exclusion
BY RWInductive, RWInvExclusion, PTL

\* Whoever waits has somebody to wait for.
THEOREM RWNoneStranded == Spec => []NoneStranded
BY RWInductive, RWInvNoneStranded, PTL

\* The lock leaks only after a fiber has been killed in rlock or wlock.
THEOREM RWLeakNeedsKill == Spec => []LeakNeedsKill
BY RWInductive, RWInvLeak, PTL

\* While a writer waits, readers come in only with the unlock of a writer,
\* which lets in all those who wait.
THEOREM RWNotOvertaken == Spec => WriterNotOvertaken
<1> DEFINE K == ~ Empty(thr, "wwaiting") /\ readers' > readers =>
                   /\ writer = thr.running
                   /\ Empty(thr, "rwaiting")'
<1>1. RWInv /\ RWInv' /\ [Next]_vars => [K]_vars
  <2> SUFFICES ASSUME RWInv, RWInv', Next,
                      ~ Empty(thr, "wwaiting"), readers' > readers
               PROVE  /\ writer = thr.running
                      /\ Empty(thr, "rwaiting")'
    OBVIOUS
  <2>0. readers \in Nat
    BY DEF RWInv
  <2>1. PICK f \in Fibers : WUnlock(f)
    <3>1. ASSUME readers' = readers PROVE FALSE
      BY <2>0, <3>1
    <3>2. ASSUME NEW f \in Fibers, RUnlock(f) PROVE FALSE
      BY <2>0, <3>2 DEF RUnlock
    <3>3. ASSUME NEW f \in Fibers, RLock(f) PROVE FALSE
      BY <3>3 DEF RLock, ReadFree
    <3>4. ASSUME NEW f \in Fibers,
                 \/ RLockBlock(f) \/ RLockReturn(f)
                 \/ WLock(f) \/ WLockBlock(f) \/ WLockReturn(f)
          PROVE  readers' = readers
      BY <3>4 DEF RLockBlock, RLockReturn, WLock, WLockBlock, WLockReturn, rwVars
    <3>5. ASSUME UNCHANGED rwVars PROVE readers' = readers
      BY <3>5 DEF rwVars
    <3> QED BY <3>1, <3>2, <3>3, <3>4, <3>5 DEF Next
  <2>2. mode[f] = "write" /\ thr.running = f
    BY <2>1 DEF WUnlock, Runs
  <2>3. writer = f
    BY <2>2 DEF RWInv, Books, Writing
  <2>4. thr.ring["rwaiting"] # << >>
    BY <2>0, <2>1 DEF WUnlock, NewReaders, ReadersLetIn
  <2>5. thr' = FiberYield(ReadyAll(thr, "rwaiting"))
    BY <2>1, <2>4 DEF WUnlock, ReadersLetIn, WriterLetIn
  <2>6. Linked(thr', "rwaiting") = {}
    <3> DEFINE m == ReadyAll(thr, "rwaiting")
    <3>1. /\ Whole(m) /\ m.running = f /\ Linked(m, "rwaiting") = {}
      BY <2>2, RWRingFacts, ReadyAllLemma, RWConstants
    <3>2. thr' = FiberYield(m)
      BY <2>5
    <3> HIDE DEF m
    <3> QED BY <3>1, <3>2, YieldLemma, RWConstants
  <2>7. thr' \in Threads
    BY DEF RWInv, ThreadInv, ThreadSound, Whole, Sound
  <2>8. Empty(thr', "rwaiting")
    BY <2>6, <2>7, LinkedFacts, RWConstants
  <2> QED BY <2>2, <2>3, <2>8 DEF Empty
<1> QED BY <1>1, RWInductive, PTL DEF Spec, WriterNotOvertaken
=============================================================================
