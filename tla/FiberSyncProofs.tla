--------------------------- MODULE FiberSyncProofs ---------------------------
(***************************************************************************)
(* Proofs about FiberMutex and FiberCond, for any fibers of two threads,   *)
(* any threads without fibers, any mutexes and any fibers that may be      *)
(* killed.                                                                 *)
(*                                                                         *)
(* The mutex: a fiber that has put itself into waiters is expected: it is  *)
(* in waiters, in the hands of the unlock that took it out, or in the box  *)
(* of its thread's sync waiter, in exactly one of them.  Until one of them *)
(* wakes it, it is about to switch or asleep; every other fiber in a call  *)
(* runs or is ready.  So whoever is woken sleeps, and the one that an      *)
(* unlock takes out will try the mutex again, for the ones behind it.      *)
(*                                                                         *)
(* The condition: what a caller holds in its hands when it signals, and    *)
(* what the mailboxes carry, are objects of waits that a signal has taken  *)
(* out of waiters, each going to the thread it is meant for, one for each  *)
(* wait.  Whether the timer or the signal comes first, the wait it finds   *)
(* is over or will be told.                                                *)
(***************************************************************************)
EXTENDS FiberCond, FiberOpsProofs

-----------------------------------------------------------------------------
(* The inductive invariant *)

\* The types, and what of the places holds whatever is killed.
Sane ==
    /\ TypeOK
    /\ \A c \in Callers : at[c] = "wake" <=> popped[c] # None
    /\ \A p \in Plains : at[p] \in {"run", "blocked", "wake"}
    /\ \A f \in Users : at[f] # "blocked"

\* Somebody will wake f: it is in waiters, or its wake-up is under way.
Expected(f) ==
    \/ WakeSent(f)
    \/ \E m \in Mutexes : f \in Range(waiters[m])

Sleeps(f) ==
    /\ f \notin Awake(thr[Host(f)])
    /\ thr[Host(f)].status[f] = "suspend"

\* Where a fiber is in its call, what its thread has of it, and who expects it.
Placed(f) ==
    /\ at[f] \in {"queue", "switch", "wake"} => thr[Host(f)].running = f
    /\ at[f] = "wait" =>
          IF Expected(f) THEN Sleeps(f) ELSE f \in Awake(thr[Host(f)])
    /\ at[f] = "switch" => Expected(f)
    /\ Expected(f) => at[f] \in {"switch", "wait"}

\* A fiber that is expected is in one place only, and in the right one.
QueuedOnce ==
    \A m \in Mutexes :
        /\ IsInjective(waiters[m])
        /\ \A f \in Range(waiters[m]) : on[f] = m /\ ~ WakeSent(f)

SentOnce ==
    /\ \A h \in Hosts :
          /\ IsInjective(box[h])
          /\ \A f \in Range(box[h]) :
                Host(f) = h /\ \A c \in Callers : popped[c] # f
    /\ \A c, d \in Callers : popped[c] = popped[d] /\ popped[c] # None => c = d

Served ==
    \A m \in Mutexes :
        lock[m] = None /\ waiters[m] # << >> => \E c \in Callers : WillTry(c, m)

\* What holds until a kill wakes a waiter.
Unharmed ==
    /\ ~ crashed
    /\ \A h \in Hosts : Firm(thr[h])
    /\ \A f \in Users : Placed(f)
    /\ QueuedOnce /\ SentOnce
    /\ Served

\* What holds besides while nobody uses the condition: the fibers that are in
\* their own code run or will, and no timer is set.
Untimed ==
    /\ \A f \in Users : at[f] = "run" => f \in Awake(thr[Host(f)])
    /\ \A h \in Hosts : Linked(thr[h], "timer") = {}

MutexInv == Sane /\ (harmed \/ (Unharmed /\ Untimed))

-----------------------------------------------------------------------------
(* Lemmas *)

\* A fiber is in one thread, its host, and a sync waiter's fiber is no user.
LEMMA HostsAre ==
    /\ \A f \in Fibers : Host(f) \in Hosts /\ f \in Home(Host(f))
    /\ \A h \in Hosts : /\ Home(h) \subseteq Fibers
                        /\ Waker(h) \in Fibers /\ Waker(h) \notin Users
                        /\ \A f \in Home(h) : Host(f) = h
    /\ None \notin Fibers /\ None \notin Callers /\ Users \subseteq Fibers
    /\ Users \cap Plains = {} /\ Callers = Users \cup Plains
    /\ None \notin Mutexes
<1>1. /\ Fibers = Left \cup Right /\ Left \cap Right = {}
      /\ LeftWaker \in Left /\ (Right # {} => RightWaker \in Right)
      /\ {LeftWaker, RightWaker} \cap Fibers \subseteq Internal
  BY FibersOfThreadsAssumption DEF FibersOfThreadsAssumption
<1>2. \A f \in Fibers : Host(f) \in Hosts /\ f \in Home(Host(f))
  BY <1>1 DEF Hosts, Host, Home
<1>3. ASSUME NEW h \in Hosts
      PROVE  /\ Home(h) \subseteq Fibers
             /\ Waker(h) \in Fibers /\ Waker(h) \notin Users
             /\ \A f \in Home(h) : Host(f) = h
  <2>1. CASE h = "left"
    BY <1>1, <2>1 DEF Home, Waker, Host, Users
  <2>2. CASE h = "right"
    <3>1. Right # {}
      BY <2>2 DEF Hosts, Home
    <3> QED BY <1>1, <2>2, <3>1 DEF Home, Waker, Host, Users
  <2> QED BY <2>1, <2>2 DEF Hosts
<1>4. /\ None \notin Fibers /\ None \notin Callers /\ Users \subseteq Fibers
      /\ Users \cap Plains = {} /\ Callers = Users \cup Plains
      /\ None \notin Mutexes
  BY NoneAssumption, OthersAssumption
     DEF NoneAssumption, OthersAssumption, Users, Callers
<1> QED BY <1>2, <1>3, <1>4

\* array_pop_front takes the head out, and leaves all the others.
LEMMA PopFrontIs ==
    ASSUME NEW S, NEW s \in Seq(S)
    PROVE  /\ PopFront(s) \in Seq(S)
           /\ s = << >> => PopFront(s) = << >>
           /\ s # << >> => Head(s) \in S /\ Head(s) \in Range(s)
           /\ s # << >> /\ IsInjective(s) =>
                 /\ IsInjective(PopFront(s))
                 /\ Range(PopFront(s)) = Range(s) \ {Head(s)}
           /\ PopFront(s) # << >> => s # << >>
<1>0. /\ DOMAIN s = 1..Len(s) /\ Range(s) = {s[i] : i \in 1..Len(s)}
      /\ Len(s) \in Nat /\ \A i \in 1..Len(s) : s[i] \in S
  BY RangeIs
<1>1. CASE s = << >>
  BY <1>1 DEF PopFront
<1>2. CASE Len(s) = 1
  <2>1. PopFront(s) = << >> /\ Head(s) = s[1] /\ s # << >>
    BY <1>2 DEF PopFront
  <2>2. Range(<< >>) = {} /\ IsInjective(<< >>)
    BY DEF Range, IsInjective
  <2>3. Range(s) = {s[1]}
    BY <1>0, <1>2
  <2> QED BY <1>0, <1>2, <2>1, <2>2, <2>3
<1>3. CASE Len(s) > 1
  <2> DEFINE n == Len(s)
             a == << Last(s) >>
             b == SubSeq(s, 2, n - 1)
             u == PopFront(s)
  <2>1. a \in Seq(S) /\ Len(a) = 1 /\ a[1] = s[n]
    BY <1>0, <1>3 DEF Last
  <2>2. b \in Seq(S) /\ Len(b) = n - 2 /\ \A i \in 1..(n - 2) : b[i] = s[i + 1]
    BY <1>0, <1>3
  <2>3. u = a \o b
    BY <1>3 DEF PopFront
  <2> HIDE DEF a, b, u
  <2>4. /\ u \in Seq(S) /\ Len(u) = n - 1
        /\ \A i \in 1..(n - 1) : u[i] = IF i = 1 THEN s[n] ELSE s[i]
    <3>1. /\ a \o b \in Seq(S) /\ Len(a \o b) = Len(a) + Len(b)
          /\ \A i \in 1..(Len(a) + Len(b)) :
                (a \o b)[i] = IF i <= Len(a) THEN a[i] ELSE b[i - Len(a)]
      <4>1. a \in Seq(S) /\ b \in Seq(S)
        BY <2>1, <2>2
      <4> QED BY <4>1, ConcatProperties, Zenon
    <3>2. Len(a) + Len(b) = n - 1
      BY <1>0, <2>1, <2>2
    <3>3. ASSUME NEW i \in 1..(n - 1)
          PROVE  u[i] = IF i = 1 THEN s[n] ELSE s[i]
      <4>1. u[i] = IF i <= Len(a) THEN a[i] ELSE b[i - Len(a)]
        BY <2>3, <3>1, <3>2
      <4>2. CASE i = 1
        BY <2>1, <4>1, <4>2
      <4>3. CASE i # 1
        <5>1. ~ (i <= Len(a)) /\ i - 1 \in 1..(n - 2) /\ (i - 1) + 1 = i
          BY <1>0, <2>1, <4>3
        <5> QED BY <2>1, <2>2, <4>1, <4>3, <5>1
      <4> QED BY <4>2, <4>3
    <3> QED BY <2>3, <3>1, <3>2, <3>3
  <2>5. DOMAIN u = 1..(n - 1) /\ Range(u) = {u[i] : i \in 1..(n - 1)}
    BY <1>0, <1>3, <2>4, RangeIs
  <2>6. s # << >> /\ Head(s) = s[1]
    BY <1>3
  <2>7. ASSUME IsInjective(s)
        PROVE  IsInjective(u) /\ Range(u) = Range(s) \ {Head(s)}
    <3>1. \A i, j \in 1..n : s[i] = s[j] => i = j
      BY <1>0, <2>7 DEF IsInjective
    <3>2. IsInjective(u)
      <4> DEFINE old(i) == IF i = 1 THEN n ELSE i
      <4>1. \A i \in 1..(n - 1) : old(i) \in 1..n /\ u[i] = s[old(i)]
        BY <1>0, <1>3, <2>4
      <4>2. \A i, j \in 1..(n - 1) : u[i] = u[j] => i = j
        BY <1>0, <1>3, <3>1, <4>1
      <4> QED BY <2>5, <4>2 DEF IsInjective
    <3>3. Range(u) \subseteq Range(s) \ {Head(s)}
      <4>1. ASSUME NEW i \in 1..(n - 1)
            PROVE  u[i] \in Range(s) /\ u[i] # s[1]
        BY <1>0, <1>3, <2>4, <3>1
      <4> QED BY <2>5, <2>6, <4>1
    <3>4. ASSUME NEW x \in Range(s), x # Head(s) PROVE x \in Range(u)
      <4>1. PICK j \in 1..n : s[j] = x
        BY <1>0
      <4>2. j # 1
        BY <2>6, <3>4, <4>1
      <4>3. CASE j = n
        BY <1>0, <1>3, <2>4, <2>5, <4>1, <4>3
      <4>4. CASE j # n
        <5>1. j \in 1..(n - 1)
          <6>1. n \in Nat /\ j \in 1..n /\ j # n
            BY <1>0, <4>4
          <6> HIDE DEF n
          <6> QED BY <6>1
        <5>2. u[j] = x
          BY <2>4, <4>1, <4>2, <5>1
        <5> QED BY <2>5, <5>1, <5>2
      <4> QED BY <4>3, <4>4
    <3> QED BY <3>2, <3>3, <3>4
  <2> QED BY <1>0, <1>3, <2>4, <2>6, <2>7 DEF u
<1> QED BY <1>0, <1>1, <1>2, <1>3

-----------------------------------------------------------------------------
(* check_deadlock2 *)

\* Of the fibers in a cycle of waits, look at the one that comes last: the one
\* that it waits for was entered before, and waits as well.
LEMMA CycleFound ==
    ASSUME TypeOK
    PROVE  DeadlockReported
<1> SUFFICES ASSUME Deadlocked, NEW order \in SetToSeqs(Owners)
             PROVE  Reports(order)
  BY DEF DeadlockReported
<1>1. PICK S \in SUBSET Users :
         S # {} /\ \A f \in S : \E g \in S : WaitsFor(f, g)
  BY DEF Deadlocked
<1> DEFINE A == {g \in S : \E f \in S : WaitsFor(f, g)}
<1>2. A # {} /\ \A f \in A : \E g \in A : WaitsFor(f, g)
  BY <1>1, Zenon
<1>3. A \subseteq Owners
  <2> SUFFICES ASSUME NEW g \in A PROVE g \in Owners
    OBVIOUS
  <2>1. PICK f \in S, m \in Mutexes : f \in Range(waiters[m]) /\ lock[m] = g
    BY DEF WaitsFor
  <2>2. waiters[m] # << >>
    BY <2>1 DEF Range
  <2> QED BY <1>1, <2>1, <2>2 DEF Owners
<1>4. IsFiniteSet(Owners)
  <2>1. Owners \subseteq Fibers
    BY HostsAre DEF Owners
  <2> QED BY <2>1, FibersAssumption, FS_Subset DEF FibersAssumption
<1>5. /\ order \in Seq(Owners) /\ Range(order) = Owners
      /\ DOMAIN order = 1..Len(order)
  BY <1>4, SetToSeqsIs
<1>6. Len(order) \in Nat /\ Range(order) = {order[i] : i \in 1..Len(order)}
  BY <1>5, RangeIs
<1> DEFINE J == {j \in 1..Len(order) : order[j] \in A}
<1> HIDE DEF A
<1>7. J \subseteq 1..Len(order) /\ J # {}
  <2>1. PICK g \in A : TRUE
    BY <1>2
  <2>2. PICK j \in 1..Len(order) : order[j] = g
    BY <1>3, <1>5, <1>6, <2>1
  <2> QED BY <2>2
<1>8. PICK j \in J : \A k \in J : k <= j
  <2> HIDE DEF J
  <2> QED BY <1>6, <1>7, LargestIs
<1>9. PICK g \in A : WaitsFor(order[j], g)
  BY <1>2, <1>8
<1>10. PICK i \in 1..Len(order) : order[i] = g
  BY <1>3, <1>5, <1>6, <1>9
<1>11. i \in J
  BY <1>9, <1>10
<1>12. PICK e \in A : WaitsFor(order[i], e)
  BY <1>2, <1>9, <1>10
<1>13. e \in Users /\ i <= j
  BY <1>3, <1>8, <1>11, <1>12 DEF Owners
<1> QED BY <1>5, <1>8, <1>9, <1>10, <1>12, <1>13 DEF Reports, Met

-----------------------------------------------------------------------------
(* The types, whatever is killed *)

\* The threads start whole, with all their fibers in the ready ring.
LEMMA InitThreads ==
    ASSUME Init
    PROVE  /\ thr \in [Hosts -> Threads]
           /\ \A h \in Hosts : /\ Whole(thr[h])
                               /\ Awake(thr[h]) = Home(h) \cup {None}
                               /\ Linked(thr[h], "timer") = {}
                               /\ \A f \in Fibers : thr[h].flag[f] = {}
<1>1. PICK orders \in [Hosts -> UNION {SetToSeqs(Home(h)) : h \in Hosts}] :
         /\ \A h \in Hosts : Range(orders[h]) = Home(h)
         /\ thr = [h \in Hosts |->
                     [FreshThread(orders[h]) EXCEPT
                        !.status = [f \in Fibers |-> IF f \in Home(h)
                                                     THEN @[f] ELSE "none"]]]
  BY DEF Init
<1>2. ASSUME NEW h \in Hosts
      PROVE  /\ thr[h] \in Threads /\ Whole(thr[h])
             /\ Awake(thr[h]) = Home(h) \cup {None}
             /\ Linked(thr[h], "timer") = {}
             /\ \A f \in Fibers : thr[h].flag[f] = {}
  <2> DEFINE order == orders[h]
             s == FreshThread(order).status
             t == [FreshThread(order) EXCEPT
                     !.status = [f \in Fibers |-> IF f \in Home(h)
                                                  THEN s[f] ELSE "none"]]
  <2>1. thr[h] = t
    BY <1>1
  <2>2. Range(order) = Home(h) /\ Home(h) \subseteq Fibers
    BY <1>1, HostsAre
  <2>3. PICK k \in Hosts : order \in SetToSeqs(Home(k))
    BY <1>1
  <2>4. IsFiniteSet(Home(k))
    BY HostsAre, FibersAssumption, FS_Subset DEF FibersAssumption
  <2>5. /\ order \in Seq(Home(k)) /\ IsInjective(order)
        /\ Range(order) = Home(k)
    BY <2>3, <2>4, SetToSeqsIs
  <2>6. order \in Seq(Home(h)) /\ order \in Seq(Fibers)
    BY <2>2, <2>5
  <2> HIDE DEF order
  <2>7. FreshThread(order) \in Threads
    BY <2>6, FreshIs
  <2>8. t \in Threads
    BY <2>7 DEF Threads, Status
  <2>9. /\ t.ring = FreshThread(order).ring /\ t.running = None
        /\ \A g \in Fibers : t.status[g] # "exiting"
        /\ \A g \in Home(h) : t.status[g] = "ready"
        /\ \A g \in Fibers : t.flag[g] = {}
    BY <2>2, <2>7 DEF FreshThread, Threads
  <2> HIDE DEF t
  <2>10. /\ Whole(t) /\ Awake(t) = Home(h) \cup {None}
         /\ \A r \in Rings \ {"ready"} : Linked(t, r) = {}
    BY <2>2, <2>5, <2>6, <2>8, <2>9, FreshLemma
  <2>11. Linked(t, "timer") = {}
    BY <2>10, RingsAssumption DEF RingsAssumption
  <2> QED BY <2>1, <2>8, <2>9, <2>10, <2>11
<1>3. thr = [h \in Hosts |-> thr[h]]
  BY <1>1
<1> QED BY <1>2, <1>3

LEMMA SaneInit ==
    ASSUME Init
    PROVE  Sane
<1>1. thr \in [Hosts -> Threads]
  BY InitThreads
<1>2. << >> \in Seq(Users) /\ "run" \in Places
  BY DEF Places
<1>3. /\ waiters \in [Mutexes -> Seq(Users)] /\ box \in [Hosts -> Seq(Users)]
      /\ lock \in [Mutexes -> Callers \cup {None}]
  BY <1>2 DEF Init
<1>4. /\ at \in [Callers -> Places] /\ on \in [Callers -> Mutexes \cup {None}]
      /\ popped \in [Callers -> Users \cup {None}]
  BY <1>2 DEF Init
<1>5. TypeOK
  BY <1>1, <1>3, <1>4 DEF Init, TypeOK
<1> QED BY <1>5, HostsAre DEF Sane, Init

\* The processor of a caller, and of a sync waiter.
LEMMA RunsIs ==
    ASSUME Sane
    PROVE  /\ \A f \in Users : Runs(f) => thr[Host(f)].running = f
           /\ \A f \in Users : Host(f) \in Hosts /\ thr[Host(f)] \in Threads
BY HostsAre DEF Sane, TypeOK, Runs

\* A step of the thread of one host.
LEMMA HostTyped ==
    ASSUME Sane, NEW h \in Hosts, NEW u \in Threads, Host_(h, u)
    PROVE  /\ thr' \in [Hosts -> Threads] /\ thr'[h] = u
           /\ \A k \in Hosts \ {h} : thr'[k] = thr[k]
BY DEF Sane, TypeOK, Host_

\* A step of one caller to a place of its call.
LEMMA GoesTyped ==
    ASSUME Sane, NEW c \in Callers, NEW place \in Places,
           NEW m \in Mutexes \cup {None}, Goes(c, place, m)
    PROVE  /\ at' \in [Callers -> Places]
           /\ on' \in [Callers -> Mutexes \cup {None}]
           /\ at'[c] = place /\ on'[c] = m
           /\ \A d \in Callers \ {c} : at'[d] = at[d] /\ on'[d] = on[d]
BY DEF Sane, TypeOK, Goes

\* A caller's own step from one place to another that no unlock is at.
LEMMA SaneGoes ==
    ASSUME Sane, NEW c \in Callers, NEW place \in Places,
           NEW m \in Mutexes \cup {None}, Goes(c, place, m),
           at[c] # "wake", place # "wake", UNCHANGED popped,
           c \in Plains => place \in {"run", "blocked"},
           c \in Users => place # "blocked",
           TypeOK'
    PROVE  Sane'
<1>1. /\ at'[c] = place
      /\ \A d \in Callers \ {c} : at'[d] = at[d]
  BY GoesTyped
<1>2. \A d \in Callers : at'[d] = "wake" <=> at[d] = "wake"
  BY <1>1
<1> QED BY <1>1, <1>2, HostsAre DEF Sane

\* The steps of lock and trylock that leave the threads alone.
LEMMA SaneLock ==
    ASSUME Sane, NEW c \in Callers, NEW m \in Mutexes,
           \/ TakeFree(c, m) \/ FindTaken(c, m) \/ Queue(c, m)
           \/ QueueTakes(c, m) \/ Block(c, m) \/ BlockedTakes(c, m),
           UNCHANGED harmed
    PROVE  Sane'
<1>0. /\ "run" \in Places /\ "queue" \in Places /\ "switch" \in Places
      /\ "blocked" \in Places
  BY DEF Places
<1>1. TypeOK
  BY DEF Sane
<1>2. lock'  \in [Mutexes -> Callers \cup {None}] /\ waiters' \in [Mutexes -> Seq(Users)]
  <2>1. CASE lock' = [lock EXCEPT ![m] = c] /\ waiters' = waiters
    BY <1>1, <2>1 DEF TypeOK
  <2>2. CASE /\ lock' = lock /\ c \in Users
             /\ waiters' = [waiters EXCEPT ![m] = Append(@, c)]
    <3>1. Append(waiters[m], c) \in Seq(Users)
      BY <1>1, <2>2 DEF TypeOK
    <3> QED BY <1>1, <2>2, <3>1 DEF TypeOK
  <2>3. CASE UNCHANGED << lock, waiters >>
    BY <1>1, <2>3 DEF TypeOK
  <2> QED BY <2>1, <2>2, <2>3
          DEF TakeFree, FindTaken, Queue, QueueTakes, Block, BlockedTakes,
              Taken, mutexVars
<1>3. UNCHANGED << thr, box, popped, crashed, harmed >>
  BY DEF TakeFree, FindTaken, Queue, QueueTakes, Block, BlockedTakes
<1>4. PICK place \in {"run", "queue", "switch", "blocked"},
           n \in {m, None} : /\ Goes(c, place, n)
                             /\ place = "blocked" => c \in Plains
                             /\ place \in {"queue", "switch"} => c \in Users
  BY Zenon DEF TakeFree, FindTaken, Queue, QueueTakes, Block, BlockedTakes, Taken
<1>5. at[c] # "wake"
  BY DEF TakeFree, FindTaken, Queue, QueueTakes, Block, BlockedTakes,
         Attempts, Calls, In_
<1>6. TypeOK'
  <2>1. /\ at' \in [Callers -> Places]
        /\ on' \in [Callers -> Mutexes \cup {None}]
    BY <1>0, <1>4, GoesTyped
  <2> QED BY <1>1, <1>2, <1>3, <2>1 DEF TypeOK
<1> QED BY <1>0, <1>3, <1>4, <1>5, <1>6, SaneGoes, HostsAre

\* A thread that is signaled or whose fiber is made ready keeps its type.
LEMMA WokenTyped ==
    ASSUME NEW t \in Threads, NEW g \in Fibers
    PROVE  Woken(g, t) \in Threads /\ FiberSignal(t, g) \in Threads
<1>1. FiberReady(t, g) \in Threads /\ SetFlag(t, g, "canceled") \in Threads
  BY TypesKept DEF Flags
<1>2. FiberReady(SetFlag(t, g, "canceled"), g) \in Threads
  BY <1>1, TypesKept
<1> QED BY <1>1, <1>2 DEF Woken, FiberSignal

LEMMA SaneSwitchAway ==
    ASSUME Sane, NEW f \in Callers, NEW m \in Mutexes, SwitchAway(f, m),
           UNCHANGED harmed
    PROVE  Sane'
<1>0. "wait" \in Places /\ TypeOK
  BY DEF Places, Sane
<1>1. f \in Users /\ f \notin Plains /\ at[f] # "wake"
  BY HostsAre DEF Sane, SwitchAway, In_
<1>2. /\ Host(f) \in Hosts /\ thr[Host(f)] \in Threads
      /\ thr[Host(f)].running = f /\ f \in Fibers
  BY <1>1, RunsIs, HostsAre DEF SwitchAway, In_
<1>3. Switch(thr[Host(f)]) \in Threads
  BY <1>2, TypesKept
<1>4. thr' \in [Hosts -> Threads]
  BY <1>2, <1>3, HostTyped DEF SwitchAway
<1>5. Goes(f, "wait", m) /\ UNCHANGED << mutexVars, box, popped, crashed >>
  BY DEF SwitchAway
<1>6. /\ at' \in [Callers -> Places]
      /\ on' \in [Callers -> Mutexes \cup {None}]
  BY <1>0, <1>5, GoesTyped
<1>7. TypeOK'
  BY <1>0, <1>4, <1>5, <1>6 DEF TypeOK, mutexVars
<1> QED BY <1>0, <1>1, <1>5, <1>7, SaneGoes

LEMMA SaneUnlock ==
    ASSUME Sane, NEW c \in Callers, NEW m \in Mutexes, Unlock(c, m),
           UNCHANGED harmed
    PROVE  Sane'
<1> DEFINE f == IF waiters[m] = << >> THEN None ELSE Head(waiters[m])
           here == f # None /\ c \in Users /\ Host(f) = Host(c)
<1>0. "wake" \in Places /\ TypeOK /\ waiters[m] \in Seq(Users)
  BY DEF Places, Sane, TypeOK
<1>1. /\ at[c] = "run"
      /\ lock' = [lock EXCEPT ![m] = None]
      /\ waiters' = [waiters EXCEPT ![m] = PopFront(@)]
      /\ UNCHANGED << box, crashed >>
  BY DEF Unlock, Calls
<1>2. /\ IF here THEN Host_(Host(f), Woken(f, thr[Host(f)]))
         ELSE UNCHANGED thr
      /\ IF f = None \/ here THEN UNCHANGED callVars
         ELSE /\ Goes(c, "wake", m)
              /\ popped' = [popped EXCEPT ![c] = f]
  BY DEF Unlock
<1>3. f # None => f \in Users
  BY <1>0, PopFrontIs
<1>4. lock' \in [Mutexes -> Callers \cup {None}] /\ waiters' \in [Mutexes -> Seq(Users)]
  BY <1>0, <1>1, PopFrontIs DEF TypeOK
<1> HIDE DEF f
<1>5. thr' \in [Hosts -> Threads]
  <2>1. CASE ~ here
    BY <1>0, <1>2, <2>1 DEF TypeOK
  <2>2. CASE here
    <3>1. /\ f \in Fibers /\ Host(f) \in Hosts /\ thr[Host(f)] \in Threads
      BY <1>3, <2>2, HostsAre, RunsIs
    <3>2. Woken(f, thr[Host(f)]) \in Threads
      BY <3>1, WokenTyped
    <3> QED BY <1>2, <2>2, <3>1, <3>2, HostTyped
  <2> QED BY <2>1, <2>2
<1>6. CASE f = None \/ here
  <2>1. UNCHANGED << at, on, popped >>
    BY <1>2, <1>6 DEF callVars
  <2> QED BY <1>0, <1>1, <1>4, <1>5, <2>1 DEF Sane, TypeOK
<1>7. CASE ~ (f = None \/ here)
  <2>1. Goes(c, "wake", m) /\ popped' = [popped EXCEPT ![c] = f] /\ f \in Users
    BY <1>2, <1>3, <1>7
  <2>2. /\ at' \in [Callers -> Places]
        /\ on' \in [Callers -> Mutexes \cup {None}]
        /\ at'[c] = "wake"
        /\ \A d \in Callers \ {c} : at'[d] = at[d]
    BY <1>0, <2>1, GoesTyped
  <2>3. /\ popped' \in [Callers -> Users \cup {None}]
        /\ popped'[c] # None
        /\ \A d \in Callers \ {c} : popped'[d] = popped[d]
    BY <1>0, <2>1, HostsAre DEF TypeOK
  <2>4. TypeOK'
    BY <1>0, <1>1, <1>4, <1>5, <2>2, <2>3 DEF TypeOK
  <2> QED BY <2>2, <2>3, <2>4, HostsAre DEF Sane
<1> QED BY <1>6, <1>7

LEMMA SaneSendWake ==
    ASSUME Sane, NEW c \in Callers, NEW m \in Mutexes, SendWake(c, m),
           UNCHANGED harmed
    PROVE  Sane'
<1>0. "run" \in Places /\ TypeOK
  BY DEF Places, Sane
<1>1. /\ popped[c] \in Users /\ Host(popped[c]) \in Hosts
  BY HostsAre DEF SendWake, In_, Sane, TypeOK
<1>2. box' \in [Hosts -> Seq(Users)]
  <2>1. Append(box[Host(popped[c])], popped[c]) \in Seq(Users)
    BY <1>0, <1>1 DEF TypeOK
  <2> QED BY <1>0, <1>1, <2>1 DEF SendWake, Addressee, TypeOK
<1>3. /\ at' \in [Callers -> Places]
      /\ on' \in [Callers -> Mutexes \cup {None}]
      /\ at'[c] = "run"
      /\ \A d \in Callers \ {c} : at'[d] = at[d]
  BY <1>0, GoesTyped DEF SendWake
<1>4. /\ popped' \in [Callers -> Users \cup {None}] /\ popped'[c] = None
      /\ \A d \in Callers \ {c} : popped'[d] = popped[d]
  BY <1>0 DEF SendWake, TypeOK
<1>5. TypeOK'
  BY <1>0, <1>2, <1>3, <1>4 DEF TypeOK, SendWake, mutexVars
<1> QED BY <1>3, <1>4, <1>5, HostsAre DEF Sane

\* The steps that only a thread and its box take part in.
LEMMA SaneHost ==
    ASSUME Sane, NEW h \in Hosts, NEW u \in Threads,
           Host_(h, u) \/ UNCHANGED thr,
           UNCHANGED << mutexVars, callVars >>,
           box' \in [Hosts -> Seq(Users)],
           crashed' \in BOOLEAN, harmed' \in BOOLEAN
    PROVE  Sane'
<1>1. thr' \in [Hosts -> Threads]
  BY HostTyped DEF Sane, TypeOK
<1>2. UNCHANGED << lock, waiters, at, on, popped >>
  BY DEF mutexVars, callVars
<1> QED BY <1>1, <1>2 DEF Sane, TypeOK

LEMMA SaneHostStep ==
    ASSUME Sane, NEW h \in Hosts, HostStep(h), UNCHANGED harmed
    PROVE  Sane'
<1>0. /\ TypeOK /\ thr[h] \in Threads /\ Waker(h) \in Fibers
      /\ box[h] \in Seq(Users) /\ harmed' \in BOOLEAN
  BY HostsAre DEF Sane, TypeOK
<1>1. CASE WakerReads(h)
  <2> DEFINE f == Head(box[h])
  <2>1. box[h] # << >> /\ box' = [box EXCEPT ![h] = Tail(@)]
    BY <1>1 DEF WakerReads
  <2>2. f \in Users /\ f \in Fibers /\ Tail(box[h]) \in Seq(Users)
    BY <1>0, <2>1, HostsAre
  <2>3. box' \in [Hosts -> Seq(Users)]
    BY <1>0, <2>1, <2>2 DEF TypeOK
  <2> HIDE DEF f
  <2>4. Woken(f, thr[h]) \in Threads
    BY <1>0, <2>2, WokenTyped
  <2>5. /\ Host_(h, Woken(f, thr[h])) \/ UNCHANGED thr
        /\ crashed' \in BOOLEAN /\ UNCHANGED << mutexVars, callVars >>
    BY <1>0, <1>1 DEF WakerReads, f, TypeOK
  <2> QED BY <1>0, <2>3, <2>4, <2>5, SaneHost
<1>2. CASE ~ WakerReads(h)
  <2>1. UNCHANGED << mutexVars, callVars, box, crashed >>
    BY <1>2 DEF HostStep, WakerSleeps, WakerPolled, Dispatch
  <2>2. PICK u \in Threads : Host_(h, u)
    <3>1. CASE WakerSleeps(h)
      BY <1>0, <3>1, TypesKept DEF WakerSleeps
    <3>2. CASE WakerPolled(h)
      BY <1>0, <3>2, TypesKept DEF WakerPolled
    <3>3. CASE Dispatch(h)
      BY <1>0, <3>3, TypesKept DEF Dispatch
    <3> QED BY <1>2, <3>1, <3>2, <3>3 DEF HostStep
  <2>3. box' \in [Hosts -> Seq(Users)] /\ crashed' \in BOOLEAN
    BY <1>0, <2>1 DEF TypeOK
  <2> QED BY <1>0, <2>1, <2>2, <2>3, SaneHost
<1> QED BY <1>1, <1>2

LEMMA SaneOther ==
    ASSUME Sane, NEW f \in Users, harmed' \in BOOLEAN,
           Yield(f) \/ \E g \in Users : Kill(f, g)
    PROVE  Sane'
<1>0. /\ TypeOK /\ f \in Fibers /\ thr[Host(f)] \in Threads
      /\ Host(f) \in Hosts /\ Runs(f)
  BY HostsAre, RunsIs DEF Sane, Yield, Kill
<1>1. UNCHANGED << mutexVars, callVars, box, crashed >>
  BY DEF Yield, Kill
<1>2. PICK h \in Hosts, u \in Threads : Host_(h, u)
  <2>1. CASE Yield(f)
    BY <1>0, <2>1, TypesKept, RunsIs DEF Yield
  <2>2. ASSUME NEW g \in Users, Kill(f, g)
        PROVE  \E h \in Hosts, u \in Threads : Host_(h, u)
    BY <2>2, WokenTyped, HostsAre, RunsIs DEF Kill
  <2> QED BY <2>1, <2>2
<1>3. box' \in [Hosts -> Seq(Users)] /\ crashed' \in BOOLEAN
  BY <1>0, <1>1 DEF TypeOK
<1> QED BY <1>1, <1>2, <1>3, SaneHost

LEMMA SaneStep ==
    ASSUME Sane, [Next]_vars
    PROVE  Sane'
<1>1. CASE UNCHANGED vars
  BY <1>1 DEF Sane, TypeOK, vars, codeVars, mutexVars, callVars
<1>2. ASSUME NEW c \in Callers, NEW m \in Mutexes,
             TakeFree(c, m) \/ CallStep(c, m), UNCHANGED harmed
      PROVE  Sane'
  BY <1>2, SaneLock, SaneSwitchAway, SaneUnlock, SaneSendWake DEF CallStep
<1>3. ASSUME NEW f \in Users, NEW g \in Victims, Kill(f, g),
             harmed' = (harmed \/ KillWakes(g))
      PROVE  Sane'
  <2>1. g \in Users
    BY FibersOfThreadsAssumption DEF FibersOfThreadsAssumption
  <2>2. harmed' \in BOOLEAN
    BY <1>3 DEF Sane, TypeOK, KillWakes
  <2> QED BY <1>3, <2>1, <2>2, SaneOther
<1>4. ASSUME NEW f \in Users, Yield(f), UNCHANGED harmed
      PROVE  Sane'
  BY <1>4, SaneOther DEF Sane, TypeOK
<1> QED BY <1>1, <1>2, <1>3, <1>4, SaneHostStep DEF Next

-----------------------------------------------------------------------------
(* The steps that wake nobody *)

\* The step of a thread from t to u leaves fiber f awake, or asleep as it was.
Calm(t, u, f) ==
    /\ f \in Awake(t) => f \in Awake(u)
    /\ f \notin Awake(t) => f \notin Awake(u) /\ u.status[f] = t.status[f]

\* What a step of the mutex does to the threads: nothing to a fiber in its own
\* code, except that it may get the processor; no timer is set.
Moved ==
    /\ \A h \in Hosts : /\ \A S : Listed(thr[h], S) => Listed(thr'[h], S)
                        /\ Linked(thr'[h], "timer") \subseteq Linked(thr[h], "timer")
    /\ \A f \in Users :
          \/ Alike(thr[Host(f)], thr'[Host(f)], f)
          \/ /\ at[f] \in {"switch", "wait"} /\ at'[f] = "wait"
             /\ thr'[Host(f)].flag[f] = thr[Host(f)].flag[f]

LEMMA NotMoved ==
    ASSUME thr' = thr
    PROVE  Moved
BY DEF Moved, Alike

LEMMA MovedIs ==
    ASSUME Sane, NEW h \in Hosts, NEW u, Host_(h, u),
           \A S : Listed(thr[h], S) => Listed(u, S),
           Linked(u, "timer") \subseteq Linked(thr[h], "timer"),
           \A f \in Users : Host(f) = h =>
              \/ Alike(thr[h], u, f)
              \/ /\ at[f] \in {"switch", "wait"} /\ at'[f] = "wait"
                 /\ u.flag[f] = thr[h].flag[f]
    PROVE  Moved
<1>1. /\ thr'[h] = u /\ \A k \in Hosts \ {h} : thr'[k] = thr[k]
  BY DEF Sane, TypeOK, Host_
<1>2. ASSUME NEW f \in Users
      PROVE  \/ Alike(thr[Host(f)], thr'[Host(f)], f)
             \/ /\ at[f] \in {"switch", "wait"} /\ at'[f] = "wait"
                /\ thr'[Host(f)].flag[f] = thr[Host(f)].flag[f]
  <2>1. CASE Host(f) = h
    BY <1>1, <2>1
  <2>2. CASE Host(f) # h
    <3>1. thr'[Host(f)] = thr[Host(f)]
      BY <1>1, <2>2, HostsAre
    <3> QED BY <3>1 DEF Alike
  <2> QED BY <2>1, <2>2
<1> QED BY <1>1, <1>2 DEF Moved

\* The members of waiters are users of the mutex.
LEMMA MembersAre ==
    ASSUME Sane, NEW m \in Mutexes
    PROVE  /\ waiters[m] \in Seq(Users) /\ Range(waiters[m]) \subseteq Users
           /\ waiters[m] # << >> => /\ Head(waiters[m]) \in Users
                                    /\ Head(waiters[m]) \in Range(waiters[m])
<1>1. waiters[m] \in Seq(Users)
  BY DEF Sane, TypeOK
<1>2. Range(waiters[m]) \subseteq Users
  BY <1>1, RangeIs
<1> QED BY <1>1, <1>2, PopFrontIs

\* A fiber that has the processor is awake; one in waiters never has it, but
\* while it is about to switch.
LEMMA RunningIs ==
    ASSUME Sane, Unharmed, NEW f \in Users, Runs(f)
    PROVE  /\ thr[Host(f)].running = f /\ f \in Awake(thr[Host(f)])
           /\ at[f] # "switch" => ~ Expected(f)
           /\ \A g \in Users \ {f} : Host(g) = Host(f) =>
                 at[g] \in {"run", "wait"}
<1>1. thr[Host(f)].running = f /\ f \in Awake(thr[Host(f)])
  BY RunsIs DEF Awake
<1>2. at[f] # "switch" => ~ Expected(f)
  BY <1>1 DEF Unharmed, Placed, Sleeps
<1>3. ASSUME NEW g \in Users \ {f}, Host(g) = Host(f)
      PROVE  at[g] \in {"run", "wait"}
  <2>1. at[g] \in Places /\ at[g] # "blocked"
    BY HostsAre DEF Sane, TypeOK
  <2> QED BY <1>1, <1>3, <2>1 DEF Unharmed, Placed, Places
<1> QED BY <1>1, <1>2, <1>3

\* A fiber that takes no part in a step stays where it is.
LEMMA PlacedKept ==
    ASSUME NEW f \in Users, Placed(f), at'[f] = at[f],
           Expected(f)' <=> Expected(f),
           at[f] = "run" \/ Calm(thr[Host(f)], thr'[Host(f)], f),
           \/ at[f] \in {"run", "wait"}
           \/ thr'[Host(f)].running = thr[Host(f)].running
    PROVE  Placed(f)'
BY DEF Placed, Sleeps, Calm

\* What a fiber is expected by depends on the three places of a wake-up.
LEMMA ExpectedKept ==
    ASSUME UNCHANGED << waiters, box, popped >>
    PROVE  \A f : (WakeSent(f)' <=> WakeSent(f)) /\ (Expected(f)' <=> Expected(f))
BY DEF WakeSent, Expected

\* The steps of lock and unlock that only their caller takes part in.
LEMMA UnharmedOwn ==
    ASSUME Sane, Unharmed, NEW c \in Callers, NEW m \in Mutexes,
           \/ TakeFree(c, m) \/ FindTaken(c, m) \/ QueueTakes(c, m)
           \/ Block(c, m) \/ BlockedTakes(c, m)
    PROVE  Unharmed' /\ Moved
<1>0. TypeOK
  BY DEF Sane
<1>1. UNCHANGED << thr, waiters, box, popped, crashed >>
  BY DEF TakeFree, FindTaken, QueueTakes, Block, BlockedTakes, Taken, mutexVars
<1>2. PICK place \in {"run", "queue", "blocked"}, n \in {m, None} :
         /\ Goes(c, place, n)
         /\ place = "blocked" => c \in Plains
         /\ place = "queue" => c \in Users
  BY Zenon DEF TakeFree, FindTaken, QueueTakes, Block, BlockedTakes, Taken
<1>3. /\ at'[c] = place
      /\ \A d \in Callers \ {c} : at'[d] = at[d] /\ on'[d] = on[d]
  <2>1. place \in Places /\ n \in Mutexes \cup {None}
    BY DEF Places
  <2> QED BY <1>2, <2>1, GoesTyped
<1>4. Runs(c) /\ at[c] # "switch" /\ (at[c] = "run" \/ on[c] = m)
  BY DEF TakeFree, FindTaken, QueueTakes, Block, BlockedTakes,
         Attempts, Calls, In_
<1>5. c \in Users => /\ ~ Expected(c) /\ thr[Host(c)].running = c
                     /\ c \in Awake(thr[Host(c)])
  BY <1>4, RunningIs
<1>6. /\ \A f : WakeSent(f)' <=> WakeSent(f)
      /\ \A f : Expected(f)' <=> Expected(f)
  BY <1>1, ExpectedKept
<1>7. ASSUME NEW f \in Users PROVE Placed(f)'
  <2>1. CASE f = c
    <3>1. /\ ~ Expected(f)' /\ thr'[Host(f)].running = f
          /\ f \in Awake(thr'[Host(f)]) /\ at'[f] \in {"run", "queue"}
      BY <1>1, <1>2, <1>3, <1>5, <1>6, <2>1, HostsAre
    <3> QED BY <3>1 DEF Placed
  <2>2. CASE f # c
    <3>1. at'[f] = at[f]
      BY <1>3, <2>2, HostsAre
    <3>2. Placed(f)
      BY DEF Unharmed
    <3>3. Calm(thr[Host(f)], thr'[Host(f)], f)
      BY <1>1 DEF Calm
    <3>4. (Expected(f)' <=> Expected(f)) /\ thr' = thr
      BY <1>1, <1>6
    <3> QED BY <3>1, <3>2, <3>3, <3>4, PlacedKept
  <2> QED BY <2>1, <2>2
<1>8. QueuedOnce'
  <2> SUFFICES ASSUME NEW k \in Mutexes
               PROVE  /\ IsInjective(waiters[k])
                      /\ \A f \in Range(waiters[k]) :
                            on'[f] = k /\ ~ WakeSent(f)'
    BY <1>1 DEF QueuedOnce
  <2>1. \A f \in Range(waiters[k]) : f \in Users /\ Expected(f)
    BY MembersAre DEF Expected
  <2>2. \A f \in Range(waiters[k]) : f \in Callers \ {c}
    BY <1>5, <2>1, HostsAre
  <2> QED BY <1>3, <1>6, <2>2 DEF Unharmed, QueuedOnce
<1>9. SentOnce'
  BY <1>1 DEF Unharmed, SentOnce
<1>10. Served'
  <2> SUFFICES ASSUME NEW k \in Mutexes, lock'[k] = None, waiters[k] # << >>
               PROVE  \E d \in Callers : WillTry(d, k)'
    BY <1>1 DEF Served
  <2>1. lock'[m] # None /\ \A i \in Mutexes \ {m} : lock'[i] = lock[i]
    BY <1>0, HostsAre DEF TypeOK, TakeFree, FindTaken, QueueTakes, Block,
                          BlockedTakes, Taken, mutexVars
  <2>2. k # m /\ lock[k] = None
    BY <2>1
  <2>3. PICK d \in Callers : WillTry(d, k)
    BY <2>2 DEF Unharmed, Served
  <2>4. d # c
    BY <1>4, <2>2, <2>3 DEF WillTry
  <2>5. WillTry(d, k)'
    BY <1>1, <1>3, <2>3, <2>4 DEF WillTry
  <2> QED BY <2>5
<1> QED BY <1>1, <1>7, <1>8, <1>9, <1>10, NotMoved DEF Unharmed

\* The fiber that queues itself is in no other place, as it had the processor.
LEMMA UnharmedQueue ==
    ASSUME Sane, Unharmed, NEW c \in Callers, NEW m \in Mutexes, Queue(c, m)
    PROVE  Unharmed' /\ Moved
<1>0. TypeOK /\ c \in Users /\ c \in Callers
  BY DEF Sane, Queue, Callers
<1>1. /\ UNCHANGED << thr, lock, box, popped, crashed >>
      /\ waiters' = [waiters EXCEPT ![m] = Append(@, c)]
  BY DEF Queue
<1>2. /\ at'[c] = "switch" /\ on'[c] = m
      /\ \A d \in Callers \ {c} : at'[d] = at[d] /\ on'[d] = on[d]
  <2>1. "switch" \in Places
    BY DEF Places
  <2> QED BY <2>1, GoesTyped DEF Queue
<1>3. /\ Runs(c) /\ at[c] # "switch" /\ lock[m] # None
      /\ at[c] = "run" \/ on[c] = m
  BY DEF Queue, Attempts, Calls, In_, TriedAgain
<1>4. ~ Expected(c) /\ thr[Host(c)].running = c /\ c \in Awake(thr[Host(c)])
  BY <1>0, <1>3, RunningIs
<1>5. \A f : WakeSent(f)' <=> WakeSent(f)
  BY <1>1 DEF WakeSent
<1>6. /\ IsInjective(waiters'[m])
      /\ Range(waiters'[m]) = Range(waiters[m]) \cup {c}
      /\ \A k \in Mutexes \ {m} : waiters'[k] = waiters[k]
  <2>1. waiters[m] \in Seq(Users) /\ IsInjective(waiters[m])
    BY MembersAre DEF Unharmed, QueuedOnce
  <2>2. c \notin Range(waiters[m])
    BY <1>4 DEF Expected
  <2>3. /\ waiters'[m] = Append(waiters[m], c)
        /\ \A k \in Mutexes \ {m} : waiters'[k] = waiters[k]
    BY <1>0, <1>1 DEF TypeOK
  <2> QED BY <1>0, <2>1, <2>2, <2>3, AppendedProperties
<1>7. \A f \in Users \ {c} : Expected(f)' <=> Expected(f)
  BY <1>5, <1>6 DEF Expected
<1>8. Expected(c)'
  BY <1>6 DEF Expected
<1>9. ASSUME NEW f \in Users PROVE Placed(f)'
  <2>1. CASE f = c
    BY <1>1, <1>2, <1>4, <1>8, <2>1 DEF Placed
  <2>2. CASE f # c
    <3>1. at'[f] = at[f]
      BY <1>2, <2>2, HostsAre
    <3>2. Placed(f)
      BY DEF Unharmed
    <3>3. Calm(thr[Host(f)], thr'[Host(f)], f)
      BY <1>1 DEF Calm
    <3>4. (Expected(f)' <=> Expected(f)) /\ thr' = thr
      BY <1>1, <1>7, <2>2
    <3> QED BY <3>1, <3>2, <3>3, <3>4, PlacedKept
  <2> QED BY <2>1, <2>2
<1>10. QueuedOnce'
  <2> SUFFICES ASSUME NEW k \in Mutexes
               PROVE  /\ IsInjective(waiters'[k])
                      /\ \A f \in Range(waiters'[k]) :
                            on'[f] = k /\ ~ WakeSent(f)'
    BY DEF QueuedOnce
  <2>1. IsInjective(waiters'[k])
    BY <1>6 DEF Unharmed, QueuedOnce
  <2>2. ASSUME NEW f \in Range(waiters'[k])
        PROVE  on'[f] = k /\ ~ WakeSent(f)'
    <3>1. CASE f = c
      <4>1. k = m
        BY <1>4, <1>6, <2>2, <3>1 DEF Expected
      <4> QED BY <1>2, <1>4, <1>5, <3>1, <4>1 DEF Expected
    <3>2. CASE f # c
      <4>1. f \in Range(waiters[k])
        BY <1>6, <2>2, <3>2
      <4>2. f \in Callers \ {c}
        BY <3>2, <4>1, MembersAre, HostsAre
      <4> QED BY <1>2, <1>5, <4>1, <4>2 DEF Unharmed, QueuedOnce
    <3> QED BY <3>1, <3>2
  <2> QED BY <2>1, <2>2
<1>11. SentOnce'
  BY <1>1 DEF Unharmed, SentOnce
<1>12. Served'
  <2> SUFFICES ASSUME NEW k \in Mutexes, lock[k] = None, waiters'[k] # << >>
               PROVE  \E d \in Callers : WillTry(d, k)'
    BY <1>1 DEF Served
  <2>1. k # m /\ waiters'[k] = waiters[k]
    BY <1>3, <1>6
  <2>2. PICK d \in Callers : WillTry(d, k)
    BY <2>1 DEF Unharmed, Served
  <2>3. d # c
    BY <1>3, <2>1, <2>2 DEF WillTry
  <2>4. WillTry(d, k)'
    BY <1>2, <2>1, <2>2, <2>3 DEF WillTry
  <2> QED BY <2>4
<1> QED BY <1>1, <1>9, <1>10, <1>11, <1>12, NotMoved DEF Unharmed

-----------------------------------------------------------------------------
(* The steps of one thread *)

\* A step of the scheduler that leaves every user in a call awake, or asleep as
\* it was, and takes the processor only from a fiber that is in its own code.
LEMMA UnharmedThread ==
    ASSUME Sane, Unharmed, NEW h \in Hosts, NEW u, Firm(u), Host_(h, u),
           UNCHANGED << mutexVars, callVars, box, crashed >>,
           \A f \in Users : Host(f) = h /\ at[f] # "run" =>
              /\ Calm(thr[h], u, f)
              /\ thr[h].running = f => u.running = f
    PROVE  Unharmed'
<1>1. /\ thr'[h] = u /\ \A k \in Hosts \ {h} : thr'[k] = thr[k]
  BY DEF Sane, TypeOK, Host_
<1>2. UNCHANGED << lock, waiters, at, on, popped, box, crashed >>
  BY DEF mutexVars, callVars
<1>3. /\ \A f : WakeSent(f)' <=> WakeSent(f)
      /\ \A f : Expected(f)' <=> Expected(f)
  BY <1>2, ExpectedKept
<1>4. ASSUME NEW f \in Users PROVE Placed(f)'
  <2>1. Placed(f) /\ Host(f) \in Hosts /\ at'[f] = at[f]
    BY <1>2, HostsAre DEF Unharmed
  <2>2. at[f] = "run" \/ Calm(thr[Host(f)], thr'[Host(f)], f)
    BY <1>1, <2>1 DEF Calm
  <2>3. \/ at[f] \in {"run", "wait"}
        \/ thr'[Host(f)].running = thr[Host(f)].running
    <3>1. at[f] \in Places /\ at[f] # "blocked"
      BY HostsAre DEF Sane, TypeOK
    <3>2. CASE at[f] \in {"queue", "switch", "wake"}
      <4>1. thr[Host(f)].running = f
        BY <2>1, <3>2 DEF Placed
      <4> QED BY <1>1, <2>1, <3>2, <4>1
    <3> QED BY <3>1, <3>2 DEF Places
  <2>4. Expected(f)' <=> Expected(f)
    BY <1>3
  <2> QED BY <2>1, <2>2, <2>3, <2>4, PlacedKept
<1>5. \A k \in Hosts : Firm(thr'[k])
  BY <1>1 DEF Unharmed
<1>6. QueuedOnce' /\ SentOnce'
  BY <1>2, <1>3 DEF Unharmed, QueuedOnce, SentOnce
<1>7. \A d, k : WillTry(d, k)' <=> WillTry(d, k)
  BY <1>2 DEF WillTry
<1>8. Served'
  BY <1>2, <1>7 DEF Unharmed, Served
<1> QED BY <1>2, <1>4, <1>5, <1>6, <1>8 DEF Unharmed

\* The sync waiter's fiber sleeps and wakes, the event fiber lets others run.
LEMMA UnharmedHost ==
    ASSUME Sane, Unharmed, NEW h \in Hosts,
           WakerSleeps(h) \/ WakerPolled(h) \/ Dispatch(h)
    PROVE  Unharmed' /\ Moved
<1> DEFINE t == thr[h]
<1>0. /\ Firm(t) /\ Sound(t) /\ t \in Threads /\ "ready" \in Rings
      /\ Waker(h) \in Fibers /\ Waker(h) \notin Users
      /\ Users \subseteq Fibers /\ None \notin Users
  BY HostsAre, RingsAssumption
     DEF Unharmed, Firm, Sound, RingsAssumption
<1>1. UNCHANGED << mutexVars, callVars, box, crashed >>
  BY DEF WakerSleeps, WakerPolled, Dispatch
<1>2. CASE WakerSleeps(h)
  <2> DEFINE u == Switch(t)
  <2>1. Host_(h, u) /\ t.running = Waker(h)
    BY <1>2 DEF WakerSleeps
  <2> HIDE DEF t
  <2>2. /\ Firm(u) /\ \A g \in Fibers \ {t.running} : Alike(t, u, g)
        /\ \A S : Listed(t, S) => Listed(u, S)
        /\ Linked(u, "timer") = Linked(t, "timer")
    BY <1>0, <2>1, FirmSwitch
  <2> HIDE DEF u
  <2>3. \A f \in Users : Calm(t, u, f) /\ t.running # f /\ Alike(t, u, f)
    BY <1>0, <2>1, <2>2 DEF Calm, Alike
  <2>4. Unharmed'
    BY <1>1, <2>1, <2>2, <2>3, UnharmedThread DEF t
  <2>5. Moved
    BY <2>1, <2>2, <2>3, MovedIs DEF t
  <2> QED BY <2>4, <2>5
<1>3. CASE WakerPolled(h)
  <2> DEFINE u == FiberReady(t, Waker(h))
  <2>1. Host_(h, u) /\ t.running = None /\ Waker(h) # t.running
    BY <1>0, <1>3, NoneAssumption DEF WakerPolled, NoneAssumption
  <2> HIDE DEF t
  <2>2. /\ Firm(u) /\ u.running = t.running
        /\ \A g \in Fibers \ {Waker(h)} : Alike(t, u, g)
        /\ \A S : Listed(t, S) => Listed(u, S)
        /\ Linked(u, "timer") \subseteq Linked(t, "timer")
    BY <1>0, <2>1, FirmWake
  <2> HIDE DEF u
  <2>3. \A f \in Users : Calm(t, u, f) /\ Alike(t, u, f)
    BY <1>0, <2>2 DEF Calm, Alike
  <2>4. Unharmed'
    BY <1>1, <2>1, <2>2, <2>3, UnharmedThread DEF t
  <2>5. Moved
    BY <2>1, <2>2, <2>3, MovedIs DEF t
  <2> QED BY <2>4, <2>5
<1>4. CASE Dispatch(h)
  <2> DEFINE u == RunFirst(t)
  <2>1. Host_(h, u) /\ t.running = None /\ ~ Empty(t, "ready")
    BY <1>4 DEF Dispatch
  <2> HIDE DEF t
  <2>2. /\ Firm(u) /\ \A g \in Fibers : Alike(t, u, g)
        /\ \A S : Listed(t, S) => Listed(u, S)
        /\ Linked(u, "timer") = Linked(t, "timer")
    BY <1>0, <2>1, FirmDispatch
  <2> HIDE DEF u
  <2>3. \A f \in Users : Calm(t, u, f) /\ t.running # f /\ Alike(t, u, f)
    BY <1>0, <2>1, <2>2 DEF Calm, Alike
  <2>4. Unharmed'
    BY <1>1, <2>1, <2>2, <2>3, UnharmedThread DEF t
  <2>5. Moved
    BY <2>1, <2>2, <2>3, MovedIs DEF t
  <2> QED BY <2>4, <2>5
<1> QED BY <1>2, <1>3, <1>4

LEMMA UnharmedYield ==
    ASSUME Sane, Unharmed, Untimed, NEW c \in Users, Yield(c)
    PROVE  Unharmed' /\ Untimed'
<1> DEFINE h == Host(c)
           t == thr[h]
           u == FiberYield(t)
<1>0. /\ h \in Hosts /\ Firm(t) /\ t.running = c /\ c \in Fibers
      /\ at[c] = "run" /\ Host_(h, u) /\ Users \subseteq Fibers
      /\ UNCHANGED << mutexVars, callVars, box, crashed >>
      /\ Linked(t, "timer") = {}
  BY HostsAre, RunningIs DEF Unharmed, Untimed, Yield
<1>1. /\ thr'[h] = u /\ \A k \in Hosts \ {h} : thr'[k] = thr[k]
  BY <1>0 DEF Sane, TypeOK, Host_
<1> HIDE DEF t, h
<1>2. Whole(t) /\ "timer" \in Rings \ {"ready"}
  BY <1>0, FirmIsWhole, MutexRings DEF MutexRings
<1>3. /\ Whole(u) /\ Awake(u) = Awake(t)
      /\ Linked(u, "timer") = Linked(t, "timer")
      /\ \A g \in Fibers \ Awake(t) : u.status[g] = t.status[g]
  BY <1>0, <1>2, YieldLemma
<1> HIDE DEF u
<1>4. Firm(u)
  BY <1>3, WholeIsFirm
<1>5. \A f \in Users : /\ Calm(t, u, f)
                       /\ t.running = f => at[f] = "run"
  BY <1>0, <1>3 DEF Calm
<1>6. Unharmed'
  BY <1>0, <1>4, <1>5, UnharmedThread DEF t
<1>7. \A f \in Users : at'[f] = "run" => f \in Awake(thr'[Host(f)])
  BY <1>0, <1>1, <1>3, HostsAre DEF Untimed, callVars, t
<1>8. \A k \in Hosts : Linked(thr'[k], "timer") = {}
  BY <1>0, <1>1, <1>3 DEF Untimed
<1> QED BY <1>6, <1>7, <1>8 DEF Untimed

\* A kill that wakes no waiter of the mutex does nothing to one.
LEMMA UnharmedKill ==
    ASSUME Sane, Unharmed, NEW c \in Users, NEW g \in Users, Kill(c, g),
           ~ KillWakes(g)
    PROVE  Unharmed'
<1> DEFINE h == Host(g)
           t == thr[h]
           u == FiberSignal(t, g)
<1>0. /\ h \in Hosts /\ Firm(t) /\ g \in Fibers
      /\ Host_(h, u) /\ Users \subseteq Fibers
      /\ UNCHANGED << mutexVars, callVars, box, crashed >>
  BY HostsAre DEF Unharmed, Kill
<1>1. at[g] = "run" \/ t.status[g] # "suspend"
  <2>1. Placed(g) /\ at[g] \in Places /\ at[g] # "blocked"
    BY HostsAre DEF Unharmed, Sane, TypeOK
  <2>2. t.running = g => t.status[g] = "running"
    BY <1>0, NoneAssumption DEF Firm, NoneAssumption
  <2> QED BY <2>1, <2>2 DEF Placed, Places, KillWakes
<1> HIDE DEF t, h
<1>2. /\ Firm(u) /\ u.running = t.running
      /\ \A f \in Fibers \ {g} : Alike(t, u, f)
      /\ t.status[g] # "suspend" => Awake(u) = Awake(t) /\ u.status = t.status
  BY <1>0, FirmSignal
<1> HIDE DEF u
<1>3. \A f \in Users : at[f] = "run" \/ Calm(t, u, f)
  BY <1>0, <1>1, <1>2 DEF Calm, Alike
<1> QED BY <1>0, <1>2, <1>3, UnharmedThread DEF t

\* Whoever switches away was in waiters, or is expected elsewhere by now.
LEMMA UnharmedSwitchAway ==
    ASSUME Sane, Unharmed, NEW c \in Callers, NEW m \in Mutexes,
           SwitchAway(c, m)
    PROVE  Unharmed' /\ Moved
<1> DEFINE h == Host(c)
           t == thr[h]
           u == Switch(t)
<1>0. /\ c \in Users /\ c \in Fibers /\ Users \subseteq Fibers
      /\ None \notin Users /\ Users \subseteq Callers /\ "wait" \in Places
  BY HostsAre DEF Sane, SwitchAway, In_, Places
<1>1. /\ Runs(c) /\ at[c] = "switch" /\ on[c] = m
      /\ Host_(h, u) /\ Goes(c, "wait", m)
      /\ UNCHANGED << lock, waiters, box, popped, crashed >>
  BY DEF SwitchAway, In_, mutexVars
<1>2. /\ t.running = c /\ Expected(c) /\ h \in Hosts /\ Firm(t)
      /\ \A g \in Users \ {c} : Host(g) = h => at[g] \in {"run", "wait"}
  BY <1>0, <1>1, RunningIs, HostsAre DEF Unharmed, Placed
<1>3. /\ at'[c] = "wait" /\ on'[c] = m
      /\ \A d \in Callers \ {c} : at'[d] = at[d] /\ on'[d] = on[d]
  BY <1>0, <1>1, GoesTyped
<1>4. /\ thr'[h] = u /\ \A k \in Hosts \ {h} : thr'[k] = thr[k]
  BY <1>1, <1>2 DEF Sane, TypeOK, Host_
<1> HIDE DEF t, h
<1>6. /\ Firm(u)
      /\ c \notin Awake(u) /\ u.status[c] = "suspend"
      /\ \A g \in Fibers \ {c} : Alike(t, u, g)
      /\ \A S : Listed(t, S) => Listed(u, S)
      /\ u.flag = t.flag /\ Linked(u, "timer") = Linked(t, "timer")
  BY <1>0, <1>2, FirmSwitch
<1> HIDE DEF u
<1>7. /\ \A f : WakeSent(f)' <=> WakeSent(f)
      /\ \A f : Expected(f)' <=> Expected(f)
  BY <1>1, ExpectedKept
<1>8. ASSUME NEW f \in Users PROVE Placed(f)'
  <2>1. CASE f = c
    <3>1. Expected(f)' /\ at'[f] = "wait"
      BY <1>2, <1>3, <1>7, <2>1
    <3>2. f \notin Awake(thr'[Host(f)]) /\ thr'[Host(f)].status[f] = "suspend"
      BY <1>4, <1>6, <2>1 DEF h
    <3> QED BY <3>1, <3>2 DEF Placed, Sleeps
  <2>2. CASE f # c
    <3>1. at'[f] = at[f] /\ Placed(f) /\ Host(f) \in Hosts
      BY <1>0, <1>3, <2>2, HostsAre DEF Unharmed
    <3>2. Expected(f)' <=> Expected(f)
      BY <1>7
    <3>3. CASE Host(f) = h
      <4>1. Calm(t, u, f)
        BY <1>0, <1>6, <2>2 DEF Calm, Alike
      <4>2. at[f] \in {"run", "wait"}
        BY <1>2, <2>2, <3>3
      <4>3. Calm(thr[Host(f)], thr'[Host(f)], f)
        BY <1>4, <3>3, <4>1 DEF t
      <4> QED BY <3>1, <3>2, <4>2, <4>3, PlacedKept
    <3>4. CASE Host(f) # h
      <4>1. thr'[Host(f)] = thr[Host(f)]
        BY <1>4, <3>1, <3>4
      <4>2. Calm(thr[Host(f)], thr'[Host(f)], f)
        BY <4>1 DEF Calm
      <4> QED BY <3>1, <3>2, <4>1, <4>2, PlacedKept
    <3> QED BY <3>3, <3>4
  <2> QED BY <2>1, <2>2
<1>9. \A k \in Hosts : Firm(thr'[k])
  BY <1>4, <1>6 DEF Unharmed
<1>10. on' = on
  BY <1>1, <1>3 DEF Sane, TypeOK, Goes
<1>11. QueuedOnce' /\ SentOnce'
  BY <1>1, <1>7, <1>10 DEF Unharmed, QueuedOnce, SentOnce
<1>12. ASSUME NEW d \in Callers, NEW k, WillTry(d, k) PROVE WillTry(d, k)'
  BY <1>1, <1>3, <1>10, <1>12 DEF WillTry
<1>13. Served'
  BY <1>1, <1>12 DEF Unharmed, Served
<1>14. \A f \in Users \ {c} : Alike(t, u, f)
  BY <1>0, <1>6
<1>15. Moved
  BY <1>1, <1>2, <1>3, <1>6, <1>14, MovedIs DEF t
<1> QED BY <1>1, <1>8, <1>9, <1>11, <1>13, <1>15 DEF Unharmed

-----------------------------------------------------------------------------
(* The steps that pass a wake-up on *)

\* The fiber g is woken in its thread, and nobody expects it any longer.
LEMMA UnharmedWoken ==
    ASSUME Sane, Unharmed, NEW g \in Users, at[g] = "wait", Expected(g),
           Host_(Host(g), Woken(g, thr[Host(g)])), UNCHANGED at,
           ~ Expected(g)',
           \A f \in Users \ {g} : Expected(f)' <=> Expected(f)
    PROVE  /\ \A f \in Users : Placed(f)'
           /\ \A h \in Hosts : Firm(thr'[h])
           /\ Moved
<1> DEFINE h == Host(g)
           t == thr[h]
           u == Woken(g, t)
<1>0. /\ h \in Hosts /\ Firm(t) /\ g \in Fibers /\ Users \subseteq Fibers
      /\ g \notin Awake(t)
  BY HostsAre DEF Unharmed, Placed, Sleeps
<1>1. /\ thr'[h] = u /\ \A k \in Hosts \ {h} : thr'[k] = thr[k]
  BY <1>0 DEF Sane, TypeOK, Host_
<1> HIDE DEF t, h
<1>2. /\ Firm(u) /\ u.running = t.running
      /\ Awake(u) = Awake(t) \cup {g}
      /\ \A f \in Fibers \ {g} : Alike(t, u, f)
      /\ \A S : Listed(t, S) => Listed(u, S)
      /\ u.flag = t.flag /\ Linked(u, "timer") \subseteq Linked(t, "timer")
  <2>1. g # t.running
    BY <1>0 DEF Awake
  <2>2. u = FiberReady(t, g)
    BY DEF Woken
  <2> HIDE DEF u
  <2> QED BY <1>0, <2>1, <2>2, FirmWake
<1> HIDE DEF u
<1>3. ASSUME NEW f \in Users PROVE Placed(f)'
  <2>1. CASE f = g
    <3>1. f \in Awake(thr'[Host(f)]) /\ at'[f] = "wait" /\ ~ Expected(f)'
      BY <1>1, <1>2, <2>1 DEF h
    <3> QED BY <3>1 DEF Placed
  <2>2. CASE f # g
    <3>1. at'[f] = at[f] /\ Placed(f) /\ Host(f) \in Hosts
      BY HostsAre DEF Unharmed
    <3>2. Expected(f)' <=> Expected(f)
      BY <2>2
    <3>3. CASE Host(f) = h
      <4>1. Calm(t, u, f)
        BY <1>0, <1>2, <2>2 DEF Calm, Alike
      <4>2. /\ Calm(thr[Host(f)], thr'[Host(f)], f)
            /\ thr'[Host(f)].running = thr[Host(f)].running
        BY <1>1, <1>2, <3>3, <4>1 DEF t
      <4> QED BY <3>1, <3>2, <4>2, PlacedKept
    <3>4. CASE Host(f) # h
      <4>1. thr'[Host(f)] = thr[Host(f)]
        BY <1>1, <3>1, <3>4
      <4>2. Calm(thr[Host(f)], thr'[Host(f)], f)
        BY <4>1 DEF Calm
      <4> QED BY <3>1, <3>2, <4>1, <4>2, PlacedKept
    <3> QED BY <3>3, <3>4
  <2> QED BY <2>1, <2>2
<1>4. \A k \in Hosts : Firm(thr'[k])
  BY <1>1, <1>2 DEF Unharmed
<1>5. \A f \in Users \ {g} : Alike(t, u, f)
  BY <1>0, <1>2
<1>6. Moved
  BY <1>0, <1>2, <1>5, MovedIs DEF t, h, u
<1> QED BY <1>3, <1>4, <1>6

\* The fiber at the head of waiters, when its mutex is given back by c.
LEMMA HeadIs ==
    ASSUME Sane, Unharmed, NEW m \in Mutexes, waiters[m] # << >>,
           NEW c \in Callers, at[c] = "run"
    PROVE  LET g == Head(waiters[m])
           IN  /\ g \in Users /\ g # c /\ Expected(g) /\ ~ WakeSent(g)
               /\ on[g] = m /\ at[g] \in {"switch", "wait"}
               /\ \A k \in Mutexes \ {m} : g \notin Range(waiters[k])
               /\ IsInjective(PopFront(waiters[m]))
               /\ Range(PopFront(waiters[m])) = Range(waiters[m]) \ {g}
<1> DEFINE g == Head(waiters[m])
<1>1. /\ waiters[m] \in Seq(Users) /\ IsInjective(waiters[m])
      /\ g \in Users /\ g \in Range(waiters[m])
  BY MembersAre DEF Unharmed, QueuedOnce
<1>2. /\ IsInjective(PopFront(waiters[m]))
      /\ Range(PopFront(waiters[m])) = Range(waiters[m]) \ {g}
  BY <1>1, PopFrontIs
<1> HIDE DEF g
<1>3. on[g] = m /\ ~ WakeSent(g)
  BY <1>1 DEF Unharmed, QueuedOnce
<1>4. Expected(g)
  BY <1>1 DEF Expected
<1>5. at[g] \in {"switch", "wait"}
  BY <1>1, <1>4 DEF Unharmed, Placed
<1>6. \A k \in Mutexes \ {m} : g \notin Range(waiters[k])
  BY <1>3 DEF Unharmed, QueuedOnce
<1> QED BY <1>1, <1>2, <1>3, <1>4, <1>5, <1>6 DEF g

\* Whoever an unlock takes out of waiters will try the mutex, for the others.
LEMMA ServedUnlock ==
    ASSUME Sane, Unharmed, NEW c \in Callers, NEW m \in Mutexes, Unlock(c, m),
           \A d \in Callers \ {c} : at'[d] = at[d] /\ on'[d] = on[d]
    PROVE  Served'
<1>0. TypeOK /\ None \notin Callers /\ Users \subseteq Callers
  BY HostsAre DEF Sane
<1>1. /\ at[c] = "run"
      /\ lock' = [lock EXCEPT ![m] = None]
      /\ waiters' = [waiters EXCEPT ![m] = PopFront(@)]
  BY DEF Unlock, Calls
<1>2. /\ waiters'[m] = PopFront(waiters[m])
      /\ \A k \in Mutexes \ {m} : waiters'[k] = waiters[k] /\ lock'[k] = lock[k]
  BY <1>0, <1>1 DEF TypeOK
<1> SUFFICES ASSUME NEW k \in Mutexes, lock'[k] = None, waiters'[k] # << >>
             PROVE  \E d \in Callers : WillTry(d, k)'
  BY DEF Served
<1>3. CASE k = m
  <2>0. PICK g : g = Head(waiters[m])
    OBVIOUS
  <2>1. waiters[m] # << >>
    BY <1>2, <1>3, MembersAre, PopFrontIs
  <2>2. /\ g \in Users /\ g # c /\ on[g] = m /\ at[g] \in {"switch", "wait"}
        /\ Range(PopFront(waiters[m])) = Range(waiters[m]) \ {g}
    BY <1>1, <2>0, <2>1, HeadIs
  <2>3. g \in Callers \ {c} /\ g \notin Range(waiters'[m])
    BY <1>0, <1>2, <2>2
  <2>4. WillTry(g, m)'
    BY <2>2, <2>3 DEF WillTry
  <2> QED BY <1>3, <2>3, <2>4
<1>4. CASE k # m
  <2>1. PICK d \in Callers : WillTry(d, k)
    BY <1>2, <1>4 DEF Unharmed, Served
  <2>2. d # c
    BY <1>1, <2>1 DEF WillTry
  <2>3. WillTry(d, k)'
    BY <1>2, <1>4, <2>1, <2>2 DEF WillTry
  <2> QED BY <2>3
<1> QED BY <1>3, <1>4

\* An unlock that finds nobody, or a fiber of its own thread.
LEMMA UnharmedUnlockHere ==
    ASSUME Sane, Unharmed, NEW c \in Callers, NEW m \in Mutexes, Unlock(c, m),
           waiters[m] # << >> => /\ c \in Users
                                 /\ Host(Head(waiters[m])) = Host(c)
    PROVE  Unharmed' /\ Moved
<1> PICK g : g = Head(waiters[m])
  OBVIOUS
<1>0. TypeOK /\ Runs(c) /\ at[c] = "run"
  BY DEF Sane, Unlock, Calls
<1>1. /\ UNCHANGED << box, crashed, at, on, popped >>
      /\ waiters' = [waiters EXCEPT ![m] = PopFront(@)]
  <2>1. waiters[m] # << >> => g # None
    BY MembersAre, HostsAre
  <2> QED BY <2>1 DEF Unlock, callVars
<1>2. \A f : WakeSent(f)' <=> WakeSent(f)
  BY <1>1 DEF WakeSent
<1>3. /\ waiters'[m] = PopFront(waiters[m])
      /\ \A k \in Mutexes \ {m} : waiters'[k] = waiters[k]
  BY <1>0, <1>1 DEF TypeOK
<1>4. Served'
  BY <1>1, ServedUnlock
<1>5. \A k \in Mutexes :
         IsInjective(waiters'[k]) /\ Range(waiters'[k]) \subseteq Range(waiters[k])
  <2>1. CASE waiters[m] = << >>
    <3>1. waiters' [m] = waiters[m]
      BY <1>3, <2>1, MembersAre, PopFrontIs
    <3> QED BY <1>3, <3>1 DEF Unharmed, QueuedOnce
  <2>2. CASE waiters[m] # << >>
    <3>1. /\ IsInjective(PopFront(waiters[m]))
          /\ Range(PopFront(waiters[m])) = Range(waiters[m]) \ {g}
      BY <1>0, <2>2, HeadIs
    <3> QED BY <1>3, <3>1 DEF Unharmed, QueuedOnce
  <2> QED BY <2>1, <2>2
<1>6. QueuedOnce' /\ SentOnce'
  BY <1>1, <1>2, <1>5 DEF Unharmed, QueuedOnce, SentOnce
<1>7. /\ \A f \in Users : Placed(f)'
      /\ \A h \in Hosts : Firm(thr'[h])
      /\ Moved
  <2>1. CASE waiters[m] = << >>
    <3>1. waiters'[m] = waiters[m]
      BY <1>3, <2>1, MembersAre, PopFrontIs
    <3>2. thr' = thr
      BY <2>1 DEF Unlock
    <3>3. \A f : Expected(f)' <=> Expected(f)
      BY <1>2, <1>3, <3>1 DEF Expected
    <3>4. ASSUME NEW f \in Users PROVE Placed(f)'
      BY <1>1, <3>2, <3>3, PlacedKept DEF Unharmed, Calm
    <3> QED BY <3>2, <3>4, NotMoved DEF Unharmed
  <2>2. CASE waiters[m] # << >>
    <3>1. /\ g \in Users /\ g # c /\ Expected(g) /\ ~ WakeSent(g)
          /\ at[g] \in {"switch", "wait"}
          /\ \A k \in Mutexes \ {m} : g \notin Range(waiters[k])
          /\ Range(PopFront(waiters[m])) = Range(waiters[m]) \ {g}
      BY <1>0, <2>2, HeadIs
    <3>2. c \in Users /\ Host(g) = Host(c) /\ g # None
      BY <2>2, <3>1, HostsAre
    <3>3. Host_(Host(g), Woken(g, thr[Host(g)]))
      BY <2>2, <3>2 DEF Unlock
    <3>4. at[g] = "wait"
      BY <1>0, <3>1, <3>2, RunningIs
    <3>5. ~ Expected(g)'
      BY <1>2, <1>3, <3>1 DEF Expected
    <3>6. \A f \in Users \ {g} : Expected(f)' <=> Expected(f)
      BY <1>2, <1>3, <3>1 DEF Expected
    <3> QED BY <1>1, <3>1, <3>3, <3>4, <3>5, <3>6, UnharmedWoken
  <2> QED BY <2>1, <2>2
<1> QED BY <1>1, <1>4, <1>6, <1>7 DEF Unharmed

\* An unlock that takes a fiber of another thread out of waiters.
LEMMA UnharmedUnlockElsewhere ==
    ASSUME Sane, Unharmed, NEW c \in Callers, NEW m \in Mutexes, Unlock(c, m),
           waiters[m] # << >>,
           ~ (c \in Users /\ Host(Head(waiters[m])) = Host(c))
    PROVE  Unharmed' /\ Moved
<1> PICK g : g = Head(waiters[m])
  OBVIOUS
<1>0. TypeOK /\ Runs(c) /\ at[c] = "run" /\ popped[c] = None
  BY DEF Sane, Unlock, Calls
<1>1. /\ g \in Users /\ g # c /\ Expected(g) /\ ~ WakeSent(g)
      /\ on[g] = m /\ at[g] \in {"switch", "wait"}
      /\ \A k \in Mutexes \ {m} : g \notin Range(waiters[k])
      /\ IsInjective(PopFront(waiters[m]))
      /\ Range(PopFront(waiters[m])) = Range(waiters[m]) \ {g}
  BY <1>0, HeadIs
<1>2. /\ UNCHANGED << box, crashed, thr >>
      /\ waiters' = [waiters EXCEPT ![m] = PopFront(@)]
      /\ Goes(c, "wake", m)
      /\ popped' = [popped EXCEPT ![c] = g]
  <2>1. g # None
    BY <1>1, HostsAre
  <2> QED BY <2>1 DEF Unlock
<1>3. /\ at'[c] = "wake"
      /\ \A d \in Callers \ {c} : at'[d] = at[d] /\ on'[d] = on[d]
  BY <1>2, GoesTyped DEF Places
<1>4. popped'[c] = g /\ \A d \in Callers \ {c} : popped'[d] = popped[d]
  BY <1>0, <1>2 DEF TypeOK
<1>5. /\ waiters'[m] = PopFront(waiters[m])
      /\ \A k \in Mutexes \ {m} : waiters'[k] = waiters[k]
  BY <1>0, <1>2 DEF TypeOK
<1>6. /\ WakeSent(g)'
      /\ \A f \in Users \ {g} : WakeSent(f)' <=> WakeSent(f)
  <2>1. WakeSent(g)'
    BY <1>4 DEF WakeSent
  <2>2. \A f \in Users \ {g} : (\E d \in Callers : popped'[d] = f) <=>
                               (\E d \in Callers : popped[d] = f)
    BY <1>0, <1>4, HostsAre
  <2> QED BY <1>2, <2>1, <2>2 DEF WakeSent
<1>7. \A f \in Users : Expected(f)' <=> Expected(f)
  BY <1>1, <1>5, <1>6 DEF Expected
<1>8. c \in Users => ~ Expected(c) /\ thr[Host(c)].running = c
  BY <1>0, RunningIs
<1>9. ASSUME NEW f \in Users PROVE Placed(f)'
  <2>1. CASE f = c
    BY <1>2, <1>3, <1>7, <1>8, <2>1 DEF Placed
  <2>2. CASE f # c
    <3>1. at'[f] = at[f] /\ Placed(f)
      BY <1>3, <2>2, HostsAre DEF Unharmed
    <3>2. Calm(thr[Host(f)], thr'[Host(f)], f) /\ thr' = thr
      BY <1>2 DEF Calm
    <3>3. Expected(f)' <=> Expected(f)
      BY <1>7
    <3> QED BY <3>1, <3>2, <3>3, PlacedKept
  <2> QED BY <2>1, <2>2
<1>10. QueuedOnce'
  <2> SUFFICES ASSUME NEW k \in Mutexes
               PROVE  /\ IsInjective(waiters'[k])
                      /\ \A f \in Range(waiters'[k]) :
                            on'[f] = k /\ ~ WakeSent(f)'
    BY DEF QueuedOnce
  <2>1. IsInjective(waiters'[k])
    BY <1>1, <1>5 DEF Unharmed, QueuedOnce
  <2>2. ASSUME NEW f \in Range(waiters'[k])
        PROVE  on'[f] = k /\ ~ WakeSent(f)'
    <3>1. f \in Range(waiters[k]) /\ f # g /\ f \in Users
      BY <1>1, <1>5, <2>2, MembersAre
    <3>2. on[f] = k /\ ~ WakeSent(f)
      BY <3>1 DEF Unharmed, QueuedOnce
    <3>3. f \in Callers \ {c}
      BY <1>8, <3>1, HostsAre DEF Expected
    <3> QED BY <1>3, <1>6, <3>1, <3>2, <3>3
  <2> QED BY <2>1, <2>2
<1>11. SentOnce'
  <2>1. /\ \A h \in Hosts : g \notin Range(box[h])
        /\ \A d \in Callers : popped[d] # g
    BY <1>1 DEF WakeSent
  <2>2. ASSUME NEW h \in Hosts, NEW f \in Range(box[h])
        PROVE  \A d \in Callers : popped'[d] # f
    BY <1>4, <2>1 DEF Unharmed, SentOnce
  <2>3. \A d, e \in Callers :
           popped'[d] = popped'[e] /\ popped'[d] # None => d = e
    BY <1>4, <2>1 DEF Unharmed, SentOnce
  <2> QED BY <1>2, <2>2, <2>3 DEF Unharmed, SentOnce
<1>12. Served'
  BY <1>3, ServedUnlock
<1> QED BY <1>2, <1>9, <1>10, <1>11, <1>12, NotMoved DEF Unharmed

LEMMA UnharmedUnlock ==
    ASSUME Sane, Unharmed, NEW c \in Callers, NEW m \in Mutexes, Unlock(c, m)
    PROVE  Unharmed' /\ Moved
<1>1. CASE waiters[m] # << >> => c \in Users /\ Host(Head(waiters[m])) = Host(c)
  BY <1>1, UnharmedUnlockHere
<1>2. CASE waiters[m] # << >> /\ ~ (c \in Users /\ Host(Head(waiters[m])) = Host(c))
  BY <1>2, UnharmedUnlockElsewhere
<1> QED BY <1>1, <1>2

\* The wake-up moves from the hands of the unlock to the box.
LEMMA UnharmedSendWake ==
    ASSUME Sane, Unharmed, NEW c \in Callers, NEW m \in Mutexes, SendWake(c, m)
    PROVE  Unharmed' /\ Moved
<1> PICK g : g = popped[c]
  OBVIOUS
<1>0. TypeOK /\ Runs(c) /\ at[c] = "wake" /\ "run" \in Places
  BY DEF Sane, SendWake, In_, Places
<1>1. /\ g \in Users /\ Host(g) \in Hosts /\ popped[c] # None
  BY <1>0, HostsAre DEF Sane, TypeOK
<1>2. /\ UNCHANGED << thr, lock, waiters, crashed >>
      /\ box' = [box EXCEPT ![Host(g)] = Append(@, g)]
      /\ popped' = [popped EXCEPT ![c] = None]
      /\ Goes(c, "run", None)
  BY DEF SendWake, Addressee, mutexVars
<1>3. /\ at'[c] = "run"
      /\ \A d \in Callers \ {c} : at'[d] = at[d] /\ on'[d] = on[d]
  BY <1>0, <1>2, GoesTyped
<1>4. popped'[c] = None /\ \A d \in Callers \ {c} : popped'[d] = popped[d]
  BY <1>0, <1>2 DEF TypeOK
<1>5. /\ IsInjective(box'[Host(g)])
      /\ Range(box'[Host(g)]) = Range(box[Host(g)]) \cup {g}
      /\ \A h \in Hosts \ {Host(g)} : box'[h] = box[h]
  <2>1. /\ box[Host(g)] \in Seq(Users) /\ IsInjective(box[Host(g)])
        /\ g \notin Range(box[Host(g)])
    BY <1>0, <1>1 DEF TypeOK, Unharmed, SentOnce
  <2>2. /\ box'[Host(g)] = Append(box[Host(g)], g)
        /\ \A h \in Hosts \ {Host(g)} : box'[h] = box[h]
    BY <1>0, <1>1, <1>2 DEF TypeOK
  <2> QED BY <1>1, <2>1, <2>2, AppendedProperties
<1>6. ASSUME NEW f \in Users PROVE WakeSent(f)' <=> WakeSent(f)
  <2>1. CASE f = g
    <3>1. WakeSent(f)
      BY <2>1 DEF WakeSent
    <3>2. WakeSent(f)'
      BY <1>1, <1>5, <2>1 DEF WakeSent
    <3> QED BY <3>1, <3>2
  <2>2. CASE f # g
    <3>1. (\E d \in Callers : popped'[d] = f) <=> (\E d \in Callers : popped[d] = f)
      BY <1>4, <2>2, HostsAre
    <3>2. (\E h \in Hosts : f \in Range(box'[h])) <=>
          (\E h \in Hosts : f \in Range(box[h]))
      BY <1>5, <2>2
    <3> QED BY <3>1, <3>2 DEF WakeSent
  <2> QED BY <2>1, <2>2
<1>7. \A f \in Users : Expected(f)' <=> Expected(f)
  BY <1>2, <1>6 DEF Expected
<1>8. c \in Users => ~ Expected(c) /\ c \in Awake(thr[Host(c)])
  BY <1>0, RunningIs
<1>9. ASSUME NEW f \in Users PROVE Placed(f)'
  <2>1. CASE f = c
    BY <1>2, <1>3, <1>7, <1>8, <2>1 DEF Placed
  <2>2. CASE f # c
    <3>1. at'[f] = at[f] /\ Placed(f)
      BY <1>3, <2>2, HostsAre DEF Unharmed
    <3>2. Calm(thr[Host(f)], thr'[Host(f)], f) /\ thr' = thr
      BY <1>2 DEF Calm
    <3>3. Expected(f)' <=> Expected(f)
      BY <1>7
    <3> QED BY <3>1, <3>2, <3>3, PlacedKept
  <2> QED BY <2>1, <2>2
<1>10. QueuedOnce'
  <2> SUFFICES ASSUME NEW k \in Mutexes
               PROVE  /\ IsInjective(waiters[k])
                      /\ \A f \in Range(waiters[k]) :
                            on'[f] = k /\ ~ WakeSent(f)'
    BY <1>2 DEF QueuedOnce
  <2>1. ASSUME NEW f \in Range(waiters[k])
        PROVE  on'[f] = k /\ ~ WakeSent(f)'
    <3>1. f \in Users /\ on[f] = k /\ ~ WakeSent(f)
      BY MembersAre DEF Unharmed, QueuedOnce
    <3>2. f \in Callers \ {c}
      BY <1>8, <3>1, HostsAre DEF Expected
    <3> QED BY <1>3, <1>6, <3>1, <3>2
  <2> QED BY <2>1 DEF Unharmed, QueuedOnce
<1>11. SentOnce'
  <2>1. ASSUME NEW h \in Hosts
        PROVE  /\ IsInjective(box'[h])
               /\ \A f \in Range(box'[h]) :
                     Host(f) = h /\ \A d \in Callers : popped'[d] # f
    <3>1. IsInjective(box'[h])
      BY <1>5 DEF Unharmed, SentOnce
    <3>2. ASSUME NEW f \in Range(box'[h]), NEW d \in Callers
          PROVE  Host(f) = h /\ popped'[d] # f
      <4>1. CASE f \in Range(box[h])
        <5>1. Host(f) = h /\ popped[d] # f
          BY <4>1 DEF Unharmed, SentOnce
        <5>2. f # None
          <6>1. box[h] \in Seq(Users)
            BY <1>0 DEF TypeOK
          <6>2. f \in Users
            BY <4>1, <6>1, RangeIs
          <6> QED BY <6>2, HostsAre
        <5> QED BY <1>4, <5>1, <5>2
      <4>2. CASE f \notin Range(box[h])
        <5>1. f = g /\ h = Host(g)
          BY <1>5, <3>2, <4>2
        <5>2. d # c => popped[d] # g
          BY <1>1 DEF Unharmed, SentOnce
        <5>3. g # None
          BY <1>1
        <5> QED BY <1>4, <5>1, <5>2, <5>3
      <4> QED BY <4>1, <4>2
    <3> QED BY <3>1, <3>2
  <2>2. \A d, e \in Callers :
           popped'[d] = popped'[e] /\ popped'[d] # None => d = e
    BY <1>4 DEF Unharmed, SentOnce
  <2> QED BY <2>1, <2>2 DEF SentOnce
<1>12. Served'
  <2> SUFFICES ASSUME NEW k \in Mutexes, lock[k] = None, waiters[k] # << >>
               PROVE  \E d \in Callers : WillTry(d, k)'
    BY <1>2 DEF Served
  <2>1. PICK d \in Callers : WillTry(d, k)
    BY DEF Unharmed, Served
  <2>2. d # c
    BY <1>0, <2>1 DEF WillTry
  <2>3. WillTry(d, k)'
    BY <1>2, <1>3, <2>1, <2>2 DEF WillTry
  <2> QED BY <2>3
<1> QED BY <1>2, <1>9, <1>10, <1>11, <1>12, NotMoved DEF Unharmed

\* The fiber that the message names is asleep, so the assertion holds.
LEMMA UnharmedWakerReads ==
    ASSUME Sane, Unharmed, NEW h \in Hosts, WakerReads(h)
    PROVE  Unharmed' /\ Moved
<1> PICK g : g = Head(box[h])
  OBVIOUS
<1>0. TypeOK /\ box[h] # << >> /\ thr[h].running = Waker(h)
  BY DEF Sane, WakerReads
<1>1. /\ box[h] \in Seq(Users) /\ IsInjective(box[h])
      /\ g \in Range(box[h]) /\ g \in Users
      /\ IsInjective(Tail(box[h])) /\ Range(Tail(box[h])) = Range(box[h]) \ {g}
  <2>1. box[h] \in Seq(Users) /\ IsInjective(box[h])
    BY <1>0 DEF TypeOK, Unharmed, SentOnce
  <2> QED BY <1>0, <2>1, HeadTailRange
<1>2. WakeSent(g) /\ Expected(g) /\ Host(g) = h /\ \A d \in Callers : popped[d] # g
  BY <1>1 DEF WakeSent, Expected, Unharmed, SentOnce
<1>3. at[g] = "wait" /\ thr[h].status[g] = "suspend"
  <2>1. g # Waker(h)
    BY <1>1, HostsAre
  <2> QED BY <1>0, <1>1, <1>2, <2>1 DEF Unharmed, Placed, Sleeps
<1>4. /\ Host_(h, Woken(g, thr[h])) /\ UNCHANGED << crashed, mutexVars, callVars >>
      /\ box' = [box EXCEPT ![h] = Tail(@)]
  BY <1>3 DEF WakerReads
<1>5. UNCHANGED << lock, waiters, at, on, popped, crashed >>
  BY <1>4 DEF mutexVars, callVars
<1>6. box'[h] = Tail(box[h]) /\ \A k \in Hosts \ {h} : box'[k] = box[k]
  BY <1>0, <1>4 DEF TypeOK
<1>7. \A k \in Hosts \ {h} : g \notin Range(box[k])
  BY <1>2 DEF Unharmed, SentOnce
<1>8. ~ WakeSent(g)'
  BY <1>1, <1>2, <1>5, <1>6, <1>7 DEF WakeSent
<1>9. \A f \in Users \ {g} : WakeSent(f)' <=> WakeSent(f)
  BY <1>1, <1>5, <1>6 DEF WakeSent
<1>10. ~ Expected(g)'
  <2>1. \A m \in Mutexes : g \notin Range(waiters[m])
    BY <1>2 DEF Unharmed, QueuedOnce
  <2> QED BY <1>5, <1>8, <2>1 DEF Expected
<1>11. \A f \in Users \ {g} : Expected(f)' <=> Expected(f)
  BY <1>5, <1>9 DEF Expected
<1>12. /\ \A f \in Users : Placed(f)'
       /\ \A k \in Hosts : Firm(thr'[k])
       /\ Moved
  BY <1>1, <1>2, <1>3, <1>4, <1>5, <1>10, <1>11, UnharmedWoken
<1>13. QueuedOnce'
  <2>1. \A f \in Users : WakeSent(f)' => WakeSent(f)
    BY <1>8, <1>9
  <2> QED BY <1>5, <2>1, MembersAre DEF Unharmed, QueuedOnce
<1>14. SentOnce'
  <2>1. \A k \in Hosts :
           IsInjective(box'[k]) /\ Range(box'[k]) \subseteq Range(box[k])
    BY <1>1, <1>6 DEF Unharmed, SentOnce
  <2> QED BY <1>5, <2>1 DEF Unharmed, SentOnce
<1>15. \A d, k : WillTry(d, k)' <=> WillTry(d, k)
  BY <1>5 DEF WillTry
<1>16. Served'
  BY <1>5, <1>15 DEF Unharmed, Served
<1> QED BY <1>5, <1>12, <1>13, <1>14, <1>16 DEF Unharmed

-----------------------------------------------------------------------------
(* The theorems *)

LEMMA UnharmedInit ==
    ASSUME Init
    PROVE  Unharmed /\ Untimed
<1>1. /\ thr \in [Hosts -> Threads]
      /\ \A h \in Hosts : /\ Firm(thr[h]) /\ Awake(thr[h]) = Home(h) \cup {None}
                          /\ Linked(thr[h], "timer") = {}
  BY InitThreads, WholeIsFirm
<1>2. /\ \A m \in Mutexes : waiters[m] = << >>
      /\ \A h \in Hosts : box[h] = << >>
      /\ \A c \in Callers : at[c] = "run" /\ popped[c] = None
      /\ ~ crashed
  BY DEF Init
<1>3. Range(<< >>) = {} /\ IsInjective(<< >>)
  BY DEF Range, IsInjective
<1>4. \A f \in Users : ~ Expected(f)
  BY <1>2, <1>3, HostsAre DEF Expected, WakeSent
<1>5. ASSUME NEW f \in Users PROVE Placed(f)
  BY <1>2, <1>4, HostsAre DEF Placed
<1>6. QueuedOnce /\ SentOnce /\ Served
  BY <1>2, <1>3 DEF QueuedOnce, SentOnce, Served
<1>7. Untimed
  BY <1>1, HostsAre DEF Untimed
<1> QED BY <1>1, <1>2, <1>5, <1>6, <1>7 DEF Unharmed

\* Where a call goes: only its caller moves on, and back to its own code without
\* losing the processor.
LEMMA CallsAt ==
    ASSUME Sane, NEW c \in Callers, NEW m \in Mutexes,
           TakeFree(c, m) \/ CallStep(c, m)
    PROVE  /\ \A d \in Callers \ {c} : at'[d] = at[d]
           /\ at[c] # "run" /\ at'[c] = "run" => thr' = thr /\ Runs(c)
           /\ Runs(c)
<1>1. \/ UNCHANGED at
      \/ \E place \in Places, k \in Mutexes \cup {None} : Goes(c, place, k)
  BY Zenon DEF TakeFree, CallStep, FindTaken, Queue, QueueTakes, SwitchAway,
     Block, BlockedTakes, Unlock, SendWake, Taken, callVars, Places
<1>2. \A d \in Callers \ {c} : at'[d] = at[d]
  BY <1>1, GoesTyped
<1>3. Runs(c)
  BY DEF TakeFree, CallStep, FindTaken, Queue, QueueTakes, SwitchAway,
     Block, BlockedTakes, Unlock, SendWake, Attempts, Calls, In_
<1>4. \/ thr' = thr
      \/ at[c] = "run"
      \/ Goes(c, "wait", m)
  BY DEF TakeFree, CallStep, FindTaken, Queue, QueueTakes, SwitchAway,
     Block, BlockedTakes, Unlock, SendWake, Calls
<1>5. Goes(c, "wait", m) => at'[c] = "wait"
  BY GoesTyped DEF Places
<1> QED BY <1>2, <1>3, <1>4, <1>5

\* The timers stay empty, and who is in its own code runs or will.
LEMMA UntimedStep ==
    ASSUME Sane, Unharmed, Untimed, Moved,
           \A f \in Users : at[f] # "run" /\ at'[f] = "run" =>
                               thr' = thr /\ Runs(f)
    PROVE  Untimed'
<1>1. \A h \in Hosts : Linked(thr'[h], "timer") = {}
  BY DEF Moved, Untimed
<1>2. ASSUME NEW f \in Users, at'[f] = "run"
      PROVE  f \in Awake(thr'[Host(f)])
  <2>1. CASE at[f] = "run"
    BY <1>2, <2>1 DEF Moved, Alike, Untimed
  <2>2. CASE at[f] # "run"
    BY <1>2, <2>2, RunningIs
  <2> QED BY <2>1, <2>2
<1> QED BY <1>1, <1>2 DEF Untimed

\* A kill that wakes nobody does nothing to the timers either.
LEMMA UntimedKill ==
    ASSUME Sane, Unharmed, Untimed, NEW c \in Users, NEW g \in Users, Kill(c, g)
    PROVE  Untimed'
<1> DEFINE h == Host(g)
           t == thr[h]
           u == FiberSignal(t, g)
<1>0. /\ h \in Hosts /\ Firm(t) /\ g \in Fibers /\ Host_(h, u) /\ at' = at
  BY HostsAre DEF Unharmed, Kill, callVars
<1>1. /\ thr'[h] = u /\ \A k \in Hosts \ {h} : thr'[k] = thr[k]
  BY <1>0 DEF Sane, TypeOK, Host_
<1> HIDE DEF t, h
<1>2. /\ Linked(u, "timer") \subseteq Linked(t, "timer")
      /\ \A f \in Fibers \ {g} : Alike(t, u, f)
      /\ g \in Awake(t) => g \in Awake(u)
  BY <1>0, FirmSignal
<1> HIDE DEF u
<1>3. \A k \in Hosts : Linked(thr'[k], "timer") = {}
  BY <1>1, <1>2 DEF Untimed, t
<1>4. \A f \in Users : f \in Awake(thr[Host(f)]) => f \in Awake(thr'[Host(f)])
  BY <1>1, <1>2, HostsAre DEF Alike, t
<1> QED BY <1>0, <1>3, <1>4 DEF Untimed

\* What a step keeps, unless it is the kill of a fiber that waits.
LEMMA MutexStep ==
    ASSUME MutexInv, [Next]_vars
    PROVE  MutexInv'
<1>1. Sane /\ Sane'
  BY SaneStep DEF MutexInv
<1> SUFFICES ASSUME ~ harmed' PROVE Unharmed' /\ Untimed'
  BY <1>1 DEF MutexInv
<1>2. ~ harmed /\ Unharmed /\ Untimed
  <2>1. \/ harmed' = harmed
        \/ \E g \in Victims : harmed' = (harmed \/ KillWakes(g))
    BY DEF Next, vars
  <2>2. ~ harmed
    BY <2>1, Zenon
  <2> QED BY <2>2 DEF MutexInv
<1>3. CASE UNCHANGED vars
  BY <1>2, <1>3 DEF vars, codeVars, mutexVars, callVars, Unharmed, Placed,
     Sleeps, Expected, WakeSent, QueuedOnce, SentOnce, Served, WillTry, Untimed
<1>4. ASSUME NEW c \in Callers, NEW m \in Mutexes,
             TakeFree(c, m) \/ CallStep(c, m)
      PROVE  Unharmed' /\ Untimed'
  <2>1. Unharmed' /\ Moved
    BY <1>1, <1>2, <1>4, UnharmedOwn, UnharmedQueue, UnharmedSwitchAway,
       UnharmedUnlock, UnharmedSendWake DEF CallStep
  <2>2. \A f \in Users : at[f] # "run" /\ at'[f] = "run" => thr' = thr /\ Runs(f)
    BY <1>1, <1>4, CallsAt, HostsAre
  <2> QED BY <1>1, <1>2, <2>1, <2>2, UntimedStep
<1>5. ASSUME NEW h \in Hosts, HostStep(h)
      PROVE  Unharmed' /\ Untimed'
  <2>1. Unharmed' /\ Moved
    BY <1>1, <1>2, <1>5, UnharmedHost, UnharmedWakerReads DEF HostStep
  <2>2. at' = at
    BY <1>5 DEF HostStep, WakerReads, WakerSleeps, WakerPolled, Dispatch, callVars
  <2> QED BY <1>1, <1>2, <2>1, <2>2, UntimedStep
<1>6. ASSUME NEW f \in Users, Yield(f)
      PROVE  Unharmed' /\ Untimed'
  BY <1>1, <1>2, <1>6, UnharmedYield
<1>7. ASSUME NEW f \in Users, NEW g \in Victims, Kill(f, g),
             harmed' = (harmed \/ KillWakes(g))
      PROVE  Unharmed' /\ Untimed'
  <2>1. g \in Users /\ ~ KillWakes(g)
    BY <1>7, FibersOfThreadsAssumption DEF FibersOfThreadsAssumption
  <2> QED BY <1>1, <1>2, <1>7, <2>1, UnharmedKill, UntimedKill
<1> QED BY <1>3, <1>4, <1>5, <1>6, <1>7 DEF Next

\* The inductive invariant holds of every run of fiber_mutex.c, for any fibers,
\* threads, mutexes and victims.
THEOREM MutexInductive == Spec => []MutexInv
<1>1. Init => MutexInv
  BY SaneInit, UnharmedInit DEF MutexInv
<1>2. MutexInv /\ [Next]_vars => MutexInv'
  BY MutexStep
<1> QED BY <1>1, <1>2, PTL DEF Spec

\* Each fiber is in waiters once, while it is in the call and nobody has chosen
\* it, and what sync_waiter.c asserts of a wake-up is so, until a kill wakes a
\* waiter.
THEOREM MutexWaitersAsleep == Spec => []WaitersAsleep
<1>1. ASSUME MutexInv PROVE WaitersAsleep
  <2> SUFFICES ASSUME Unharmed PROVE WaitersAsleep
    BY <1>1 DEF MutexInv, WaitersAsleep
  <2>1. ASSUME NEW m \in Mutexes, NEW f \in Range(waiters[m])
        PROVE  /\ at[f] \in {"switch", "wait"} /\ on[f] = m
               /\ ~ WakeSent(f)
               /\ at[f] = "wait" => thr[Host(f)].status[f] = "suspend"
    <3>1. f \in Users /\ Expected(f)
      BY <1>1, MembersAre DEF Expected, MutexInv
    <3>2. on[f] = m /\ ~ WakeSent(f)
      BY DEF Unharmed, QueuedOnce
    <3> QED BY <3>1, <3>2 DEF Unharmed, Placed, Sleeps
  <2> QED BY <2>1 DEF WaitersAsleep, Unharmed, QueuedOnce
<1> QED BY <1>1, MutexInductive, PTL

\* No fiber waits for a free mutex that nobody is on the way to take, until a
\* kill wakes a waiter.
THEOREM MutexNoneStranded == Spec => []NoneStranded
<1>1. MutexInv => NoneStranded
  BY DEF MutexInv, Unharmed, Served, NoneStranded
<1> QED BY <1>1, MutexInductive, PTL

\* The types always hold, and the rings of each thread stay intact and every
\* fiber runs, is ready or will be woken, until a kill wakes a waiter.
THEOREM MutexNoFiberLost == Spec => []NoFiberLost
<1>1. ASSUME MutexInv PROVE NoFiberLost
  <2>0. TypeOK
    BY <1>1 DEF MutexInv, Sane
  <2> SUFFICES ASSUME Unharmed, Untimed
               PROVE  /\ \A h \in Hosts : RingsIntact(thr[h])
                      /\ \A f \in Users :
                            \/ Reachable(thr[Host(f)], f) \/ WakeSent(f)
                            \/ \E m \in Mutexes : f \in Range(waiters[m])
    BY <1>1, <2>0 DEF MutexInv, NoFiberLost
  <2>1. ASSUME NEW h \in Hosts
        PROVE  Whole(thr[h]) /\ DOMAIN thr[h].ring = Rings
    <3>1. Firm(thr[h]) /\ Linked(thr[h], "timer") = {}
      BY DEF Unharmed, Untimed
    <3>2. Whole(thr[h])
      BY <3>1, FirmIsWhole, MutexRings
    <3> QED BY <3>2 DEF Whole, Sound, Threads
  <2>2. \A h \in Hosts : RingsIntact(thr[h])
    BY <2>1 DEF RingsIntact, Whole, Sound, Unlinked, Linked, In
  <2>3. ASSUME NEW f \in Users, ~ Expected(f)
        PROVE  Reachable(thr[Host(f)], f)
    <3>1. at[f] \in Places /\ at[f] # "blocked" /\ Host(f) \in Hosts
      BY <1>1, HostsAre DEF MutexInv, Sane, TypeOK
    <3>2. f \in Awake(thr[Host(f)])
      BY <2>3, <3>1 DEF Unharmed, Untimed, Placed, Places, Awake
    <3>3. "ready" \in DOMAIN thr[Host(f)].ring
      BY <2>1, <3>1, RingsAssumption DEF RingsAssumption
    <3> QED BY <3>2, <3>3 DEF Awake, Reachable, Linked, In
  <2> QED BY <2>2, <2>3 DEF Expected
<1> QED BY <1>1, MutexInductive, PTL

\* acl_fiber_mutex_deadlock finds every cycle of fibers that wait for one
\* another, whatever the order of its table, and kills play no part in it.
THEOREM MutexDeadlockReported == Spec => []DeadlockReported
<1>1. MutexInv => DeadlockReported
  BY CycleFound DEF MutexInv, Sane
<1> QED BY <1>1, MutexInductive, PTL

-----------------------------------------------------------------------------
(* The condition: whose waits are in waiters *)

CondTypes ==
    /\ cwait \in Seq(Callers) /\ step \in [Callers -> Steps]
    /\ timed \subseteq Callers /\ event \subseteq Plains
    /\ chosen \in [Callers -> Objects \cup {NoObject}]
    /\ tbox \in [Hosts -> Seq(Objects)]
    /\ \A h \in Hosts : Len(tbox[h]) <= MaxMail
    /\ cause \in [Callers -> SUBSET {"signal", "late"}]

\* A fiber is awaited by messages, a plain thread by its event.
Addressed ==
    /\ \A h \in Hosts : \A o \in Range(tbox[h]) : o.who \in Users
    /\ \A c \in Callers : step[c] = "signal" => chosen[c] \in Objects

\* Nothing has come for a wait that has not begun, and what is in the hands of
\* a signal, or in the event of a thread, was taken out of waiters.
Booked ==
    /\ \A c \in Callers : step[c] \in {"none", "signal", "delay"} => cause[c] = {}
    /\ \A c \in Callers :
          chosen[c] # NoObject /\ ~ chosen[c].ended => Signalled(chosen[c].who)
    /\ \A p \in Plains : p \in event /\ Waits(p) => Signalled(p)

Known ==
    /\ IsInjective(cwait)
    /\ \A c \in Callers : c \in Range(cwait) <=> Waits(c) /\ ~ Signalled(c)

CondInv == Sane /\ CondTypes /\ Addressed /\ Booked /\ Known

\* array_delete_obj takes the one it looks for out, and leaves all the others.
LEMMA ArrayDeleteIs ==
    ASSUME NEW S, NEW q \in Seq(S), NEW c
    PROVE  /\ ArrayDelete(q, c) \in Seq(S)
           /\ IsInjective(q) => /\ IsInjective(ArrayDelete(q, c))
                                /\ Range(ArrayDelete(q, c)) = Range(q) \ {c}
<1>0. /\ DOMAIN q = 1..Len(q) /\ Range(q) = {q[i] : i \in 1..Len(q)}
      /\ Len(q) \in Nat /\ \A i \in 1..Len(q) : q[i] \in S
  BY RangeIs
<1>1. CASE c \notin Range(q)
  BY <1>0, <1>1 DEF ArrayDelete
<1>2. CASE c \in Range(q)
  <2> DEFINE n == Len(q)
             g == [i \in DOMAIN q |-> IF q[i] = c THEN Last(q) ELSE q[i]]
             u == SubSeq(g, 1, n - 1)
  <2>1. PICK k \in 1..n : q[k] = c
    BY <1>0, <1>2
  <2>2. n \in Nat /\ n >= 1 /\ Last(q) = q[n]
    BY <1>0, <2>1 DEF Last
  <2>3. /\ g \in Seq(S) /\ Len(g) = n
        /\ \A i \in 1..n : g[i] = IF q[i] = c THEN q[n] ELSE q[i]
    <3>1. \A i \in 1..n : (IF q[i] = c THEN Last(q) ELSE q[i]) \in S
      BY <1>0, <2>2
    <3>2. g = [i \in 1..n |-> IF q[i] = c THEN Last(q) ELSE q[i]]
      BY <1>0
    <3> QED BY <1>0, <2>2, <3>1, <3>2
  <2> HIDE DEF g
  <2>4. /\ u \in Seq(S) /\ Len(u) = n - 1
        /\ \A i \in 1..(n - 1) : u[i] = g[i]
    BY <1>0, <2>2, <2>3
  <2>5. ArrayDelete(q, c) = u
    BY <1>2 DEF ArrayDelete, g
  <2> HIDE DEF u
  <2>6. DOMAIN u = 1..(n - 1) /\ Range(u) = {u[i] : i \in 1..(n - 1)}
    BY <2>2, <2>4, RangeIs
  <2>7. ASSUME IsInjective(q)
        PROVE  IsInjective(u) /\ Range(u) = Range(q) \ {c}
    <3>1. \A i, j \in 1..n : q[i] = q[j] => i = j
      BY <1>0, <2>7 DEF IsInjective
    <3> DEFINE old(i) == IF i = k THEN n ELSE i
    <3>2. \A i \in 1..(n - 1) : i \in 1..n /\ old(i) \in 1..n /\ u[i] = q[old(i)]
                                /\ u[i] # c
      <4> SUFFICES ASSUME NEW i \in 1..(n - 1)
                   PROVE  i \in 1..n /\ old(i) \in 1..n /\ u[i] = q[old(i)] /\ u[i] # c
        OBVIOUS
      <4>1. i \in 1..n /\ i # n /\ n \in 1..n
        BY <2>2
      <4>2. q[i] = c <=> i = k
        BY <2>1, <3>1, <4>1
      <4>3. u[i] = q[old(i)] /\ old(i) \in 1..n
        BY <2>3, <2>4, <4>1, <4>2
      <4>4. old(i) # k
        BY <4>1
      <4> QED BY <2>1, <3>1, <4>1, <4>3, <4>4
    <3>3. \A i, j \in 1..(n - 1) : old(i) = old(j) => i = j
      BY <2>2
    <3>4. IsInjective(u)
      <4>1. \A i, j \in 1..(n - 1) : u[i] = u[j] => i = j
        BY <3>1, <3>2, <3>3
      <4> QED BY <2>6, <4>1 DEF IsInjective
    <3>5. Range(u) \subseteq Range(q) \ {c}
      BY <1>0, <2>6, <3>2
    <3>6. ASSUME NEW x \in Range(q), x # c PROVE x \in Range(u)
      <4>1. PICK j \in 1..n : q[j] = x
        BY <1>0
      <4>2. j # k
        BY <2>1, <3>6, <4>1
      <4>3. CASE j = n
        <5>1. k \in 1..(n - 1) /\ u[k] = q[old(k)] /\ old(k) = n
          BY <2>1, <2>2, <3>2, <4>2, <4>3
        <5> QED BY <2>6, <4>1, <4>3, <5>1
      <4>4. CASE j # n
        <5>1. j \in 1..(n - 1) /\ u[j] = q[old(j)] /\ old(j) = j
          BY <2>2, <3>2, <4>2, <4>4
        <5> QED BY <2>6, <4>1, <5>1
      <4> QED BY <4>3, <4>4
    <3> QED BY <3>4, <3>5, <3>6
  <2> QED BY <2>4, <2>5, <2>7
<1> QED BY <1>1, <1>2

\* A step that leaves the condition alone.
LEMMA CondKept ==
    ASSUME CondInv, Sane', UNCHANGED condVars
    PROVE  CondInv'
BY DEF CondInv, CondTypes, Addressed, Booked, Known, Waits, Signalled, condVars

\* The steps of the mutex, in a wait and outside of one.
LEMMA SaneMutexStep ==
    ASSUME Sane, NEW c \in Callers, LockStep(c) \/ UnlockStep(c),
           UNCHANGED harmed
    PROVE  Sane'
BY CondAssumption, SaneLock, SaneSwitchAway, SaneUnlock, SaneSendWake
   DEF CondAssumption, LockStep, UnlockStep

\* A step of one thread in which the mutex takes no part.
LEMMA SaneThreadStep ==
    ASSUME Sane, NEW h \in Hosts, NEW u \in Threads,
           Host_(h, u) \/ UNCHANGED thr,
           UNCHANGED << mutexVars, box, callVars, crashed >>, harmed' \in BOOLEAN
    PROVE  Sane'
<1>1. box' \in [Hosts -> Seq(Users)] /\ crashed' \in BOOLEAN
  BY DEF Sane, TypeOK
<1> QED BY <1>1, SaneHost

LEMMA WakeupWaiterTyped ==
    ASSUME NEW t \in Threads, NEW o \in Objects, o.who \in Users
    PROVE  WakeupWaiter(t, o) \in Threads
<1>1. o.who \in Fibers /\ "timer" \in Flags
  BY DEF Users, Flags
<1> QED BY <1>1, TypesKept, TimerTypesKept DEF WakeupWaiter

\* A step from one place to another of the same kind.
LEMMA CondTo ==
    ASSUME CondInv, Sane', NEW c \in Callers, NEW s \in Steps \ {"signal"},
           To(c, s) \/ (s = step[c] /\ UNCHANGED step),
           UNCHANGED << cwait, timed, chosen, tbox, event, cause >>,
           Waits(c) <=>
               s \in {"unlock", "sleep"} \/ (c \in Users /\ s \in {"relock", "check"}),
           s \in {"none", "delay"} => cause[c] = {}
    PROVE  CondInv'
<1>1. /\ step' \in [Callers -> Steps] /\ step'[c] = s
      /\ \A d \in Callers \ {c} : step'[d] = step[d]
  BY DEF CondInv, CondTypes, To
<1>2. \A d \in Callers : Waits(d)' <=> Waits(d)
  BY <1>1 DEF Waits
<1>3. \A d \in Callers : Signalled(d)' <=> Signalled(d)
  BY DEF Signalled
<1>4. CondTypes'
  BY <1>1 DEF CondInv, CondTypes
<1>5. Addressed'
  BY <1>1 DEF CondInv, Addressed
<1>6. Booked'
  <2>1. \A d \in Callers : step'[d] \in {"none", "signal", "delay"} => cause'[d] = {}
    BY <1>1 DEF CondInv, Booked
  <2>2. \A d \in Callers :
          chosen'[d] # NoObject /\ ~ chosen'[d].ended => Signalled(chosen[d].who)'
    BY DEF CondInv, Booked, Signalled
  <2>3. \A p \in Plains : p \in event' /\ Waits(p)' => Signalled(p)'
    BY <1>2, <1>3 DEF CondInv, Booked, Callers
  <2> QED BY <2>1, <2>2, <2>3 DEF Booked, Signalled
<1>7. Known'
  BY <1>2, <1>3 DEF CondInv, Known
<1> QED BY <1>4, <1>5, <1>6, <1>7 DEF CondInv

\* Facts about the callers that the cases below keep needing.
LEMMA CallersAre ==
    ASSUME CondInv, NEW c \in Callers
    PROVE  /\ c \in Users => Host(c) \in Hosts /\ thr[Host(c)] \in Threads
           /\ c \in Users /\ Runs(c) => thr[Host(c)].running \in Fibers
           /\ c \in Users <=> c \notin Plains
           /\ harmed \in BOOLEAN
BY RunsIs, HostsAre DEF CondInv, Sane, TypeOK

LEMMA CondWait ==
    ASSUME CondInv, NEW c \in Callers, NEW delay \in BOOLEAN, Wait(c, delay),
           UNCHANGED harmed
    PROVE  CondInv'
<1>1. /\ step[c] = "none" /\ cause[c] = {} /\ ~ Waits(c) /\ c \notin Range(cwait)
      /\ cause' = cause /\ tbox' = tbox /\ chosen' = chosen
      /\ cwait' = Append(cwait, c) /\ event' = event \ {c}
      /\ To(c, "unlock")
  BY DEF Wait, At, CondInv, Booked, Known, Waits
<1>2. Sane'
  <2>1. UNCHANGED << mutexVars, box, callVars, crashed >>
    BY DEF Wait
  <2>2. CASE UNCHANGED thr
    BY <2>1, <2>2 DEF CondInv, Sane, TypeOK, mutexVars, callVars
  <2>3. CASE c \in Users /\ Host_(Host(c), FiberTimerAdd(thr[Host(c)], c))
    <3>1. Host(c) \in Hosts /\ FiberTimerAdd(thr[Host(c)], c) \in Threads
      BY <2>3, CallersAre, TimerTypesKept, HostsAre
    <3> QED BY <2>1, <2>3, <3>1, SaneThreadStep, CallersAre DEF CondInv
  <2> QED BY <2>2, <2>3 DEF Wait
<1>3. /\ step' \in [Callers -> Steps] /\ step'[c] = "unlock"
      /\ \A d \in Callers \ {c} : step'[d] = step[d]
  BY <1>1 DEF CondInv, CondTypes, To, Steps
<1>4. /\ Waits(c)' /\ \A d \in Callers \ {c} : Waits(d)' <=> Waits(d)
  BY <1>3 DEF Waits
<1>5. \A d : Signalled(d)' <=> Signalled(d)
  BY <1>1 DEF Signalled
<1>6. CondTypes'
  <2>1. cwait' \in Seq(Callers) /\ timed' \subseteq Callers /\ event' \subseteq Plains
    BY <1>1 DEF CondInv, CondTypes, Wait
  <2> QED BY <1>1, <1>3, <2>1 DEF CondInv, CondTypes
<1>7. Addressed'
  BY <1>1, <1>3 DEF CondInv, Addressed
<1>8. Booked'
  <2>1. \A d \in Callers : step'[d] \in {"none", "signal", "delay"} => cause'[d] = {}
    BY <1>1, <1>3 DEF CondInv, Booked
  <2>2. \A d \in Callers :
          chosen'[d] # NoObject /\ ~ chosen'[d].ended => Signalled(chosen[d].who)'
    BY <1>1, <1>5 DEF CondInv, Booked
  <2>3. \A p \in Plains : p \in event' /\ Waits(p)' => Signalled(p)'
    BY <1>1, <1>4, <1>5 DEF CondInv, Booked, Callers
  <2> QED BY <2>1, <2>2, <2>3 DEF Booked, Signalled
<1>9. Known'
  <2>1. IsInjective(cwait') /\ Range(cwait') = Range(cwait) \cup {c}
    BY <1>1, AppendedProperties DEF CondInv, CondTypes, Known
  <2>2. ~ Signalled(c)
    BY <1>1 DEF Signalled
  <2> QED BY <1>1, <1>4, <1>5, <2>1, <2>2 DEF CondInv, Known
<1> QED BY <1>2, <1>6, <1>7, <1>8, <1>9 DEF CondInv

\* The steps of the one who waits up to the second lock of the mutex.
LEMMA CondRelease ==
    ASSUME CondInv, NEW c \in Callers, Release(c) \/ Sleep(c), UNCHANGED harmed
    PROVE  CondInv'
<1>1. CASE Release(c)
  <2>1. Sane'
    BY <1>1, SaneMutexStep DEF CondInv, Release
  <2>2. PICK s \in {"unlock", "sleep"} : To(c, s)
    BY <1>1 DEF Release
  <2>3. Waits(c) /\ s \in Steps \ {"signal"}
    BY <1>1 DEF Release, Waits, Steps
  <2> QED BY <1>1, <2>1, <2>2, <2>3, CondTo DEF Release
<1>2. CASE Sleep(c)
  <2>1. /\ c \in Users /\ Host(c) \in Hosts /\ Switch(thr[Host(c)]) \in Threads
    BY <1>2, CallersAre, TypesKept DEF Sleep, At
  <2>2. Sane'
    BY <1>2, <2>1, SaneThreadStep, CallersAre DEF Sleep, CondInv
  <2>3. Waits(c) /\ "relock" \in Steps \ {"signal"}
    BY <1>2, <2>1 DEF Sleep, At, Waits, Steps
  <2> QED BY <1>2, <2>1, <2>2, <2>3, CondTo DEF Sleep
<1> QED BY <1>1, <1>2

LEMMA CondDelay ==
    ASSUME CondInv, NEW f \in Users, Delay(f) \/ DelayReturn(f), UNCHANGED harmed
    PROVE  CondInv'
<1>1. /\ f \in Callers /\ Host(f) \in Hosts /\ thr[Host(f)] \in Threads
      /\ f \in Fibers /\ thr[Host(f)].running = f
  BY CallersAre, HostsAre, RunsIs DEF Delay, DelayReturn, At, CondInv
<1>2. CASE Delay(f)
  <2> DEFINE t == FiberTimerAdd(thr[Host(f)], f)
  <2>1. t \in Threads
    BY <1>1, TimerTypesKept
  <2>2. t.running = f
    BY <1>1 DEF FiberTimerAdd, RingPrepend, RingDetach, Threads
  <2>3. Switch(t) \in Threads
    BY <1>1, <2>1, <2>2, TypesKept
  <2> HIDE DEF t
  <2>4. Host_(Host(f), Switch(t)) /\ UNCHANGED << mutexVars, box, callVars, crashed >>
    BY <1>2 DEF Delay, t
  <2>5. Sane'
    BY <1>1, <2>3, <2>4, SaneThreadStep, CallersAre DEF CondInv
  <2>6. ~ Waits(f) /\ "delay" \in Steps \ {"signal"} /\ cause[f] = {}
    BY <1>1, <1>2 DEF Delay, At, Waits, Steps, CondInv, Booked
  <2> QED BY <1>1, <1>2, <2>5, <2>6, CondTo DEF Delay
<1>3. CASE DelayReturn(f)
  <2>1. ClearFlag(thr[Host(f)], f, "timer") \in Threads
    BY <1>1, TimerTypesKept DEF Flags
  <2>2. Sane'
    BY <1>1, <1>3, <2>1, SaneThreadStep, CallersAre DEF CondInv, DelayReturn
  <2>3. ~ Waits(f) /\ "none" \in Steps \ {"signal"} /\ cause[f] = {}
    BY <1>1, <1>3 DEF DelayReturn, At, Waits, Steps, CondInv, Booked
  <2> QED BY <1>1, <1>3, <2>2, <2>3, CondTo DEF DelayReturn
<1> QED BY <1>2, <1>3

\* A plain thread reads its event, or gives up.
LEMMA CondEvent ==
    ASSUME CondInv, NEW p \in Callers, EventRead(p) \/ EventTimesOut(p),
           UNCHANGED harmed
    PROVE  CondInv'
<1>1. /\ p \in Plains /\ p \notin Users /\ step[p] = "sleep" /\ Waits(p)
      /\ UNCHANGED << timed, chosen, tbox, cause >> /\ To(p, "relock")
  BY CallersAre DEF EventRead, EventTimesOut, At, Waits
<1>2. Sane'
  <2>1. UNCHANGED codeVars
    BY DEF EventRead, EventTimesOut
  <2> QED BY <2>1 DEF CondInv, Sane, TypeOK, codeVars, mutexVars, callVars
<1>3. /\ step' \in [Callers -> Steps] /\ step'[p] = "relock"
      /\ \A d \in Callers \ {p} : step'[d] = step[d]
  BY <1>1 DEF CondInv, CondTypes, To, Steps
<1>4. /\ ~ Waits(p)' /\ \A d \in Callers \ {p} : Waits(d)' <=> Waits(d)
  BY <1>1, <1>3 DEF Waits
<1>5. \A d : Signalled(d)' <=> Signalled(d)
  BY <1>1 DEF Signalled
<1>6. /\ cwait' \in Seq(Callers) /\ IsInjective(cwait')
      /\ Range(cwait') = Range(cwait) \ {p} /\ event' \subseteq event
  <2>1. CASE EventRead(p)
    <3>1. p \notin Range(cwait)
      BY <1>1, <2>1 DEF EventRead, CondInv, Booked, Known
    <3> QED BY <2>1, <3>1 DEF EventRead, CondInv, CondTypes, Known
  <2>2. CASE EventTimesOut(p)
    BY <2>2, ArrayDeleteIs DEF EventTimesOut, CondInv, CondTypes, Known
  <2> QED BY <2>1, <2>2
<1>7. CondTypes'
  BY <1>1, <1>3, <1>6 DEF CondInv, CondTypes
<1>8. Addressed'
  BY <1>1, <1>3 DEF CondInv, Addressed
<1>9. Booked'
  <2>1. \A d \in Callers : step'[d] \in {"none", "signal", "delay"} => cause'[d] = {}
    BY <1>1, <1>3 DEF CondInv, Booked
  <2>2. \A d \in Callers :
          chosen'[d] # NoObject /\ ~ chosen'[d].ended => Signalled(chosen[d].who)'
    BY <1>1, <1>5 DEF CondInv, Booked
  <2>3. \A q \in Plains : q \in event' /\ Waits(q)' => Signalled(q)'
    BY <1>4, <1>5, <1>6 DEF CondInv, Booked, Callers
  <2> QED BY <2>1, <2>2, <2>3 DEF Booked, Signalled
<1>10. Known'
  BY <1>4, <1>5, <1>6 DEF CondInv, Known
<1> QED BY <1>2, <1>7, <1>8, <1>9, <1>10 DEF CondInv

\* The end of the wait of c: nothing refers to it any more.
LEMMA CondEnds ==
    ASSUME CondInv, Sane', NEW c \in Callers, Unrefer(c), To(c, "none"),
           UNCHANGED event,
           cwait' \in Seq(Callers), IsInjective(cwait'),
           Range(cwait') = Range(cwait) \ {c}
    PROVE  CondInv'
<1>1. /\ step' \in [Callers -> Steps] /\ step'[c] = "none"
      /\ \A d \in Callers \ {c} : step'[d] = step[d]
  BY DEF CondInv, CondTypes, To, Steps
<1>2. /\ cause' \in [Callers -> SUBSET {"signal", "late"}] /\ cause'[c] = {}
      /\ \A d \in Callers \ {c} : cause'[d] = cause[d]
  BY DEF CondInv, CondTypes, Unrefer
<1>3. /\ ~ Waits(c)' /\ \A d \in Callers \ {c} : Waits(d)' <=> Waits(d)
  BY <1>1 DEF Waits
<1>4. \A d \in Callers \ {c} : Signalled(d)' <=> Signalled(d)
  BY <1>2 DEF Signalled
<1>5. ASSUME NEW o
      PROVE  /\ Ended(o, c) = IF o.who = c THEN [o EXCEPT !.ended = TRUE] ELSE o
             /\ o \in Objects => /\ Ended(o, c) \in Objects
                                 /\ Ended(o, c).who = o.who
                                 /\ ~ Ended(o, c).ended => ~ o.ended /\ o.who # c
  <2>1. Ended(o, c) = IF o.who = c THEN [o EXCEPT !.ended = TRUE] ELSE o
    BY DEF Ended
  <2>2. ASSUME o \in Objects
        PROVE  /\ Ended(o, c) \in Objects
               /\ Ended(o, c).who = o.who
               /\ ~ Ended(o, c).ended => ~ o.ended /\ o.who # c
    BY <2>1, <2>2 DEF Objects
  <2> QED BY <2>1, <2>2
<1>6. Ended(NoObject, c) = NoObject
  BY <1>5, HostsAre DEF NoObject
<1>7. /\ chosen' \in [Callers -> Objects \cup {NoObject}]
      /\ \A d \in Callers : chosen'[d] = Ended(chosen[d], c)
      /\ \A d \in Callers : chosen[d] \in Objects \cup {NoObject}
  <2>1. /\ \A d \in Callers : chosen[d] \in Objects \cup {NoObject}
        /\ chosen' = [d \in Callers |-> Ended(chosen[d], c)]
    BY DEF CondInv, CondTypes, Unrefer
  <2>2. \A d \in Callers : Ended(chosen[d], c) \in Objects \cup {NoObject}
    BY <1>5, <1>6, <2>1
  <2> QED BY <2>1, <2>2
<1>8. ASSUME NEW h \in Hosts
      PROVE  /\ tbox'[h] \in Seq(Objects) /\ Len(tbox'[h]) = Len(tbox[h])
             /\ \A o \in Range(tbox'[h]) : o.who \in Users
  <2> DEFINE s == tbox[h]
             u == [i \in DOMAIN s |-> Ended(s[i], c)]
  <2>1. s \in Seq(Objects) /\ tbox'[h] = u
    BY DEF CondInv, CondTypes, Unrefer
  <2>2. /\ DOMAIN s = 1..Len(s) /\ Len(s) \in Nat
        /\ \A i \in 1..Len(s) : s[i] \in Objects /\ s[i] \in Range(s)
    BY <2>1, RangeIs
  <2>3. \A i \in 1..Len(s) : s[i].who \in Users
    BY <2>2 DEF CondInv, Addressed
  <2>4. /\ u = [i \in 1..Len(s) |-> Ended(s[i], c)]
        /\ \A i \in 1..Len(s) : Ended(s[i], c) \in Objects
        /\ \A i \in 1..Len(s) : Ended(s[i], c).who = s[i].who
    BY <1>5, <2>2
  <2> HIDE DEF u, s
  <2>5. /\ u \in Seq(Objects) /\ Len(u) = Len(s)
        /\ \A i \in 1..Len(s) : u[i].who \in Users
    BY <2>2, <2>3, <2>4
  <2>6. Range(u) = {u[i] : i \in 1..Len(u)}
    BY <2>5, RangeIs
  <2> QED BY <2>1, <2>5, <2>6 DEF s
<1>9. CondTypes'
  <2>1. tbox' \in [Hosts -> Seq(Objects)] /\ \A h \in Hosts : Len(tbox'[h]) <= MaxMail
    <3>1. tbox' = [h \in Hosts |-> tbox'[h]]
      BY DEF Unrefer
    <3> QED BY <1>8, <3>1 DEF CondInv, CondTypes
  <2>2. timed' \subseteq Callers /\ event' \subseteq Plains
    BY DEF CondInv, CondTypes, Unrefer
  <2> QED BY <1>1, <1>2, <1>7, <2>1, <2>2 DEF CondTypes
<1>10. Addressed'
  <2>1. \A d \in Callers : step'[d] = "signal" => chosen'[d] \in Objects
    BY <1>1, <1>5, <1>7 DEF CondInv, Addressed
  <2> QED BY <1>8, <2>1 DEF Addressed
<1>11. Booked'
  <2>1. \A d \in Callers : step'[d] \in {"none", "signal", "delay"} => cause'[d] = {}
    BY <1>1, <1>2 DEF CondInv, Booked
  <2>2. ASSUME NEW d \in Callers, chosen'[d] # NoObject, ~ chosen'[d].ended
        PROVE  "signal" \in cause'[chosen'[d].who]
    <3>1. chosen[d] \in Objects
      BY <1>6, <1>7, <2>2
    <3>2. /\ chosen'[d].who = chosen[d].who /\ chosen[d].who # c
          /\ ~ chosen[d].ended
      BY <1>5, <1>7, <2>2, <3>1
    <3>3. chosen[d] # NoObject /\ chosen[d].who \in Callers
      BY <3>1, HostsAre DEF Objects, NoObject
    <3>4. "signal" \in cause[chosen[d].who]
      BY <3>2, <3>3 DEF CondInv, Booked, Signalled
    <3> QED BY <1>2, <3>2, <3>3, <3>4
  <2>3. \A q \in Plains : q \in event' /\ Waits(q)' => Signalled(q)'
    BY <1>3, <1>4 DEF CondInv, Booked, Callers
  <2> QED BY <2>1, <2>2, <2>3 DEF Booked, Signalled
<1>12. Known'
  BY <1>3, <1>4 DEF CondInv, Known
<1> QED BY <1>9, <1>10, <1>11, <1>12 DEF CondInv

LEMMA CondRelock ==
    ASSUME CondInv, NEW c \in Callers, Relock(c), UNCHANGED harmed
    PROVE  CondInv'
<1>1. /\ step[c] = "relock" /\ LockStep(c) /\ UNCHANGED << cwait, event >>
  BY DEF Relock
<1>2. Sane'
  BY <1>1, SaneMutexStep DEF CondInv
<1>3. CASE lock'[Guard] # c
  <2>1. UNCHANGED condVars
    BY <1>1, <1>3 DEF Relock, condVars
  <2> QED BY <1>2, <2>1, CondKept
<1>4. CASE lock'[Guard] = c /\ c \in Users
  <2>1. To(c, "check") /\ UNCHANGED << timed, chosen, tbox, cause >>
    BY <1>4 DEF Relock
  <2>2. Waits(c) /\ "check" \in Steps \ {"signal"}
    BY <1>1, <1>4 DEF Waits, Steps
  <2> QED BY <1>1, <1>2, <1>4, <2>1, <2>2, CondTo
<1>5. CASE lock'[Guard] = c /\ c \notin Users
  <2>1. To(c, "none") /\ Unrefer(c)
    BY <1>5 DEF Relock
  <2>2. c \notin Range(cwait)
    BY <1>1, <1>5 DEF CondInv, Known, Waits
  <2>3. /\ cwait' \in Seq(Callers) /\ IsInjective(cwait')
        /\ Range(cwait') = Range(cwait) \ {c}
    BY <1>1, <2>2 DEF CondInv, CondTypes, Known
  <2> QED BY <1>1, <1>2, <2>1, <2>3, CondEnds
<1> QED BY <1>3, <1>4, <1>5

LEMMA CondCheck ==
    ASSUME CondInv, NEW f \in Callers, Check(f), UNCHANGED harmed
    PROVE  CondInv'
<1>1. /\ f \in Users /\ Host(f) \in Hosts
      /\ ClearFlag(thr[Host(f)], f, "timer") \in Threads
  <2>1. f \in Users /\ Host(f) \in Hosts /\ thr[Host(f)] \in Threads /\ f \in Fibers
    BY CallersAre, HostsAre DEF Check
  <2> QED BY <2>1, TimerTypesKept DEF Flags
<1>2. Sane'
  BY <1>1, SaneThreadStep, CallersAre DEF Check, CondInv
<1>3. /\ cwait' \in Seq(Callers) /\ IsInjective(cwait')
      /\ Range(cwait') = Range(cwait) \ {f}
  BY ArrayDeleteIs DEF Check, CondInv, CondTypes, Known
<1> QED BY <1>2, <1>3, CondEnds DEF Check

LEMMA CondSignal ==
    ASSUME CondInv, NEW c \in Callers, Signal(c), UNCHANGED harmed
    PROVE  CondInv'
<1>0. PICK w : w = Head(cwait)
  OBVIOUS
<1> DEFINE o == Object(w)
           here == {c, w} \subseteq Users /\ Host(c) = Host(w)
<1>1. /\ cwait # << >> /\ cwait \in Seq(Callers) /\ IsInjective(cwait)
      /\ step[c] = "none"
  BY DEF Signal, At, CondInv, CondTypes, Known
<1>2. /\ w \in Callers /\ w \in Range(cwait) /\ PopFront(cwait) \in Seq(Callers)
      /\ IsInjective(PopFront(cwait)) /\ Range(PopFront(cwait)) = Range(cwait) \ {w}
  BY <1>0, <1>1, PopFrontIs
<1>3. Waits(w) /\ ~ Signalled(w) /\ w # c
  BY <1>1, <1>2 DEF CondInv, Known, Waits
<1>4. o \in Objects /\ o.who = w /\ ~ o.ended /\ o # NoObject
  BY <1>2, HostsAre DEF Object, Objects, NoObject
<1>5. /\ cwait' = PopFront(cwait)
      /\ cause' = [cause EXCEPT ![w] = @ \cup {"signal"}]
      /\ IF here
         THEN /\ Host_(Host(c), WakeupWaiter(thr[Host(c)], o))
              /\ UNCHANGED << step, chosen >>
         ELSE /\ chosen' = [chosen EXCEPT ![c] = o]
              /\ To(c, "signal")
              /\ UNCHANGED thr
      /\ UNCHANGED << mutexVars, box, callVars, crashed, timed, tbox, event >>
  BY <1>0, <1>4 DEF Signal, Object
<1> HIDE DEF o
<1>6. Sane'
  <2>1. CASE here
    <3>1. /\ Host(c) \in Hosts
          /\ WakeupWaiter(thr[Host(c)], o) \in Threads
      BY <1>4, <2>1, CallersAre, WakeupWaiterTyped
    <3> QED BY <1>5, <2>1, <3>1, SaneThreadStep, CallersAre DEF CondInv
  <2>2. CASE ~ here
    BY <1>5, <2>2 DEF CondInv, Sane, TypeOK, mutexVars, callVars
  <2> QED BY <2>1, <2>2
<1>7. /\ cause' \in [Callers -> SUBSET {"signal", "late"}]
      /\ "signal" \in cause'[w]
      /\ \A d \in Callers \ {w} : cause'[d] = cause[d]
  BY <1>2, <1>5 DEF CondInv, CondTypes
<1>8. Signalled(w)' /\ \A d \in Callers \ {w} : Signalled(d)' <=> Signalled(d)
  BY <1>7 DEF Signalled
<1>9. /\ step' \in [Callers -> Steps]
      /\ step'[c] \in {"none", "signal"} /\ (step'[c] = "signal" => ~ here)
      /\ \A d \in Callers \ {c} : step'[d] = step[d]
  BY <1>1, <1>5 DEF CondInv, CondTypes, To, Steps
<1>10. \A d \in Callers : Waits(d)' <=> Waits(d)
  BY <1>1, <1>9 DEF Waits
<1>11. /\ chosen' \in [Callers -> Objects \cup {NoObject}]
       /\ here => chosen' = chosen
       /\ ~ here => chosen'[c] = o
       /\ \A d \in Callers \ {c} : chosen'[d] = chosen[d]
  BY <1>4, <1>5 DEF CondInv, CondTypes
<1>12. CondTypes'
  BY <1>2, <1>5, <1>7, <1>9, <1>11 DEF CondInv, CondTypes
<1>13. Addressed'
  <2>1. \A d \in Callers : step'[d] = "signal" => chosen'[d] \in Objects
    BY <1>1, <1>4, <1>9, <1>11 DEF CondInv, Addressed
  <2>2. tbox' = tbox
    BY <1>5
  <2> QED BY <2>1, <2>2 DEF CondInv, Addressed
<1>14. Booked'
  <2>1. \A d \in Callers : step'[d] \in {"none", "signal", "delay"} => cause'[d] = {}
    <3>1. step[w] \notin {"none", "signal", "delay"} /\ step'[w] = step[w]
      BY <1>2, <1>3, <1>9 DEF Waits
    <3>2. cause[c] = {}
      BY <1>1 DEF CondInv, Booked
    <3> QED BY <1>3, <1>7, <1>9, <3>1, <3>2 DEF CondInv, Booked
  <2>2. ASSUME NEW d \in Callers, chosen'[d] # NoObject, ~ chosen'[d].ended
        PROVE  "signal" \in cause'[chosen'[d].who]
    <3>1. CASE chosen'[d] = o
      BY <1>4, <1>7, <3>1
    <3>2. CASE chosen'[d] # o
      <4>1. chosen'[d] = chosen[d] /\ chosen[d] \in Objects
        BY <1>11, <2>2, <3>2 DEF CondInv, CondTypes
      <4>2. chosen[d].who \in Callers /\ "signal" \in cause[chosen[d].who]
        BY <2>2, <4>1 DEF CondInv, Booked, Signalled, Objects
      <4> QED BY <1>7, <4>1, <4>2
    <3> QED BY <3>1, <3>2
  <2>3. \A q \in Plains : q \in event' /\ Waits(q)' => Signalled(q)'
    BY <1>5, <1>8, <1>10 DEF CondInv, Booked, Callers
  <2> QED BY <2>1, <2>2, <2>3 DEF Booked, Signalled
<1>15. Known'
  BY <1>2, <1>5, <1>8, <1>10 DEF CondInv, Known
<1> QED BY <1>6, <1>12, <1>13, <1>14, <1>15 DEF CondInv

\* The message, or the event: nobody looks at the waiters.
LEMMA CondSendSignal ==
    ASSUME CondInv, NEW c \in Callers, SendSignal(c), UNCHANGED harmed
    PROVE  CondInv'
<1> DEFINE o == chosen[c]
           k == Host(o.who)
<1>1. step[c] = "signal" /\ o \in Objects /\ o.who \in Callers
  BY DEF SendSignal, At, CondInv, Addressed, Objects
<1>2. /\ chosen' = [chosen EXCEPT ![c] = NoObject] /\ To(c, "none")
      /\ UNCHANGED << codeVars, cwait, timed, cause >>
  BY DEF SendSignal
<1>3. Sane'
  BY <1>2 DEF CondInv, Sane, TypeOK, codeVars, mutexVars, callVars
<1>4. /\ step' \in [Callers -> Steps] /\ step'[c] = "none"
      /\ \A d \in Callers \ {c} : step'[d] = step[d]
  BY <1>2 DEF CondInv, CondTypes, To, Steps
<1>5. \A d \in Callers : Waits(d)' <=> Waits(d)
  BY <1>1, <1>4 DEF Waits
<1>6. \A d : Signalled(d)' <=> Signalled(d)
  BY <1>2 DEF Signalled
<1>7. /\ chosen' \in [Callers -> Objects \cup {NoObject}] /\ chosen'[c] = NoObject
      /\ \A d \in Callers \ {c} : chosen'[d] = chosen[d]
  BY <1>2 DEF CondInv, CondTypes
<1> HIDE DEF o
<1>8. /\ tbox' \in [Hosts -> Seq(Objects)]
      /\ \A h \in Hosts : Len(tbox'[h]) <= MaxMail
      /\ \A h \in Hosts : \A x \in Range(tbox'[h]) : x.who \in Users
  <2>1. CASE tbox' = tbox
    BY <2>1 DEF CondInv, CondTypes, Addressed
  <2>2. CASE o.who \in Users
    <3>1. /\ k \in Hosts /\ Len(tbox[k]) < MaxMail
          /\ tbox' = [tbox EXCEPT ![k] = Append(@, o)]
      BY <2>2, HostsAre DEF SendSignal, o
    <3>2. tbox[k] \in Seq(Objects) /\ MaxMail \in Nat
      BY <3>1, CondAssumption DEF CondInv, CondTypes, CondAssumption
    <3> DEFINE u == Append(tbox[k], o)
    <3> HIDE DEF k
    <3>3. /\ u \in Seq(Objects) /\ Len(u) = Len(tbox[k]) + 1 /\ Len(u) <= MaxMail
          /\ Range(u) = {u[i] : i \in 1..Len(u)}
      <4>1. u \in Seq(Objects) /\ Len(u) = Len(tbox[k]) + 1
        BY <1>1, <3>2
      <4>2. Len(tbox[k]) \in Nat
        BY <3>2
      <4> HIDE DEF u
      <4>3. Len(u) <= MaxMail
        BY <3>1, <3>2, <4>1, <4>2
      <4> QED BY <4>1, <4>3, RangeIs
    <3>4. \A x \in Range(u) : x = o \/ x \in Range(tbox[k])
      <4>1. \A i \in 1..Len(u) : u[i] = o \/ u[i] \in Range(tbox[k])
        BY <1>1, <3>2, <3>3, RangeIs
      <4> QED BY <3>3, <4>1
    <3>5. \A x \in Range(u) : x.who \in Users
      BY <2>2, <3>1, <3>4 DEF CondInv, Addressed
    <3> HIDE DEF u
    <3>6. tbox'[k] = u /\ \A h \in Hosts \ {k} : tbox'[h] = tbox[h]
      BY <3>1 DEF CondInv, CondTypes, u
    <3>7. tbox' \in [Hosts -> Seq(Objects)]
      BY <3>1, <3>3 DEF CondInv, CondTypes, u
    <3> QED BY <3>3, <3>5, <3>6, <3>7 DEF CondInv, CondTypes, Addressed
  <2> QED BY <2>1, <2>2 DEF SendSignal, o
<1>9. /\ event' \subseteq Plains
      /\ \A q \in event' : q \in event \/ (q = o.who /\ ~ o.ended)
  BY <1>1 DEF SendSignal, o, CondInv, CondTypes, Callers
<1>10. CondTypes'
  BY <1>2, <1>4, <1>7, <1>8, <1>9 DEF CondInv, CondTypes
<1>11. Addressed'
  BY <1>4, <1>7, <1>8 DEF CondInv, Addressed
<1>12. Booked'
  <2>1. \A d \in Callers : step'[d] \in {"none", "signal", "delay"} => cause'[d] = {}
    BY <1>1, <1>2, <1>4 DEF CondInv, Booked
  <2>2. \A d \in Callers :
          chosen'[d] # NoObject /\ ~ chosen'[d].ended => Signalled(chosen[d].who)'
    BY <1>6, <1>7 DEF CondInv, Booked
  <2>3. \A d \in Callers : chosen'[d] # NoObject => chosen'[d] = chosen[d]
    BY <1>7
  <2>4. ~ o.ended => Signalled(o.who)
    BY <1>1, HostsAre DEF CondInv, Booked, o, Objects, NoObject
  <2>5. \A q \in Plains : q \in event' /\ Waits(q)' => Signalled(q)'
    BY <1>5, <1>6, <1>9, <2>4 DEF CondInv, Booked, Callers
  <2> QED BY <2>1, <2>2, <2>3, <2>5 DEF Booked, Signalled
<1>13. Known'
  BY <1>2, <1>5, <1>6 DEF CondInv, Known
<1> QED BY <1>3, <1>10, <1>11, <1>12, <1>13 DEF CondInv

LEMMA CondTimerReads ==
    ASSUME CondInv, NEW h \in Hosts, TimerReads(h), UNCHANGED harmed
    PROVE  CondInv'
<1> DEFINE o == Head(tbox[h])
<1>1. /\ tbox[h] # << >> /\ tbox[h] \in Seq(Objects) /\ Len(tbox[h]) <= MaxMail
      /\ thr[h] \in Threads
  BY DEF TimerReads, CondInv, CondTypes, Sane, TypeOK
<1>2. /\ o \in Objects /\ o \in Range(tbox[h])
      /\ Tail(tbox[h]) \in Seq(Objects) /\ Len(Tail(tbox[h])) <= MaxMail
      /\ Range(Tail(tbox[h])) \subseteq Range(tbox[h])
  <2>1. Tail(tbox[h]) \in Seq(Objects) /\ Len(Tail(tbox[h])) = Len(tbox[h]) - 1
    BY <1>1
  <2>2. MaxMail \in Nat
    BY CondAssumption DEF CondAssumption
  <2>3. /\ Range(tbox[h]) = {tbox[h][i] : i \in 1..Len(tbox[h])}
        /\ Range(Tail(tbox[h])) = {Tail(tbox[h])[i] : i \in 1..Len(Tail(tbox[h]))}
    BY <1>1, <2>1, RangeIs
  <2>4. \A i \in 1..Len(Tail(tbox[h])) :
           i + 1 \in 1..Len(tbox[h]) /\ Tail(tbox[h])[i] = tbox[h][i + 1]
    BY <1>1, <2>1
  <2>5. o = tbox[h][1] /\ 1 \in 1..Len(tbox[h]) /\ o \in Objects
    BY <1>1
  <2> HIDE DEF o
  <2> QED BY <1>1, <2>1, <2>2, <2>3, <2>4, <2>5
<1>3. o.who \in Users
  BY <1>2 DEF CondInv, Addressed
<1> HIDE DEF o
<1>4. /\ Host_(h, WakeupWaiter(thr[h], o))
      /\ tbox' = [tbox EXCEPT ![h] = Tail(@)]
      /\ cause' = IF o.ended /\ Waits(o.who)
                  THEN [cause EXCEPT ![o.who] = @ \cup {"late"}] ELSE cause
      /\ UNCHANGED << mutexVars, box, callVars, crashed >>
      /\ UNCHANGED << cwait, step, timed, chosen, event >>
  BY DEF TimerReads, o
<1>5. Sane'
  BY <1>1, <1>2, <1>3, <1>4, WakeupWaiterTyped, SaneThreadStep DEF CondInv, Sane, TypeOK
<1>6. /\ cause' \in [Callers -> SUBSET {"signal", "late"}]
      /\ \A d \in Callers : "signal" \in cause'[d] <=> "signal" \in cause[d]
      /\ \A d \in Callers : ~ Waits(d) => cause'[d] = cause[d]
  BY <1>4 DEF CondInv, CondTypes
<1>7. \A d \in Callers : Waits(d)' <=> Waits(d)
  BY <1>4 DEF Waits
<1>8. \A d \in Callers : Signalled(d)' <=> Signalled(d)
  BY <1>6 DEF Signalled
<1>9. CondTypes'
  BY <1>2, <1>4, <1>6 DEF CondInv, CondTypes
<1>10. Addressed'
  BY <1>2, <1>4 DEF CondInv, CondTypes, Addressed
<1>11. Booked'
  <2>1. \A d \in Callers : step'[d] \in {"none", "signal", "delay"} => cause'[d] = {}
    BY <1>4, <1>6 DEF CondInv, Booked, Waits
  <2>2. \A d \in Callers :
          chosen'[d] # NoObject /\ ~ chosen'[d].ended => Signalled(chosen[d].who)'
    <3>1. \A d \in Callers : chosen[d] # NoObject => chosen[d].who \in Callers
      BY DEF CondInv, CondTypes, Objects
    <3> QED BY <1>4, <1>8, <3>1 DEF CondInv, Booked
  <2>3. \A q \in Plains : q \in event' /\ Waits(q)' => Signalled(q)'
    BY <1>4, <1>7, <1>8 DEF CondInv, Booked, Callers
  <2> QED BY <1>4, <2>1, <2>2, <2>3 DEF Booked, Signalled
<1>12. Known'
  BY <1>4, <1>7, <1>8 DEF CondInv, Known
<1> QED BY <1>5, <1>9, <1>10, <1>11, <1>12 DEF CondInv

-----------------------------------------------------------------------------
(* The condition: theorems *)

LEMMA CondInitLemma == CondInit => CondInv
<1> SUFFICES ASSUME CondInit PROVE CondInv
  OBVIOUS
<1>1. Sane
  BY SaneInit DEF CondInit
<1>2. CondTypes
  <2>1. MaxMail \in Nat /\ "none" \in Steps
    BY CondAssumption DEF CondAssumption, Steps
  <2>2. /\ << >> \in Seq(Callers) /\ << >> \in Seq(Objects)
        /\ Len(<< >>) <= MaxMail
    BY <2>1
  <2> QED BY <2>1, <2>2 DEF CondInit, CondTypes
<1>3. Addressed /\ Booked
  BY DEF CondInit, Addressed, Booked, NoObject, Waits, Range
<1>4. Known
  BY DEF CondInit, Known, Waits, Range, IsInjective, Callers
<1> QED BY <1>1, <1>2, <1>3, <1>4 DEF CondInv

LEMMA CondStepLemma == CondInv /\ [CondNext]_allVars => CondInv'
<1> SUFFICES ASSUME CondInv, [CondNext]_allVars PROVE CondInv'
  OBVIOUS
<1>0. Sane /\ Users \subseteq Callers /\ harmed \in BOOLEAN
  BY HostsAre DEF CondInv, Sane, TypeOK
<1>1. CASE UNCHANGED allVars
  <2>1. UNCHANGED << vars, condVars >>
    BY <1>1 DEF allVars
  <2>2. Sane'
    BY <1>0, <2>1, SaneStep
  <2> QED BY <2>1, <2>2, CondKept
<1>2. ASSUME NEW c \in Callers, OwnStep(c), UNCHANGED harmed
      PROVE  CondInv'
  <2>1. (LockStep(c) \/ UnlockStep(c)) /\ UNCHANGED condVars
    BY <1>2 DEF OwnStep
  <2> QED BY <1>0, <1>2, <2>1, SaneMutexStep, CondKept
<1>3. ASSUME NEW c \in Callers, CondStep(c), UNCHANGED harmed
      PROVE  CondInv'
  <2>1. CASE DelayReturn(c)
    <3>1. c \in Users
      BY <2>1 DEF DelayReturn
    <3> QED BY <1>3, <2>1, <3>1, CondDelay
  <2> QED BY <1>3, <2>1, CondRelease, CondEvent, CondRelock, CondCheck,
             CondSendSignal DEF CondStep
<1>4. ASSUME NEW c \in Callers, UNCHANGED harmed,
             \/ Signal(c) \/ EventTimesOut(c)
             \/ \E delay \in BOOLEAN : Wait(c, delay)
      PROVE  CondInv'
  BY <1>4, CondSignal, CondEvent, CondWait
<1>5. ASSUME NEW h \in Hosts, TimerStep(h), UNCHANGED harmed
      PROVE  CondInv'
  <2>1. /\ thr[h] \in Threads /\ TimerFb(h) \in Fibers
    <3>1. h = "right" => Right # {}
      BY DEF Hosts, Home
    <3> QED BY <1>0, <3>1, CondAssumption, FibersOfThreadsAssumption
            DEF Sane, TypeOK, CondAssumption, FibersOfThreadsAssumption,
                TimerFb, Hosts
  <2>2. CASE TimerReads(h)
    BY <1>5, <2>2, CondTimerReads
  <2>3. CASE ~ TimerReads(h)
    <3>1. /\ UNCHANGED << mutexVars, box, callVars, crashed >> /\ UNCHANGED condVars
          /\ \E u \in Threads : Host_(h, u)
      BY <1>5, <2>1, <2>3, TypesKept DEF TimerStep, TimerSleeps, TimerPolled
    <3> QED BY <1>0, <1>5, <3>1, SaneThreadStep, CondKept
  <2> QED BY <2>2, <2>3
<1>6. ASSUME NEW h \in Hosts, HostStep(h), UNCHANGED condVars, UNCHANGED harmed
      PROVE  CondInv'
  BY <1>0, <1>6, SaneHostStep, CondKept
<1>7. ASSUME NEW f \in Users, Delay(f) \/ YieldOwn(f) \/ Expires(f),
             UNCHANGED harmed
      PROVE  CondInv'
  <2>1. CASE Expires(f)
    <3>1. Host(f) \in Hosts /\ TimerWake(thr[Host(f)], f) \in Threads
      BY <1>0, RunsIs, TimerTypesKept, HostsAre
    <3>2. /\ Host_(Host(f), TimerWake(thr[Host(f)], f)) /\ UNCHANGED condVars
          /\ UNCHANGED << mutexVars, box, callVars, crashed >>
      BY <2>1 DEF Expires
    <3>3. Sane'
      BY <1>0, <1>7, <3>1, <3>2, SaneThreadStep
    <3> QED BY <3>2, <3>3, CondKept
  <2>2. CASE YieldOwn(f)
    <3>1. Yield(f) /\ UNCHANGED condVars
      BY <2>2 DEF YieldOwn
    <3>2. harmed' \in BOOLEAN
      BY <1>0, <1>7 DEF Sane, TypeOK
    <3>3. Sane'
      BY <1>0, <3>1, <3>2, SaneOther
    <3> QED BY <3>1, <3>3, CondKept
  <2> QED BY <1>7, <2>1, <2>2, CondDelay
<1>8. ASSUME NEW f \in Users, NEW g \in Victims, Kill(f, g), UNCHANGED condVars,
             harmed' = (harmed \/ KillWakes(g) \/ KillMisleads(g))
      PROVE  CondInv'
  <2>1. g \in Users /\ harmed' \in BOOLEAN
    BY <1>0, <1>8, FibersOfThreadsAssumption
       DEF FibersOfThreadsAssumption, KillWakes, KillMisleads
  <2> QED BY <1>0, <1>8, <2>1, SaneOther, CondKept
<1> QED BY <1>1, <1>2, <1>3, <1>4, <1>5, <1>6, <1>7, <1>8 DEF CondNext

\* The inductive invariant holds for any fibers, threads, mutexes and kills.
THEOREM CondInductive == CondSpec => []CondInv
<1>1. CondInit => CondInv
  BY CondInitLemma
<1>2. CondInv /\ [CondNext]_allVars => CondInv'
  BY CondStepLemma
<1> QED BY <1>1, <1>2, PTL DEF CondSpec

\* acl_fiber_cond_wait and acl_fiber_cond_timedwait: each wait is in waiters,
\* once, from before its mutex is unlocked until a signal takes it, and nobody
\* else is there, whatever is killed and whatever times out.
THEOREM CondWaitersKnown == CondSpec => []WaitersKnown
<1>1. CondInv => WaitersKnown
  <2> SUFFICES ASSUME CondInv PROVE WaitersKnown
    OBVIOUS
  <2>1. CondTypeOK
    BY DEF CondInv, Sane, CondTypes, CondTypeOK
  <2>2. Range(cwait) \subseteq Callers
    BY RangeIs DEF CondInv, CondTypes
  <2> QED BY <2>1, <2>2 DEF CondInv, Known, WaitersKnown
<1> QED BY <1>1, CondInductive, PTL

-----------------------------------------------------------------------------
(* The condition: the one that a signal has taken out of waiters *)

Thr(f) == thr[Host(f)]

InTimer(f) == f \in Linked(Thr(f), "timer")

\* The fibers of thread h that are to lock the mutex again: the status tells
\* which of them are ready.
Returning(h) == {f \in Users : Host(f) = h /\ step[f] = "relock"}
AllListed == \A h \in Hosts : Listed(thr[h], Returning(h))

\* A fiber that sleeps in its own code, and not in a call of the mutex.
Dozes(f) == at[f] = "run" /\ f \notin Awake(Thr(f))

\* A fiber whose sleep in the wait is over.
Back(f) == step[f] \in {"relock", "check"} /\ ~ Dozes(f)

InWait(c) == step[c] \in {"unlock", "sleep", "relock", "check"}

\* What a caller's step tells of its place in the mutex.
Stands(f) ==
    /\ step[f] \in {"unlock", "sleep", "check", "signal"} => Thr(f).running = f
    /\ step[f] = "unlock" => at[f] \in {"run", "wake"}
    /\ step[f] \in {"sleep", "check", "signal", "delay"} => at[f] = "run"
    /\ step[f] = "unlock" /\ at[f] = "wake" => lock[Guard] # f
    /\ step[f] \in {"sleep", "relock"} => lock[Guard] # f

\* A fiber is in the timer from its call with a timeout until it is woken, and
\* knows a timeout as long as it is in that call.
Clocked(f) ==
    /\ InTimer(f) =>
          \/ f \in timed /\ step[f] \in {"unlock", "sleep"}
          \/ Dozes(f) /\ (step[f] = "delay" \/ (f \in timed /\ step[f] = "relock"))
    /\ f \in timed /\ step[f] \in {"unlock", "sleep"} => InTimer(f)
    /\ f \in timed /\ step[f] = "relock" /\ Dozes(f) => InTimer(f)
    /\ "timer" \in Thr(f).flag[f] =>
          ~ InTimer(f) /\ (step[f] = "delay" \/ (f \in timed /\ Back(f)))

\* Why a wait is over, and what is known of it while it is not.
Due(f) ==
    /\ f \notin timed /\ Back(f) => Signalled(f) /\ ~ UnderWay(f)
    /\ f \in timed /\ Back(f) => Thr(f).flag[f] # {} \/ cause[f] # {}
    /\ Signalled(f) /\ ~ UnderWay(f) => Back(f) /\ "timer" \notin Thr(f).flag[f]

Settled(f) == Stands(f) /\ Clocked(f) /\ Due(f)

\* An object on the way: it is known to the wait it is for, or that wait is over.
Proper(o) ==
    IF o.ended THEN o.who \in Users => o.timed
    ELSE InWait(o.who) /\ Signalled(o.who) /\ (o.timed <=> o.who \in timed)

Live(o, c) == o.who = c /\ ~ o.ended

\* There is one object of a wait at most on the way.
OnlyOne(x) ==
    /\ \A c, d \in Callers : Live(chosen[c], x) /\ Live(chosen[d], x) => c = d
    /\ \A c \in Callers, h \in Hosts :
          Live(chosen[c], x) => \A o \in Range(tbox[h]) : ~ Live(o, x)
    /\ \A h \in Hosts : \A i, j \in DOMAIN tbox[h] :
          Live(tbox[h][i], x) /\ Live(tbox[h][j], x) => i = j

Mailed ==
    /\ \A c \in Callers :
          chosen[c] # NoObject => step[c] = "signal" /\ Proper(chosen[c])
    /\ \A h \in Hosts : \A o \in Range(tbox[h]) : Host(o.who) = h /\ Proper(o)
    /\ \A x \in Callers : OnlyOne(x)

\* A plain thread is awaited by its event, or will be.
Told == \A p \in Plains : Waits(p) /\ Signalled(p) => UnderWay(p) \/ p \in event

\* What holds of the condition until a kill misleads a fiber.
Promised ==
    /\ AllListed
    /\ \A c \in timed : InWait(c)
    /\ \A f \in Users : Settled(f)
    /\ Mailed /\ Told

\* The invariant of the condition, and of the mutex under it.
CondSafe == CondInv /\ (harmed \/ (Unharmed /\ Promised))

-----------------------------------------------------------------------------
(* The condition: what a step leaves alone *)

\* The step changes nothing that the wait of f depends on.
Steady(f) ==
    /\ thr'[Host(f)].flag[f] = thr[Host(f)].flag[f]
    /\ InTimer(f)' <=> InTimer(f)
    /\ Dozes(f)' <=> Dozes(f)
    /\ \/ /\ at'[f] = at[f]
          /\ thr[Host(f)].running = f => thr'[Host(f)].running = f
       \/ step[f] \in {"none", "relock"}
    /\ step[f] \in {"unlock", "sleep", "relock"} /\ lock'[Guard] = f =>
          lock[Guard] = f

LEMMA SettledKept ==
    ASSUME NEW f \in Users, Settled(f), Steady(f), step'[f] = step[f],
           f \in timed' <=> f \in timed, cause'[f] = cause[f],
           UnderWay(f)' <=> UnderWay(f)
    PROVE  Settled(f)'
<1>1. (Back(f)' <=> Back(f)) /\ (Signalled(f)' <=> Signalled(f))
  BY DEF Steady, Back, Signalled
<1>2. Stands(f)'
  BY DEF Settled, Stands, Steady, Thr
<1>3. Clocked(f)'
  BY <1>1 DEF Settled, Clocked, Steady, Thr
<1>4. Due(f)'
  BY <1>1 DEF Settled, Due, Steady, Thr
<1> QED BY <1>2, <1>3, <1>4 DEF Settled

LEMMA SteadyAlike ==
    ASSUME NEW f \in Users, Alike(thr[Host(f)], thr'[Host(f)], f),
           at'[f] = at[f], lock'[Guard] = f => lock[Guard] = f
    PROVE  Steady(f)
BY DEF Alike, Steady, InTimer, Dozes, Thr

\* A fiber that starts to lock the mutex again is not ready at once.
LEMMA ListedNext ==
    ASSUME \A h \in Hosts : Listed(thr'[h], Returning(h)),
           \A f \in Users : step'[f] = "relock" =>
              \/ step[f] = "relock"
              \/ f \notin Linked(thr'[Host(f)], "ready")
    PROVE  AllListed'
BY DEF AllListed, Listed, Returning

\* A step of thread h, which the mutex has no part in, for the sake of g.
LEMMA ThreadEffect ==
    ASSUME Sane, Unharmed, NEW h \in Hosts, NEW u, NEW g, Firm(u), Host_(h, u),
           UNCHANGED << mutexVars, callVars, box, crashed >>,
           AllListed, Listed(thr[h], Returning(h)) => Listed(u, Returning(h)),
           \A f \in Users \ {g} : Host(f) = h => Alike(thr[h], u, f),
           g \in Users /\ Host(g) = h =>
              \/ at[g] = "run"
              \/ Calm(thr[h], u, g) /\ (thr[h].running = g => u.running = g)
    PROVE  /\ Unharmed' /\ \A k \in Hosts : Listed(thr'[k], Returning(k))
           /\ thr'[h] = u
           /\ \A f \in Users \ {g} : Steady(f)
           /\ at' = at /\ lock' = lock
<1>1. /\ thr'[h] = u /\ \A k \in Hosts \ {h} : thr'[k] = thr[k]
  BY DEF Sane, TypeOK, Host_
<1>2. at' = at /\ lock' = lock
  BY DEF mutexVars, callVars
<1>3. ASSUME NEW f \in Users, Host(f) = h, at[f] # "run"
      PROVE  Calm(thr[h], u, f) /\ (thr[h].running = f => u.running = f)
  <2>1. f # g => Alike(thr[h], u, f)
    BY <1>3
  <2> QED BY <1>3, <2>1 DEF Alike, Calm
<1>4. Unharmed'
  BY <1>3, UnharmedThread
<1>5. ASSUME NEW f \in Users \ {g}
      PROVE  Steady(f)
  <2>1. Alike(thr[Host(f)], thr'[Host(f)], f)
    <3>1. Host(f) \in Hosts
      BY HostsAre
    <3>2. CASE Host(f) = h
      BY <1>1, <3>2
    <3>3. CASE Host(f) # h
      BY <1>1, <3>1, <3>3 DEF Alike
    <3> QED BY <3>2, <3>3
  <2> QED BY <1>2, <2>1, SteadyAlike
<1>6. \A k \in Hosts : Listed(thr'[k], Returning(k))
  BY <1>1 DEF AllListed
<1> QED BY <1>1, <1>2, <1>4, <1>5, <1>6

\* A step of the mutex, in a wait or not.
LEMMA MutexEffect ==
    ASSUME Sane, Unharmed, NEW c \in Callers, LockStep(c) \/ UnlockStep(c)
    PROVE  /\ Unharmed' /\ Moved /\ Runs(c)
           /\ \A d \in Callers \ {c} : /\ at'[d] = at[d]
                                       /\ lock'[Guard] = d => lock[Guard] = d
           /\ LockStep(c) /\ lock'[Guard] = c /\ lock[Guard] # c =>
                 at'[c] = "run" /\ thr' = thr
           /\ UnlockStep(c) =>
                 \/ /\ at[c] = "run" /\ lock'[Guard] = None
                    /\ at'[c] \in {"run", "wake"}
                 \/ at[c] = "wake" /\ at'[c] = "run" /\ lock' = lock
<1>0. /\ Guard \in Mutexes /\ None \notin Callers
      /\ lock \in [Mutexes -> Callers \cup {None}]
      /\ {"run", "wake"} \subseteq Places /\ at \in [Callers -> Places]
  BY HostsAre, CondAssumption DEF CondAssumption, Sane, TypeOK, Places
<1>1. TakeFree(c, Guard) \/ CallStep(c, Guard)
  BY DEF LockStep, UnlockStep, CallStep
<1>2. Unharmed' /\ Moved
  BY <1>0, <1>1, UnharmedOwn, UnharmedQueue, UnharmedSwitchAway,
     UnharmedUnlock, UnharmedSendWake DEF CallStep
<1>3. Runs(c) /\ \A d \in Callers \ {c} : at'[d] = at[d]
  BY <1>0, <1>1, CallsAt
<1>4. ASSUME LockStep(c)
      PROVE  \/ lock' = lock
             \/ /\ lock' = [lock EXCEPT ![Guard] = c] /\ Goes(c, "run", None)
                /\ thr' = thr
  BY <1>4 DEF LockStep, TakeFree, FindTaken, Queue, QueueTakes, SwitchAway,
              Block, BlockedTakes, Taken, mutexVars
<1>5. ASSUME UnlockStep(c)
      PROVE  \/ /\ at[c] = "run" /\ lock' = [lock EXCEPT ![Guard] = None]
                /\ at' = at \/ Goes(c, "wake", Guard)
             \/ at[c] = "wake" /\ lock' = lock /\ Goes(c, "run", None)
  BY <1>5 DEF UnlockStep, Unlock, SendWake, Calls, In_, mutexVars, callVars
<1>6. /\ Goes(c, "run", None) => at'[c] = "run"
      /\ Goes(c, "wake", Guard) => at'[c] = "wake"
  BY <1>0, GoesTyped
<1>7. \A d \in Callers \ {c} : lock'[Guard] = d => lock[Guard] = d
  BY <1>0, <1>4, <1>5
<1>8. LockStep(c) /\ lock'[Guard] = c /\ lock[Guard] # c =>
         at'[c] = "run" /\ thr' = thr
  BY <1>4, <1>6
<1>9. UnlockStep(c) =>
         \/ at[c] = "run" /\ lock'[Guard] = None /\ at'[c] \in {"run", "wake"}
         \/ at[c] = "wake" /\ at'[c] = "run" /\ lock' = lock
  BY <1>0, <1>5, <1>6
<1> QED BY <1>2, <1>3, <1>7, <1>8, <1>9

LEMMA MutexSteady ==
    ASSUME CondInv, Unharmed, NEW c \in Callers, LockStep(c) \/ UnlockStep(c),
           NEW f \in Users, Settled(f),
           f = c => \/ step[c] = "none"
                    \/ step[c] = "relock" /\ lock'[Guard] # c
    PROVE  Steady(f)
<1>0. f \in Callers /\ Host(f) \in Hosts /\ Sane /\ step[f] \in Steps
  BY HostsAre DEF CondInv, CondTypes
<1>1. /\ Moved /\ Runs(c)
      /\ f # c => at'[f] = at[f] /\ (lock'[Guard] = f => lock[Guard] = f)
  BY <1>0, MutexEffect
<1>2. CASE ~ Alike(thr[Host(f)], thr'[Host(f)], f)
  <2>1. /\ at[f] \in {"switch", "wait"} /\ at'[f] = "wait"
        /\ thr'[Host(f)].flag[f] = thr[Host(f)].flag[f]
        /\ InTimer(f)' => InTimer(f)
    BY <1>0, <1>1, <1>2 DEF Moved, InTimer, Thr
  <2>2. step[f] \notin {"unlock", "sleep", "check", "signal", "delay"}
    BY <2>1 DEF Settled, Stands
  <2>3. ~ InTimer(f)
    BY <2>1, <2>2 DEF Settled, Clocked, Dozes
  <2>4. step[f] = "relock" /\ lock'[Guard] = f => lock[Guard] = f
    BY <1>1
  <2>5. step[f] \in {"none", "relock"}
    BY <1>0, <2>2 DEF Steps
  <2> QED BY <2>1, <2>3, <2>4, <2>5 DEF Steady, Dozes
<1>3. CASE Alike(thr[Host(f)], thr'[Host(f)], f)
  <2>1. CASE f # c
    BY <1>1, <1>3, <2>1, SteadyAlike
  <2>2. CASE f = c
    <3>1. /\ f \in Awake(thr[Host(f)]) /\ f \in Awake(thr'[Host(f)])
      BY <1>0, <1>1, <1>3, <2>2, RunningIs DEF Alike
    <3>2. ~ Dozes(f) /\ ~ Dozes(f)'
      BY <3>1 DEF Dozes, Thr
    <3> QED BY <1>3, <2>2, <3>2 DEF Alike, Steady, InTimer, Thr
  <2> QED BY <2>1, <2>2
<1> QED BY <1>2, <1>3

\* A step of a host, and of the mutex.
LEMMA HostSteady ==
    ASSUME CondInv, Unharmed, NEW h \in Hosts, HostStep(h),
           NEW f \in Users, Settled(f)
    PROVE  Steady(f)
<1>0. f \in Callers /\ Host(f) \in Hosts /\ Sane /\ step[f] \in Steps
  BY HostsAre DEF CondInv, CondTypes
<1>1. Unharmed' /\ Moved
  BY <1>0, UnharmedHost, UnharmedWakerReads DEF HostStep
<1>2. at' = at /\ lock' = lock
  BY DEF HostStep, WakerReads, WakerSleeps, WakerPolled, Dispatch, callVars,
     mutexVars
<1>3. CASE ~ Alike(thr[Host(f)], thr'[Host(f)], f)
  <2>1. /\ at[f] = "wait" /\ at'[f] = "wait"
        /\ thr'[Host(f)].flag[f] = thr[Host(f)].flag[f]
        /\ InTimer(f)' => InTimer(f)
    BY <1>0, <1>1, <1>2, <1>3 DEF Moved, InTimer, Thr
  <2>2. step[f] \notin {"unlock", "sleep", "check", "signal", "delay"}
    BY <2>1 DEF Settled, Stands
  <2>3. ~ InTimer(f)
    BY <2>1, <2>2 DEF Settled, Clocked, Dozes
  <2>4. step[f] \in {"none", "relock"}
    BY <1>0, <2>2 DEF Steps
  <2> QED BY <1>2, <2>1, <2>3, <2>4 DEF Steady, Dozes
<1>4. CASE Alike(thr[Host(f)], thr'[Host(f)], f)
  BY <1>2, <1>4, SteadyAlike
<1> QED BY <1>3, <1>4

\* The lists of the objects, one by one.
LEMMA UnderWayIs ==
    ASSUME CondInv
    PROVE  \A x : UnderWay(x) <=>
                    \/ \E c \in Callers : Live(chosen[c], x)
                    \/ \E h \in Hosts : \E o \in Range(tbox[h]) : Live(o, x)
<1>1. Range(chosen) = {chosen[c] : c \in Callers}
  BY DEF CondInv, CondTypes, Range
<1> QED BY <1>1 DEF UnderWay, Live

LEMMA UnderWayNext ==
    ASSUME CondInv'
    PROVE  \A x : UnderWay(x)' <=>
                    \/ \E c \in Callers : Live(chosen'[c], x)
                    \/ \E h \in Hosts : \E o \in Range(tbox'[h]) : Live(o, x)
<1>1. Range(chosen') = {chosen'[c] : c \in Callers}
  BY DEF CondInv, CondTypes, Range
<1> QED BY <1>1 DEF UnderWay, Live

\* Who an object is for.
LEMMA ObjectsAre ==
    ASSUME CondInv
    PROVE  /\ \A c \in Callers : chosen[c] # NoObject =>
                 chosen[c] \in Objects /\ chosen[c].who \in Callers
           /\ \A h \in Hosts : \A o \in Range(tbox[h]) :
                 o \in Objects /\ o.who \in Users
           /\ \A h \in Hosts : /\ tbox[h] \in Seq(Objects)
                               /\ DOMAIN tbox[h] = 1..Len(tbox[h])
                               /\ Range(tbox[h]) =
                                     {tbox[h][i] : i \in 1..Len(tbox[h])}
           /\ \A x \in Callers : ~ Live(NoObject, x)
<1>1. \A c \in Callers : chosen[c] # NoObject =>
         chosen[c] \in Objects /\ chosen[c].who \in Callers
  BY DEF CondInv, CondTypes, Objects
<1>2. ASSUME NEW h \in Hosts
      PROVE  /\ tbox[h] \in Seq(Objects)
             /\ DOMAIN tbox[h] = 1..Len(tbox[h])
             /\ Range(tbox[h]) = {tbox[h][i] : i \in 1..Len(tbox[h])}
             /\ \A o \in Range(tbox[h]) : o \in Objects /\ o.who \in Users
  <2>1. tbox[h] \in Seq(Objects)
    BY DEF CondInv, CondTypes
  <2>2. /\ DOMAIN tbox[h] = 1..Len(tbox[h])
        /\ Range(tbox[h]) = {tbox[h][i] : i \in 1..Len(tbox[h])}
    BY <2>1, RangeIs
  <2>3. \A o \in Range(tbox[h]) : o \in Objects
    BY <2>1, <2>2
  <2> QED BY <2>1, <2>2, <2>3 DEF CondInv, Addressed
<1>3. \A x \in Callers : ~ Live(NoObject, x)
  BY HostsAre DEF Live, NoObject
<1> QED BY <1>1, <1>2, <1>3

LEMMA ProperKept ==
    ASSUME NEW CONSTANT o, Proper(o),
           ~ o.ended => /\ InWait(o.who) => InWait(o.who)'
                        /\ Signalled(o.who) => Signalled(o.who)'
                        /\ o.who \in timed' <=> o.who \in timed
    PROVE  Proper(o)'
BY DEF Proper

\* The objects on the way stay where they are.
LEMMA MailedKept ==
    ASSUME CondInv, Mailed, UNCHANGED << chosen, tbox >>,
           \A c \in Callers : step[c] = "signal" => step'[c] = "signal",
           \A x \in Callers : UnderWay(x) =>
              /\ InWait(x) => InWait(x)'
              /\ Signalled(x) => Signalled(x)'
              /\ x \in timed' <=> x \in timed
    PROVE  Mailed'
<1>1. ASSUME NEW c \in Callers, chosen[c] # NoObject
      PROVE  step'[c] = "signal" /\ Proper(chosen[c])'
  <2>1. /\ Proper(chosen[c]) /\ chosen[c].who \in Callers /\ step[c] = "signal"
        /\ Live(chosen[c], chosen[c].who) => UnderWay(chosen[c].who)
    BY <1>1, ObjectsAre, UnderWayIs DEF Mailed
  <2> QED BY <2>1 DEF Proper, Live
<1>2. ASSUME NEW h \in Hosts, NEW o \in Range(tbox[h])
      PROVE  Host(o.who) = h /\ Proper(o)'
  <2>1. /\ Proper(o) /\ o.who \in Callers /\ Host(o.who) = h
        /\ Live(o, o.who) => UnderWay(o.who)
    BY ObjectsAre, UnderWayIs, HostsAre DEF Mailed
  <2> QED BY <2>1 DEF Proper, Live
<1>3. \A x \in Callers : OnlyOne(x)'
  BY DEF Mailed, OnlyOne
<1> QED BY <1>1, <1>2, <1>3 DEF Mailed

\* An object on the way is known to the wait it is for.
LEMMA UnderWayKnown ==
    ASSUME CondInv, Promised, NEW x \in Callers, UnderWay(x)
    PROVE  InWait(x) /\ Signalled(x)
<1>1. \/ \E d \in Callers : Live(chosen[d], x)
      \/ \E h \in Hosts : \E o \in Range(tbox[h]) : Live(o, x)
  BY UnderWayIs
<1>2. \A d \in Callers : Live(chosen[d], x) => chosen[d] # NoObject
  BY ObjectsAre
<1> QED BY <1>1, <1>2 DEF Promised, Mailed, Proper, Live

\* A step in which no object moves, for the sake of the caller c, or of none.
LEMMA PromisedKept ==
    ASSUME CondInv, CondInv', Promised, NEW CONSTANT c,
           UNCHANGED << chosen, tbox, cause >>,
           \A h \in Hosts : Listed(thr'[h], Returning(h)),
           \A d \in Callers \ {c} : /\ step'[d] = step[d]
                                    /\ d \in timed' <=> d \in timed
                                    /\ d \in event => d \in event',
           \A f \in Users \ {c} : Steady(f),
           c \in Callers =>
              /\ step[c] = "signal" => step'[c] = "signal"
              /\ InWait(c) => InWait(c)' /\ (c \in timed' <=> c \in timed)
              /\ c \in timed' => InWait(c)',
           c \in Users => Settled(c)',
           c \in Users /\ step'[c] = "relock" =>
              \/ step[c] = "relock"
              \/ c \notin Linked(thr'[Host(c)], "ready"),
           c \in Plains /\ Waits(c)' /\ Signalled(c) =>
              UnderWay(c) \/ c \in event'
    PROVE  Promised'
<1>0. Users \subseteq Callers /\ Plains \subseteq Callers /\ timed' \subseteq Callers
  BY HostsAre DEF CondInv, CondTypes
<1>1. \A x : (UnderWay(x)' <=> UnderWay(x)) /\ (Signalled(x)' <=> Signalled(x))
  BY DEF UnderWay, Signalled
<1>2. \A d \in Callers \ {c} : InWait(d)' <=> InWait(d)
  BY DEF InWait
<1>3. \A d \in timed' : InWait(d)'
  BY <1>0, <1>2 DEF Promised
<1>4. \A f \in Users : Settled(f)'
  <2>1. ASSUME NEW f \in Users, f # c PROVE Settled(f)'
    BY <1>0, <1>1, <2>1, SettledKept DEF Promised
  <2> QED BY <2>1
<1>5. Mailed'
  <2>1. \A d \in Callers : step[d] = "signal" => step'[d] = "signal"
    OBVIOUS
  <2>2. \A x \in Callers : UnderWay(x) =>
           /\ InWait(x) => InWait(x)'
           /\ Signalled(x) => Signalled(x)'
           /\ x \in timed' <=> x \in timed
    BY <1>1, <1>2, UnderWayKnown
  <2> QED BY <2>1, <2>2, MailedKept DEF Promised
<1>6. Told'
  <2>1. \A p \in Plains \ {c} : Waits(p)' <=> Waits(p)
    BY <1>0 DEF Waits
  <2> QED BY <1>0, <1>1, <2>1 DEF Promised, Told
<1>7. AllListed'
  <2>1. \A f \in Users : step'[f] = "relock" =>
           step[f] = "relock" \/ f \notin Linked(thr'[Host(f)], "ready")
    BY <1>0
  <2> QED BY <2>1, ListedNext
<1> QED BY <1>3, <1>4, <1>5, <1>6, <1>7 DEF Promised

-----------------------------------------------------------------------------
(* The condition: the steps of the one who waits *)

\* A step of the caller's own, outside of any wait.
LEMMA PromisedOwn ==
    ASSUME CondInv, CondInv', Unharmed, Promised, NEW c \in Callers, OwnStep(c)
    PROVE  Unharmed' /\ Promised'
<1>0. Sane /\ step[c] = "none" /\ UNCHANGED condVars
  BY DEF CondInv, OwnStep
<1>1. LockStep(c) \/ UnlockStep(c)
  BY DEF OwnStep
<1>2. Unharmed' /\ \A h \in Hosts : Listed(thr'[h], Returning(h))
  BY <1>0, <1>1, MutexEffect DEF Moved, Promised, AllListed
<1>3. \A f \in Users : Steady(f)
  BY <1>0, <1>1, MutexSteady DEF Promised
<1>4. UNCHANGED << chosen, tbox, cause, step, timed, event >>
  BY <1>0 DEF condVars
<1>5. None \notin Callers /\ None \notin Users /\ None \notin Plains
  BY HostsAre DEF Callers
<1> QED BY <1>2, <1>3, <1>4, <1>5, PromisedKept

LEMMA PromisedHost ==
    ASSUME CondInv, CondInv', Unharmed, Promised, NEW h \in Hosts, HostStep(h),
           UNCHANGED condVars
    PROVE  Unharmed' /\ Promised'
<1>1. ASSUME NEW f \in Users
      PROVE  Steady(f)
  BY HostSteady DEF Promised
<1>2. Unharmed' /\ Moved
  BY UnharmedHost, UnharmedWakerReads DEF HostStep, CondInv
<1>3. \A k \in Hosts : Listed(thr'[k], Returning(k))
  BY <1>2 DEF Moved, Promised, AllListed
<1>4. UNCHANGED << chosen, tbox, cause, step, timed, event >>
  BY DEF condVars
<1>5. None \notin Callers /\ None \notin Users /\ None \notin Plains
  BY HostsAre DEF Callers
<1> QED BY <1>1, <1>2, <1>3, <1>4, <1>5, PromisedKept

\* A step that leaves the threads and the mutex alone.
LEMMA CodeKept ==
    ASSUME Unharmed, Promised,
           UNCHANGED << thr, mutexVars, box, callVars, crashed >>
    PROVE  /\ Unharmed' /\ \A h \in Hosts : Listed(thr'[h], Returning(h))
           /\ \A f \in Users : Steady(f)
<1>0. thr' = thr
  OBVIOUS
<1>1. \A h \in Hosts : Listed(thr'[h], Returning(h))
  BY <1>0 DEF Promised, AllListed
<1>2. \A f \in Users : Steady(f)
  BY DEF Steady, InTimer, Dozes, Thr, mutexVars, callVars
<1>3. Unharmed'
  BY DEF Unharmed, Placed, Sleeps, Expected, WakeSent, QueuedOnce,
     SentOnce, Served, WillTry, mutexVars, callVars
<1> QED BY <1>1, <1>2, <1>3

LEMMA PromisedWait ==
    ASSUME CondInv, CondInv', Unharmed, Promised, NEW c \in Callers,
           NEW delay \in BOOLEAN, Wait(c, delay)
    PROVE  Unharmed' /\ Promised'
<1>0. /\ step[c] = "none" /\ Runs(c) /\ at[c] = "run" /\ Sane
      /\ cause[c] = {} /\ c \notin timed /\ ~ Waits(c) /\ ~ InWait(c)
      /\ ~ UnderWay(c) /\ ~ Signalled(c)
  <2>1. step[c] = "none" /\ Runs(c) /\ at[c] = "run" /\ Sane /\ cause[c] = {}
    BY DEF Wait, At, CondInv, Booked
  <2>2. ~ InWait(c) /\ ~ Waits(c) /\ ~ Signalled(c)
    BY <2>1 DEF InWait, Waits, Signalled
  <2> QED BY <2>1, <2>2, UnderWayKnown DEF Promised
<1>1. /\ step'[c] = "unlock" /\ \A d \in Callers \ {c} : step'[d] = step[d]
      /\ timed' = IF delay THEN timed \cup {c} ELSE timed
      /\ event' = event \ {c}
      /\ UNCHANGED << mutexVars, box, callVars, crashed, chosen, tbox, cause >>
  BY DEF Wait, To, CondInv, CondTypes
<1>2. InWait(c)'
  BY <1>1 DEF InWait
<1>3. CASE ~ (delay /\ c \in Users)
  <2>1. thr' = thr
    BY <1>3 DEF Wait
  <2>2. Unharmed' /\ \A h \in Hosts : Listed(thr'[h], Returning(h))
    BY <1>1, <2>1, CodeKept
  <2>3. \A f \in Users : Steady(f)
    BY <1>1, <2>1, CodeKept
  <2>4. c \in Users => Settled(c)'
    <3> SUFFICES ASSUME c \in Users PROVE Settled(c)'
      OBVIOUS
    <3>1. c \notin timed' /\ at'[c] = "run" /\ thr' = thr /\ cause' = cause
      BY <1>0, <1>1, <1>3, <2>1 DEF callVars
    <3>2. ~ InTimer(c)' /\ "timer" \notin thr'[Host(c)].flag[c] /\ ~ Back(c)'
      <4>1. ~ InTimer(c) /\ "timer" \notin thr[Host(c)].flag[c]
        BY <1>0 DEF Promised, Settled, Clocked, Back, Thr
      <4> QED BY <1>1, <3>1, <4>1 DEF InTimer, Thr, Back
    <3>3. ~ Signalled(c)'
      BY <1>0, <3>1 DEF Signalled
    <3>4. thr[Host(c)].running = c
      BY <1>0, RunsIs
    <3> QED BY <1>1, <3>1, <3>2, <3>3, <3>4
            DEF Settled, Stands, Clocked, Due, Thr
  <2> QED BY <1>0, <1>1, <1>2, <2>2, <2>3, <2>4, PromisedKept
<1>4. CASE delay /\ c \in Users
  <2> DEFINE t == thr[Host(c)]
             u == FiberTimerAdd(t, c)
  <2>1. /\ Host(c) \in Hosts /\ c \in Fibers /\ Users \subseteq Fibers
        /\ t.running = c /\ Firm(t) /\ Host_(Host(c), u)
    BY <1>0, <1>4, RunsIs, HostsAre DEF Wait, Unharmed
  <2> HIDE DEF t
  <2>2. /\ Firm(u) /\ u.running = c /\ u.flag = t.flag
        /\ \A S : Listed(t, S) => Listed(u, S)
        /\ Linked(u, "timer") = Linked(t, "timer") \cup {c}
        /\ \A f \in Fibers \ {c} : Alike(t, u, f)
    BY <2>1, FirmTimerAdd
  <2> HIDE DEF u
  <2>3. /\ Unharmed' /\ \A k \in Hosts : Listed(thr'[k], Returning(k))
        /\ thr'[Host(c)] = u
        /\ \A f \in Users \ {c} : Steady(f)
        /\ at' = at /\ lock' = lock
    BY <1>0, <1>1, <2>1, <2>2, ThreadEffect DEF t, Promised
  <2>4. Settled(c)'
    <3>1. c \in timed' /\ at'[c] = "run" /\ cause' = cause
      BY <1>0, <1>1, <1>4, <2>3
    <3>2. InTimer(c)' /\ "timer" \notin thr'[Host(c)].flag[c] /\ ~ Back(c)'
      <4>1. "timer" \notin thr[Host(c)].flag[c]
        BY <1>0, <1>4 DEF Promised, Settled, Clocked, Back, Thr
      <4> QED BY <1>1, <2>2, <2>3, <4>1 DEF InTimer, Thr, Back, t
    <3>3. ~ Signalled(c)'
      BY <1>0, <3>1 DEF Signalled
    <3> QED BY <1>1, <2>2, <2>3, <3>1, <3>2, <3>3
            DEF Settled, Stands, Clocked, Due, Thr
  <2> QED BY <1>0, <1>1, <1>2, <1>4, <2>3, <2>4, HostsAre, PromisedKept
<1> QED BY <1>3, <1>4

LEMMA PromisedRelease ==
    ASSUME CondInv, CondInv', Unharmed, Promised, NEW c \in Callers, Release(c)
    PROVE  Unharmed' /\ Promised'
<1>0. /\ step[c] = "unlock" /\ UnlockStep(c) /\ Sane /\ InWait(c)
      /\ UNCHANGED << cwait, timed, chosen, tbox, event, cause >>
  BY DEF Release, CondInv, InWait
<1>1. /\ step'[c] = IF at'[c] = "run" THEN "sleep" ELSE "unlock"
      /\ \A d \in Callers \ {c} : step'[d] = step[d]
  BY DEF Release, To, CondInv, CondTypes
<1>2. /\ Unharmed' /\ Moved /\ Runs(c)
      /\ \/ /\ at[c] = "run" /\ lock'[Guard] = None
            /\ at'[c] \in {"run", "wake"}
         \/ at[c] = "wake" /\ at'[c] = "run" /\ lock' = lock
  BY <1>0, MutexEffect
<1>3. /\ InWait(c)' /\ Waits(c)' /\ step'[c] \in {"unlock", "sleep"}
  BY <1>1 DEF InWait, Waits
<1>4. ASSUME NEW f \in Users \ {c}
      PROVE  Steady(f)
  BY <1>0, MutexSteady DEF Promised
<1>5. c \in Users => Settled(c)'
  <2> SUFFICES ASSUME c \in Users PROVE Settled(c)'
    OBVIOUS
  <2>1. /\ Alike(thr[Host(c)], thr'[Host(c)], c) /\ Settled(c)
        /\ thr[Host(c)].running = c
    BY <1>0, <1>2, RunsIs DEF Moved, Promised, AllListed
  <2>2. /\ thr'[Host(c)].running = c /\ (InTimer(c)' <=> InTimer(c))
        /\ thr'[Host(c)].flag[c] = thr[Host(c)].flag[c]
        /\ ~ Back(c) /\ ~ Back(c)'
    BY <1>0, <1>1, <1>3, <2>1 DEF Alike, InTimer, Thr, Back
  <2>3. (Signalled(c)' <=> Signalled(c)) /\ (UnderWay(c)' <=> UnderWay(c))
    BY <1>0 DEF Signalled, UnderWay
  <2>4. lock'[Guard] # c
    BY <1>0, <1>2, <2>1, HostsAre DEF Settled, Stands
  <2>5. Stands(c)'
    BY <1>1, <1>2, <2>2, <2>4 DEF Stands, Thr
  <2>6. Clocked(c)'
    BY <1>0, <1>3, <2>1, <2>2 DEF Settled, Clocked, Thr
  <2>7. Due(c)'
    BY <2>1, <2>2, <2>3 DEF Settled, Due
  <2> QED BY <2>5, <2>6, <2>7 DEF Settled
<1>6. c \in Plains /\ Waits(c)' /\ Signalled(c) => UnderWay(c) \/ c \in event'
  BY <1>0 DEF Promised, Told, Waits
<1>7. \A h \in Hosts : Listed(thr'[h], Returning(h))
  BY <1>2 DEF Moved, Promised, AllListed
<1> QED BY <1>0, <1>1, <1>2, <1>3, <1>4, <1>5, <1>6, <1>7, PromisedKept

LEMMA PromisedSleep ==
    ASSUME CondInv, CondInv', Unharmed, Promised, NEW c \in Callers, Sleep(c)
    PROVE  Unharmed' /\ Promised'
<1> DEFINE t == thr[Host(c)]
           u == Switch(t)
<1>0. /\ c \in Users /\ step[c] = "sleep" /\ Sane /\ Settled(c)
      /\ Host(c) \in Hosts /\ c \in Fibers /\ Users \subseteq Fibers
      /\ c \notin Plains /\ InWait(c)
  BY HostsAre DEF Sleep, At, CondInv, Promised, InWait
<1>1. /\ Host_(Host(c), u) /\ t.running = c /\ Firm(t)
      /\ UNCHANGED << mutexVars, box, callVars, crashed >>
      /\ UNCHANGED << cwait, timed, chosen, tbox, event, cause >>
  BY <1>0 DEF Sleep, Settled, Stands, Thr, Unharmed
<1>2. /\ step'[c] = "relock" /\ \A d \in Callers \ {c} : step'[d] = step[d]
  BY DEF Sleep, To, CondInv, CondTypes
<1> HIDE DEF t
<1>3. /\ Firm(u) /\ u.flag = t.flag
      /\ \A S : Listed(t, S) => Listed(u, S)
      /\ Linked(u, "timer") = Linked(t, "timer")
      /\ c \notin Awake(u)
      /\ \A f \in Fibers \ {c} : Alike(t, u, f)
  BY <1>0, <1>1, FirmSwitch
<1> HIDE DEF u
<1>4. at[c] = "run"
  BY <1>0 DEF Settled, Stands
<1>5. /\ Unharmed' /\ \A k \in Hosts : Listed(thr'[k], Returning(k))
      /\ thr'[Host(c)] = u
      /\ \A f \in Users \ {c} : Steady(f)
      /\ at' = at /\ lock' = lock
  BY <1>0, <1>1, <1>3, <1>4, ThreadEffect DEF t, Promised
<1>6. Settled(c)'
  <2>1. /\ Dozes(c)' /\ ~ Back(c)' /\ ~ Back(c)
        /\ InTimer(c)' <=> InTimer(c)
        /\ thr'[Host(c)].flag[c] = thr[Host(c)].flag[c]
    BY <1>0, <1>3, <1>4, <1>5 DEF Dozes, Back, InTimer, Thr, t
  <2>2. (Signalled(c)' <=> Signalled(c)) /\ (UnderWay(c)' <=> UnderWay(c))
    BY <1>1 DEF Signalled, UnderWay
  <2>3. Stands(c)'
    BY <1>0, <1>2, <1>5 DEF Settled, Stands
  <2>4. Clocked(c)'
    BY <1>0, <1>1, <1>2, <2>1 DEF Settled, Clocked, Thr
  <2>5. Due(c)'
    BY <1>0, <2>1, <2>2 DEF Settled, Due
  <2> QED BY <2>3, <2>4, <2>5 DEF Settled
<1>7. InWait(c)'
  BY <1>2 DEF InWait
<1>8. c \notin Linked(thr'[Host(c)], "ready")
  BY <1>3, <1>5 DEF Awake
<1> QED BY <1>0, <1>1, <1>2, <1>5, <1>6, <1>7, <1>8, PromisedKept

\* A plain thread reads its event, or gives up.
LEMMA PromisedEvent ==
    ASSUME CondInv, CondInv', Unharmed, Promised, NEW p \in Callers,
           EventRead(p) \/ EventTimesOut(p)
    PROVE  Unharmed' /\ Promised'
<1>1. /\ step[p] = "sleep" /\ p \in Plains /\ p \notin Users /\ InWait(p)
      /\ UNCHANGED << thr, mutexVars, box, callVars, crashed >>
      /\ UNCHANGED << timed, chosen, tbox, cause >>
      /\ \A d \in Callers \ {p} : d \in event => d \in event'
  BY HostsAre DEF EventRead, EventTimesOut, At, InWait, codeVars
<1>2. /\ step'[p] = "relock" /\ \A d \in Callers \ {p} : step'[d] = step[d]
  BY DEF EventRead, EventTimesOut, To, CondInv, CondTypes
<1>3. InWait(p)' /\ ~ Waits(p)'
  BY <1>1, <1>2 DEF InWait, Waits
<1>4. /\ Unharmed' /\ \A h \in Hosts : Listed(thr'[h], Returning(h))
      /\ \A f \in Users : Steady(f)
  BY <1>1, CodeKept
<1> QED BY <1>1, <1>2, <1>3, <1>4, PromisedKept

\* The mutex is taken again, or is still waited for.  What a plain thread does
\* once it has the mutex is looked at below.
LEMMA PromisedRelock ==
    ASSUME CondInv, CondInv', Unharmed, Promised, NEW c \in Callers, Relock(c),
           lock'[Guard] = c => c \in Users
    PROVE  Unharmed' /\ Promised'
<1>0. /\ step[c] = "relock" /\ LockStep(c) /\ Sane /\ InWait(c)
      /\ UNCHANGED << cwait, timed, chosen, tbox, event, cause >>
  BY DEF Relock, CondInv, InWait
<1>1. /\ Unharmed' /\ Moved /\ Runs(c)
      /\ lock'[Guard] = c /\ lock[Guard] # c => at'[c] = "run" /\ thr' = thr
  BY <1>0, MutexEffect
<1>2. \A f \in Users \ {c} : Steady(f)
  BY <1>0, MutexSteady DEF Promised
<1>3. \A h \in Hosts : Listed(thr'[h], Returning(h))
  BY <1>1 DEF Moved, Promised, AllListed
<1>4. c \in Plains => ~ Waits(c)
  BY <1>0, HostsAre DEF Waits
<1>5. CASE lock'[Guard] # c
  <2>1. step' = step
    BY <1>5 DEF Relock
  <2>2. c \in Users => Settled(c)'
    <3> SUFFICES ASSUME c \in Users PROVE Settled(c)'
      OBVIOUS
    <3>1. Steady(c) /\ Settled(c)
      BY <1>0, <1>5, MutexSteady DEF Promised
    <3>2. UnderWay(c)' <=> UnderWay(c)
      BY <1>0 DEF UnderWay
    <3> QED BY <1>0, <2>1, <3>1, <3>2, SettledKept
  <2>3. InWait(c)' /\ (c \in Plains => ~ Waits(c)')
    BY <1>0, <1>4, <2>1 DEF InWait, Waits
  <2> QED BY <1>0, <1>1, <1>2, <1>3, <2>1, <2>2, <2>3, PromisedKept
<1>6. CASE lock'[Guard] = c
  <2>1. c \in Users /\ To(c, "check") /\ Settled(c) /\ c \notin Plains
    BY <1>6, HostsAre DEF Relock, Promised
  <2>2. step'[c] = "check" /\ \A d \in Callers \ {c} : step'[d] = step[d]
    BY <2>1 DEF To, CondInv, CondTypes
  <2>3. at'[c] = "run" /\ thr' = thr /\ thr[Host(c)].running = c
    BY <1>0, <1>1, <1>6, <2>1, RunsIs DEF Settled, Stands
  <2>4. /\ ~ Dozes(c) /\ ~ Dozes(c)' /\ Back(c) /\ Back(c)'
        /\ InTimer(c)' <=> InTimer(c)
    BY <1>0, <2>2, <2>3 DEF Dozes, Back, Awake, Thr, InTimer
  <2>5. (Signalled(c)' <=> Signalled(c)) /\ (UnderWay(c)' <=> UnderWay(c))
    BY <1>0 DEF Signalled, UnderWay
  <2>6. Stands(c)'
    BY <2>2, <2>3 DEF Stands, Thr
  <2>7. Clocked(c)'
    BY <1>0, <2>1, <2>2, <2>3, <2>4 DEF Settled, Clocked, Thr
  <2>8. Due(c)'
    BY <1>0, <2>1, <2>3, <2>4, <2>5 DEF Settled, Due, Thr
  <2>9. Settled(c)' /\ InWait(c)'
    BY <2>2, <2>6, <2>7, <2>8 DEF Settled, InWait
  <2> QED BY <1>0, <1>1, <1>2, <1>3, <2>1, <2>2, <2>9, PromisedKept
<1> QED BY <1>5, <1>6

-----------------------------------------------------------------------------
(* The condition: the timers, and kills *)

LEMMA PromisedDelay ==
    ASSUME CondInv, CondInv', Unharmed, Promised, NEW f \in Users, Delay(f)
    PROVE  Unharmed' /\ Promised'
<1> DEFINE t == thr[Host(f)]
           a == FiberTimerAdd(t, f)
           u == Switch(a)
<1>0. /\ step[f] = "none" /\ at[f] = "run" /\ Sane /\ Settled(f)
      /\ Host(f) \in Hosts /\ f \in Fibers /\ Users \subseteq Fibers
      /\ f \in Callers /\ f \notin Plains /\ cause[f] = {} /\ ~ InWait(f)
      /\ f \notin timed
  BY HostsAre DEF Delay, At, CondInv, Booked, Promised, InWait
<1>1. /\ Host_(Host(f), u) /\ t.running = f /\ Firm(t)
      /\ UNCHANGED << mutexVars, box, callVars, crashed >>
      /\ UNCHANGED << cwait, timed, chosen, tbox, event, cause >>
  BY <1>0, RunsIs DEF Delay, At, Unharmed
<1>2. /\ step'[f] = "delay" /\ \A d \in Callers \ {f} : step'[d] = step[d]
  BY <1>0 DEF Delay, To, CondInv, CondTypes
<1> HIDE DEF t
<1>3. /\ Firm(a) /\ a.running = f /\ a.flag = t.flag
      /\ \A S : Listed(t, S) => Listed(a, S)
      /\ Linked(a, "timer") = Linked(t, "timer") \cup {f}
      /\ \A g \in Fibers \ {f} : Alike(t, a, g)
  BY <1>0, <1>1, FirmTimerAdd
<1> HIDE DEF a
<1>4. /\ Firm(u) /\ u.flag = a.flag
      /\ \A S : Listed(a, S) => Listed(u, S)
      /\ Linked(u, "timer") = Linked(a, "timer")
      /\ f \notin Awake(u)
      /\ \A g \in Fibers \ {f} : Alike(a, u, g)
  BY <1>0, <1>3, FirmSwitch
<1> HIDE DEF u
<1>5. \A g \in Fibers \ {f} : Alike(t, u, g)
  BY <1>1, <1>3, <1>4 DEF Alike
<1>6. /\ Unharmed' /\ \A k \in Hosts : Listed(thr'[k], Returning(k))
      /\ thr'[Host(f)] = u
      /\ \A g \in Users \ {f} : Steady(g)
      /\ at' = at /\ lock' = lock
  BY <1>0, <1>1, <1>3, <1>4, <1>5, ThreadEffect DEF t, Promised
<1>7. Settled(f)'
  <2>1. ~ Signalled(f)' /\ f \notin timed'
    BY <1>0, <1>1 DEF Signalled
  <2>2. Dozes(f)' /\ "timer" \notin thr'[Host(f)].flag[f] /\ ~ Back(f)'
    <3>1. "timer" \notin thr[Host(f)].flag[f]
      BY <1>0 DEF Settled, Clocked, Back, Thr
    <3> QED BY <1>0, <1>2, <1>3, <1>4, <1>6, <3>1 DEF Dozes, Back, Thr, t
  <2>3. Stands(f)'
    BY <1>0, <1>2, <1>6 DEF Stands
  <2>4. Clocked(f)'
    BY <1>2, <2>1, <2>2 DEF Clocked, Thr
  <2>5. Due(f)'
    BY <2>1, <2>2 DEF Due
  <2> QED BY <2>3, <2>4, <2>5 DEF Settled
<1> QED BY <1>0, <1>1, <1>2, <1>6, <1>7, PromisedKept

\* A fiber in its own code is in no timer, and is ready again at once.
LEMMA PromisedYield ==
    ASSUME CondInv, CondInv', Unharmed, Promised, NEW f \in Users, YieldOwn(f)
    PROVE  Unharmed' /\ Promised'
<1> DEFINE t == thr[Host(f)]
           u == FiberYield(t)
           S == Returning(Host(f))
<1>0. /\ step[f] = "none" /\ at[f] = "run" /\ Sane /\ Settled(f)
      /\ Host(f) \in Hosts /\ f \in Fibers /\ Users \subseteq Fibers
      /\ f \in Callers /\ f \notin Plains /\ ~ InWait(f) /\ f \notin timed
  BY HostsAre DEF YieldOwn, Yield, CondInv, Promised, InWait
<1>1. /\ Host_(Host(f), u) /\ t.running = f /\ Firm(t)
      /\ UNCHANGED << mutexVars, box, callVars, crashed >>
      /\ UNCHANGED << cwait, step, timed, chosen, tbox, event, cause >>
  BY <1>0, RunsIs DEF YieldOwn, Yield, Unharmed, condVars
<1>2. f \in Awake(t) /\ f \notin Linked(t, "timer") /\ f \notin S
  <2>1. f \in Awake(t)
    BY <1>1 DEF Awake
  <2>2. ~ InTimer(f)
    BY <1>0, <2>1 DEF Settled, Clocked, Dozes, Thr
  <2> QED BY <1>0, <2>1, <2>2 DEF InTimer, Returning, Thr
<1> HIDE DEF t
<1>3. Whole(t)
  BY <1>1, <1>2, FirmIsWhole, MutexRings
<1>4. /\ Firm(u)
      /\ \A R : t.running \notin R /\ Listed(t, R) => Listed(u, R)
      /\ u.flag = t.flag /\ Linked(u, "timer") = Linked(t, "timer")
      /\ Awake(u) = Awake(t)
      /\ \A g \in Fibers \ {t.running} : Alike(t, u, g)
  BY <1>0, <1>1, <1>3, FirmYield
<1> HIDE DEF u
<1>5. Listed(t, S) => Listed(u, S)
  BY <1>1, <1>2, <1>4
<1>6. AllListed /\ \A g \in Users \ {f} : Host(g) = Host(f) => Alike(t, u, g)
  BY <1>0, <1>1, <1>4 DEF Promised
<1>7. /\ Unharmed' /\ \A k \in Hosts : Listed(thr'[k], Returning(k))
      /\ thr'[Host(f)] = u
      /\ \A g \in Users \ {f} : Steady(g)
      /\ at' = at /\ lock' = lock
  BY <1>0, <1>1, <1>4, <1>5, <1>6, ThreadEffect DEF t
<1>8. Settled(f)'
  <2>1. Steady(f)
    BY <1>0, <1>2, <1>4, <1>7 DEF Steady, InTimer, Dozes, Thr, t
  <2>2. UnderWay(f)' <=> UnderWay(f)
    BY <1>1 DEF UnderWay
  <2> QED BY <1>0, <1>1, <2>1, <2>2, SettledKept
<1> QED BY <1>0, <1>1, <1>7, <1>8, PromisedKept DEF InWait

LEMMA PromisedDelayReturn ==
    ASSUME CondInv, CondInv', Unharmed, Promised, NEW f \in Users, DelayReturn(f)
    PROVE  Unharmed' /\ Promised'
<1> DEFINE t == thr[Host(f)]
           u == ClearFlag(t, f, "timer")
<1>0. /\ step[f] = "delay" /\ Sane /\ Settled(f) /\ at[f] = "run"
      /\ Host(f) \in Hosts /\ f \in Fibers /\ Users \subseteq Fibers
      /\ f \in Callers /\ f \notin Plains /\ cause[f] = {} /\ ~ InWait(f)
      /\ f \notin timed
  BY HostsAre DEF DelayReturn, At, CondInv, Booked, Promised, InWait, Settled,
     Stands
<1>1. /\ Host_(Host(f), u) /\ t.running = f /\ Firm(t)
      /\ UNCHANGED << mutexVars, box, callVars, crashed >>
      /\ UNCHANGED << cwait, timed, chosen, tbox, event, cause >>
  BY <1>0, RunsIs DEF DelayReturn, At, Unharmed
<1>2. /\ step'[f] = "none" /\ \A d \in Callers \ {f} : step'[d] = step[d]
  BY <1>0 DEF DelayReturn, To, CondInv, CondTypes
<1> HIDE DEF t
<1>3. /\ Firm(u) /\ u.flag[f] = t.flag[f] \ {"timer"}
      /\ \A S : Listed(t, S) => Listed(u, S)
      /\ Linked(u, "timer") = Linked(t, "timer")
      /\ \A g \in Fibers \ {f} : Alike(t, u, g)
  BY <1>0, <1>1, FirmFlag DEF Flags
<1> HIDE DEF u
<1>4. /\ Unharmed' /\ \A k \in Hosts : Listed(thr'[k], Returning(k))
      /\ thr'[Host(f)] = u
      /\ \A g \in Users \ {f} : Steady(g)
      /\ at' = at /\ lock' = lock
  BY <1>0, <1>1, <1>3, ThreadEffect DEF t, Promised
<1>5. Settled(f)'
  <2>1. ~ Signalled(f)' /\ f \notin timed'
    BY <1>0, <1>1 DEF Signalled
  <2>2. ~ InTimer(f)' /\ "timer" \notin thr'[Host(f)].flag[f] /\ ~ Back(f)'
    <3>1. ~ InTimer(f)
      BY <1>0, <1>1 DEF Settled, Clocked, Dozes, Awake, Thr, t
    <3> QED BY <1>2, <1>3, <1>4, <3>1 DEF InTimer, Back, Thr, t
  <2>3. Stands(f)'
    BY <1>2 DEF Stands
  <2>4. Clocked(f)'
    BY <1>2, <2>1, <2>2 DEF Clocked, Thr
  <2>5. Due(f)'
    BY <2>1, <2>2 DEF Due
  <2> QED BY <2>3, <2>4, <2>5 DEF Settled
<1> QED BY <1>0, <1>1, <1>2, <1>4, <1>5, PromisedKept

\* The sync timer's fiber is no user of the condition.
LEMMA TimerFbIs ==
    ASSUME NEW h \in Hosts
    PROVE  TimerFb(h) \in Fibers /\ TimerFb(h) \notin Users
<1>1. h = "right" => Right # {}
  BY DEF Hosts, Home
<1> QED BY <1>1 , CondAssumption, FibersOfThreadsAssumption
        DEF CondAssumption, FibersOfThreadsAssumption, TimerFb, Hosts, Users

\* The sync timer's fiber goes to sleep, or its mailbox is readable.
LEMMA PromisedTimerFb ==
    ASSUME CondInv, CondInv', Unharmed, Promised, NEW h \in Hosts,
           TimerSleeps(h) \/ TimerPolled(h)
    PROVE  Unharmed' /\ Promised'
<1> DEFINE t == thr[h]
           g == TimerFb(h)
<1>0. /\ Sane /\ Firm(t) /\ g \in Fibers /\ g \notin Users
      /\ Users \subseteq Fibers
      /\ None \notin Callers /\ None \notin Users /\ None \notin Plains
      /\ None \notin Fibers
      /\ UNCHANGED << mutexVars, box, callVars, crashed >>
      /\ UNCHANGED condVars
  BY TimerFbIs, HostsAre DEF CondInv, Unharmed, TimerSleeps, TimerPolled, Callers
<1>1. PICK u : /\ Host_(h, u) /\ Firm(u)
               /\ \A S : Listed(t, S) => Listed(u, S)
               /\ \A f \in Fibers \ {g} : Alike(t, u, f)
  <2> HIDE DEF t, g
  <2>1. CASE TimerSleeps(h)
    <3>1. t.running = g /\ Host_(h, Switch(t))
      BY <2>1 DEF TimerSleeps, t, g
    <3> QED BY <1>0, <3>1, FirmSwitch
  <2>2. CASE TimerPolled(h)
    <3>1. t.running = None /\ Host_(h, FiberReady(t, g))
      BY <2>2 DEF TimerPolled, t, g
    <3>2. g # t.running
      BY <1>0, <3>1
    <3> QED BY <1>0, <3>1, <3>2, FirmWake
  <2> QED BY <2>1, <2>2
<1>2. /\ Unharmed' /\ \A k \in Hosts : Listed(thr'[k], Returning(k))
      /\ \A f \in Users \ {g} : Steady(f)
  BY <1>0, <1>1, ThreadEffect DEF Promised
<1>3. \A f \in Users : Steady(f)
  BY <1>0, <1>2
<1>4. UNCHANGED << chosen, tbox, cause, step, timed, event >>
  BY <1>0 DEF condVars
<1> QED BY <1>0, <1>2, <1>3, <1>4, PromisedKept

LEMMA PromisedExpires ==
    ASSUME CondInv, CondInv', Unharmed, Promised, NEW f \in Users, Expires(f)
    PROVE  Unharmed' /\ Promised'
<1> DEFINE t == thr[Host(f)]
           u == TimerWake(t, f)
<1>0. /\ Sane /\ Settled(f) /\ Firm(t) /\ t.running = None /\ f # t.running
      /\ Host(f) \in Hosts /\ f \in Fibers /\ Users \subseteq Fibers
      /\ f \in Callers /\ f \notin Plains
  BY HostsAre DEF Expires, CondInv, Promised, Unharmed
<1>1. /\ Host_(Host(f), u)
      /\ UNCHANGED << mutexVars, box, callVars, crashed >>
      /\ UNCHANGED << cwait, step, timed, chosen, tbox, event, cause >>
  BY DEF Expires, condVars
<1>2. /\ InTimer(f) /\ Dozes(f) /\ at[f] = "run"
      /\ step[f] = "delay" \/ (f \in timed /\ step[f] = "relock")
  <2>1. InTimer(f)
    BY DEF Expires, InTimer, In, Linked, Thr
  <2> QED BY <1>0, <2>1 DEF Settled, Clocked, Stands, Dozes, Thr
<1> HIDE DEF t
<1>3. /\ Firm(u) /\ Awake(u) = Awake(t) \cup {f}
      /\ \A S : Listed(t, S) => Listed(u, S)
      /\ Linked(u, "timer") = Linked(t, "timer") \ {f}
      /\ u.flag[f] = t.flag[f] \cup {"timer"}
      /\ \A g \in Fibers \ {f} : Alike(t, u, g)
  BY <1>0, FirmTimerWake
<1> HIDE DEF u
<1>4. /\ Unharmed' /\ \A k \in Hosts : Listed(thr'[k], Returning(k))
      /\ thr'[Host(f)] = u
      /\ \A g \in Users \ {f} : Steady(g)
      /\ at' = at /\ lock' = lock
  BY <1>0, <1>1, <1>2, <1>3, ThreadEffect DEF t, Promised
<1>5. Settled(f)'
  <2>1. /\ ~ Dozes(f)' /\ ~ InTimer(f)' /\ thr'[Host(f)].flag[f] # {}
        /\ Back(f)' <=> step[f] = "relock"
    BY <1>1, <1>2, <1>3, <1>4 DEF Dozes, InTimer, Back, Thr
  <2>2. (Signalled(f)' <=> Signalled(f)) /\ (UnderWay(f)' <=> UnderWay(f))
    BY <1>1 DEF Signalled, UnderWay
  <2>3. Stands(f)'
    BY <1>0, <1>1, <1>2, <1>4 DEF Settled, Stands
  <2>4. Clocked(f)'
    BY <1>1, <1>2, <2>1 DEF Clocked
  <2>5. Due(f)'
    <3>1. Signalled(f) => UnderWay(f)
      BY <1>0, <1>2 DEF Settled, Due, Back
    <3>2. step[f] = "relock" => f \in timed
      BY <1>2
    <3> QED BY <1>1, <2>1, <2>2, <3>1, <3>2 DEF Due, Thr
  <2> QED BY <2>3, <2>4, <2>5 DEF Settled
<1>6. \A x : InWait(x)' <=> InWait(x)
  BY <1>1 DEF InWait
<1> QED BY <1>0, <1>1, <1>4, <1>5, <1>6, PromisedKept DEF Promised

\* A kill that neither wakes a fiber out of the mutex nor misleads one.
LEMMA PromisedKill ==
    ASSUME CondInv, CondInv', Unharmed, Promised, NEW f \in Users,
           NEW g \in Users, step[f] = "none", Kill(f, g), UNCHANGED condVars,
           ~ KillWakes(g), ~ KillMisleads(g)
    PROVE  Unharmed' /\ Promised'
<1> DEFINE t == thr[Host(g)]
           u == FiberSignal(t, g)
<1>0. /\ Sane /\ Settled(g) /\ Firm(t) /\ Host(g) \in Hosts /\ g \in Fibers
      /\ Users \subseteq Fibers /\ g \in Callers /\ g \notin Plains
      /\ t.running = f /\ None \notin Fibers
      /\ at[g] \in Places /\ step[g] \in Steps
  BY HostsAre, RunsIs DEF Kill, CondInv, CondTypes, Sane, TypeOK, Promised, Unharmed
<1>1. /\ Host_(Host(g), u)
      /\ UNCHANGED << mutexVars, box, callVars, crashed >>
      /\ UNCHANGED << cwait, step, timed, chosen, tbox, event, cause >>
  BY DEF Kill, condVars
<1>2. Unharmed'
  BY <1>0, UnharmedKill
<1> HIDE DEF t
<1>3. /\ Firm(u) /\ u.running = t.running
      /\ \A S : Listed(t, S) => Listed(u, S)
      /\ u.flag[g] = t.flag[g] \cup {"canceled"}
      /\ \A k \in Fibers \ {g} : Alike(t, u, k)
      /\ IF t.status[g] = "suspend"
         THEN /\ Awake(u) = Awake(t) \cup {g}
              /\ Linked(u, "timer") = Linked(t, "timer") \ {g}
         ELSE /\ Awake(u) = Awake(t)
              /\ Linked(u, "timer") = Linked(t, "timer")
  BY <1>0, FirmSignal
<1> HIDE DEF u
<1>4. /\ thr'[Host(g)] = u /\ \A k \in Hosts \ {Host(g)} : thr'[k] = thr[k]
      /\ at' = at /\ lock' = lock
  BY <1>0, <1>1 DEF Sane, TypeOK, Host_, mutexVars, callVars
<1>5. \A k \in Hosts : Listed(thr'[k], Returning(k))
  BY <1>0, <1>3, <1>4 DEF Promised, AllListed, t
<1>6. ASSUME NEW k \in Users \ {g}
      PROVE  Steady(k)
  <2>1. Alike(thr[Host(k)], thr'[Host(k)], k)
    <3>1. Host(k) \in Hosts /\ k \in Fibers
      BY HostsAre
    <3>2. CASE Host(k) = Host(g)
      BY <1>3, <1>4, <3>1, <3>2 DEF t
    <3>3. CASE Host(k) # Host(g)
      BY <1>4, <3>1, <3>3 DEF Alike
    <3> QED BY <3>2, <3>3
  <2> QED BY <1>4, <2>1, SteadyAlike
<1>7. /\ (Signalled(g)' <=> Signalled(g)) /\ (UnderWay(g)' <=> UnderWay(g))
      /\ g \in timed' <=> g \in timed
  BY <1>1 DEF Signalled, UnderWay
<1>8. Stands(g)'
  BY <1>0, <1>1, <1>3, <1>4 DEF Settled, Stands, Thr, t
<1>9. "timer" \in u.flag[g] <=> "timer" \in t.flag[g]
  BY <1>3
<1>10. CASE t.status[g] # "suspend"
  <2>1. /\ Dozes(g)' <=> Dozes(g)
        /\ InTimer(g)' <=> InTimer(g)
        /\ Back(g)' <=> Back(g)
    BY <1>1, <1>3, <1>4, <1>10 DEF Dozes, InTimer, Back, Thr, t
  <2>2. Clocked(g)'
    BY <1>0, <1>1, <1>4, <1>9, <2>1 DEF Settled, Clocked, Thr, t
  <2>3. Due(g)'
    BY <1>0, <1>1, <1>3, <1>4, <1>7, <1>9, <2>1 DEF Settled, Due, Thr, t
  <2> QED BY <1>0, <1>1, <1>2, <1>5, <1>6, <1>8, <2>2, <2>3, PromisedKept
          DEF Settled, InWait, Promised
<1>11. CASE t.status[g] = "suspend"
  <2>1. /\ ~ Dozes(g)' /\ ~ InTimer(g)'
        /\ Back(g)' <=> step[g] \in {"relock", "check"}
    BY <1>1, <1>3, <1>4, <1>11 DEF Dozes, InTimer, Back, Thr, t
  <2>2. step[g] \notin {"unlock", "sleep", "check", "signal"}
    <3>1. t.running # g
      BY <1>0, <1>11 DEF Firm
    <3> QED BY <1>0, <3>1 DEF Settled, Stands, Thr, t
  <2>3. step[g] = "relock" /\ g \notin timed => Back(g)
    BY <1>11 DEF KillMisleads, KillWakes, Back, Dozes, t
  <2>4. Clocked(g)'
    BY <1>0, <1>1, <1>4, <1>9, <2>1, <2>2 DEF Settled, Clocked, Back, Thr, t
  <2>5. Due(g)'
    BY <1>0, <1>1, <1>3, <1>4, <1>7, <1>9, <2>1, <2>2, <2>3
       DEF Settled, Due, Back, Thr, t
  <2> QED BY <1>0, <1>1, <1>2, <1>5, <1>6, <1>8, <2>4, <2>5, PromisedKept
          DEF Settled, InWait, Promised
<1> QED BY <1>10, <1>11

-----------------------------------------------------------------------------
(* The condition: the end of a wait *)

\* Nothing refers to the wait of c any more: the others' objects stay as they
\* are, and no wait of c is going on.
LEMMA PromisedEnds ==
    ASSUME CondInv, CondInv', Promised, NEW c \in Callers, Unrefer(c),
           InWait(c), UNCHANGED event,
           step'[c] = "none", \A d \in Callers \ {c} : step'[d] = step[d],
           \A h \in Hosts : Listed(thr'[h], Returning(h)),
           \A f \in Users \ {c} : Steady(f),
           c \in Users => ~ UnderWay(c) \/ c \in timed,
           c \in Users => Stands(c)' /\ ~ InTimer(c)'
                          /\ "timer" \notin thr'[Host(c)].flag[c]
    PROVE  Promised'
<1>0. /\ Users \subseteq Callers /\ Plains \subseteq Callers
      /\ None \notin Callers /\ Users \cap Plains = {}
      /\ timed' = timed \ {c} /\ timed \subseteq Callers
      /\ cause'[c] = {} /\ \A d \in Callers \ {c} : cause'[d] = cause[d]
      /\ \A d \in Callers : chosen'[d] = Ended(chosen[d], c)
  BY HostsAre DEF Unrefer, CondInv, CondTypes
<1>1. ASSUME NEW o, o \in Objects \cup {NoObject}
      PROVE  /\ Ended(o, c).who = o.who /\ Ended(o, c).timed = o.timed
             /\ o.who # c => Ended(o, c) = o
             /\ o.who = c => Ended(o, c).ended
             /\ Ended(o, c).ended => o.ended \/ o.who = c
             /\ Ended(o, c) = NoObject <=> o = NoObject
             /\ \A x : Live(Ended(o, c), x) <=> Live(o, x) /\ x # c
  <2>1. Ended(o, c) = IF o.who = c THEN [o EXCEPT !.ended = TRUE] ELSE o
    BY DEF Ended
  <2>2. /\ NoObject.who = None /\ c # None
        /\ o \in Objects => o.who \in Callers /\ o.who # None
    BY <1>0 DEF NoObject, Objects
  <2>3. CASE o.who # c
    BY <2>1, <2>3 DEF Live
  <2>4. CASE o.who = c
    <3>1. o \in Objects
      BY <1>1, <2>2, <2>4
    <3>2. Ended(o, c) = [o EXCEPT !.ended = TRUE]
      BY <2>1, <2>4
    <3>3. Ended(o, c).who = c /\ Ended(o, c).timed = o.timed /\ Ended(o, c).ended
      BY <2>4, <3>1, <3>2 DEF Objects
    <3> QED BY <2>2, <2>4, <3>3 DEF Live
  <2> QED BY <2>3, <2>4
<1>2. \A d \in Callers : chosen[d] \in Objects \cup {NoObject}
  BY DEF CondInv, CondTypes
<1>3. ASSUME NEW h \in Hosts
      PROVE  /\ DOMAIN tbox'[h] = DOMAIN tbox[h]
             /\ \A i \in DOMAIN tbox[h] : /\ tbox'[h][i] = Ended(tbox[h][i], c)
                                          /\ tbox[h][i] \in Objects
             /\ Range(tbox'[h]) = {Ended(o, c) : o \in Range(tbox[h])}
  <2>1. tbox'[h] = [i \in DOMAIN tbox[h] |-> Ended(tbox[h][i], c)]
    BY DEF Unrefer
  <2>2. \A i \in DOMAIN tbox[h] : tbox[h][i] \in Objects
    BY DEF CondInv, CondTypes
  <2> QED BY <2>1, <2>2 DEF Range
<1>4. \A x : UnderWay(x)' <=> UnderWay(x) /\ x # c
  <2>1. \A d \in Callers : \A x : Live(chosen'[d], x) <=> Live(chosen[d], x) /\ x # c
    BY <1>0, <1>1, <1>2
  <2>2. ASSUME NEW h \in Hosts, NEW x
        PROVE  (\E o \in Range(tbox'[h]) : Live(o, x)) <=>
               (\E o \in Range(tbox[h]) : Live(o, x)) /\ x # c
    <3>1. \A o \in Range(tbox[h]) : Live(Ended(o, c), x) <=> Live(o, x) /\ x # c
      BY <1>1, ObjectsAre
    <3> QED BY <1>3, <3>1
  <2> QED BY <2>1, <2>2, UnderWayIs, UnderWayNext
<1>5. \A d \in timed' : InWait(d)'
  BY <1>0 DEF Promised, InWait
<1>6. \A f \in Users : Settled(f)'
  <2>1. ASSUME NEW f \in Users, f # c PROVE Settled(f)'
    BY <1>0, <1>4, <2>1, SettledKept DEF Promised
  <2>2. c \in Users => Settled(c)'
    <3>1. ~ Signalled(c)' /\ c \notin timed' /\ ~ Back(c)'
      BY <1>0 DEF Signalled, Back
    <3> QED BY <3>1 DEF Settled, Clocked, Due, Thr
  <2> QED BY <2>1, <2>2
<1>7. ASSUME NEW CONSTANT o, NEW CONSTANT e, o \in Objects, e = Ended(o, c),
             Proper(o), Live(o, o.who) => UnderWay(o.who)
      PROVE  Proper(e)'
  <2>0. /\ e.who = o.who /\ e.timed = o.timed
        /\ o.who # c => e = o
        /\ o.who = c => e.ended
        /\ o.who \in Callers
    BY <1>1, <1>7 DEF Objects
  <2>1. CASE o.who # c
    <3>1. /\ (InWait(o.who)' <=> InWait(o.who)) /\ (o.who \in timed' <=> o.who \in timed)
          /\ Signalled(o.who)' <=> Signalled(o.who)
      BY <1>0, <2>0, <2>1 DEF InWait, Signalled
    <3> QED BY <1>7, <2>0, <2>1, <3>1, ProperKept
  <2>2. CASE o.who = c
    <3>1. o.ended /\ c \in Users => o.timed
      BY <1>7, <2>2 DEF Proper
    <3>2. ~ o.ended /\ c \in Users => o.timed
      BY <1>7, <2>2 DEF Proper, Live
    <3>3. e.who \in Users => e.timed
      BY <2>0, <2>2, <3>1, <3>2
    <3> QED BY <2>0, <2>2, <3>3 DEF Proper
  <2> QED BY <2>1, <2>2
<1>8. ASSUME NEW d \in Callers, chosen'[d] # NoObject
      PROVE  step'[d] = "signal" /\ Proper(chosen[d])'
  <2>1. chosen[d] # NoObject
    BY <1>0, <1>1, <1>2, <1>8
  <2>2. chosen[d] \in Objects /\ step[d] = "signal" /\ Proper(chosen[d])
    BY <1>2, <2>1 DEF Promised, Mailed
  <2>3. Live(chosen[d], chosen[d].who) => UnderWay(chosen[d].who)
    BY UnderWayIs
  <2>4. PICK o, e : o = chosen[d] /\ e = chosen'[d]
    OBVIOUS
  <2>5. Proper(e)'
    BY <1>0, <1>7, <2>2, <2>3, <2>4
  <2>6. d # c
    BY <2>2 DEF InWait
  <2> QED BY <2>2, <2>4, <2>5, <2>6 DEF Proper
<1>9. ASSUME NEW h \in Hosts, NEW CONSTANT e, e \in Range(tbox'[h])
      PROVE  Host(e.who) = h /\ Proper(e)'
  <2>1. PICK o \in Range(tbox[h]) : e = Ended(o, c)
    BY <1>3, <1>9
  <2>2. o \in Objects /\ Host(o.who) = h /\ Proper(o) /\ e.who = o.who
    BY <1>1, <2>1, ObjectsAre DEF Promised, Mailed
  <2>3. Live(o, o.who) => UnderWay(o.who)
    BY UnderWayIs
  <2> QED BY <1>7, <2>1, <2>2, <2>3
<1>10. ASSUME NEW x \in Callers PROVE OnlyOne(x)'
  <2>1. \A d \in Callers : Live(chosen'[d], x) => Live(chosen[d], x)
    BY <1>0, <1>1, <1>2
  <2>2. \A h \in Hosts : \A i \in DOMAIN tbox[h] :
           Live(tbox'[h][i], x) => Live(tbox[h][i], x)
    BY <1>1, <1>3
  <2>3. \A h \in Hosts : \A e \in Range(tbox'[h]) :
           Live(e, x) => \E o \in Range(tbox[h]) : Live(o, x)
    <3>1. \A h \in Hosts : \A o \in Range(tbox[h]) : Live(Ended(o, c), x) => Live(o, x)
      BY <1>1, ObjectsAre
    <3>2. \A h \in Hosts : Range(tbox'[h]) = {Ended(o, c) : o \in Range(tbox[h])}
      BY <1>3
    <3> QED BY <3>1, <3>2
  <2> QED BY <1>3, <2>1, <2>2, <2>3 DEF Promised, Mailed, OnlyOne
<1>11. Mailed'
  BY <1>8, <1>9, <1>10 DEF Mailed
<1>12. Told'
  <2>1. ~ Waits(c)' /\ \A p \in Plains \ {c} : Waits(p)' <=> Waits(p)
    BY <1>0 DEF Waits
  <2>2. \A p \in Plains \ {c} : Signalled(p)' <=> Signalled(p)
    BY <1>0 DEF Signalled
  <2> QED BY <1>4, <2>1, <2>2 DEF Promised, Told
<1>13. AllListed'
  <2>1. \A f \in Users : step'[f] = "relock" => step[f] = "relock"
    BY <1>0
  <2> QED BY <2>1, ListedNext
<1> QED BY <1>5, <1>6, <1>11, <1>12, <1>13 DEF Promised

LEMMA PromisedCheck ==
    ASSUME CondInv, CondInv', Unharmed, Promised, NEW f \in Users, Check(f)
    PROVE  Unharmed' /\ Promised'
<1> DEFINE t == thr[Host(f)]
           u == ClearFlag(t, f, "timer")
<1>0. /\ step[f] = "check" /\ Sane /\ Settled(f) /\ at[f] = "run"
      /\ Host(f) \in Hosts /\ f \in Fibers /\ Users \subseteq Fibers
      /\ f \in Callers /\ InWait(f)
  BY HostsAre DEF Check, At, CondInv, Promised, InWait, Settled, Stands
<1>1. /\ Host_(Host(f), u) /\ t.running = f /\ Firm(t)
      /\ UNCHANGED << mutexVars, box, callVars, crashed >>
      /\ Unrefer(f) /\ event' = event
  BY <1>0, RunsIs DEF Check, At, Unharmed
<1>2. /\ step'[f] = "none" /\ \A d \in Callers \ {f} : step'[d] = step[d]
  BY <1>0 DEF Check, To, CondInv, CondTypes
<1> HIDE DEF t
<1>3. /\ Firm(u) /\ u.flag[f] = t.flag[f] \ {"timer"}
      /\ \A S : Listed(t, S) => Listed(u, S)
      /\ Linked(u, "timer") = Linked(t, "timer")
      /\ \A g \in Fibers \ {f} : Alike(t, u, g)
  BY <1>0, <1>1, FirmFlag DEF Flags
<1> HIDE DEF u
<1>4. /\ Unharmed' /\ \A k \in Hosts : Listed(thr'[k], Returning(k))
      /\ thr'[Host(f)] = u
      /\ \A g \in Users \ {f} : Steady(g)
      /\ at' = at /\ lock' = lock
  BY <1>0, <1>1, <1>3, ThreadEffect DEF t, Promised
<1>5. ~ Dozes(f) /\ Back(f)
  BY <1>0, <1>1 DEF Dozes, Back, Awake, Thr, t
<1>6. ~ UnderWay(f) \/ f \in timed
  BY <1>0, <1>5 DEF Settled, Due
<1>7. Stands(f)' /\ ~ InTimer(f)' /\ "timer" \notin thr'[Host(f)].flag[f]
  <2>1. ~ InTimer(f)
    BY <1>0, <1>5 DEF Settled, Clocked
  <2> QED BY <1>2, <1>3, <1>4, <2>1 DEF Stands, InTimer, Thr, t
<1> QED BY <1>0, <1>1, <1>2, <1>4, <1>6, <1>7, PromisedEnds

\* A plain thread has the mutex again, and its wait is over.
LEMMA PromisedRelocked ==
    ASSUME CondInv, CondInv', Unharmed, Promised, NEW c \in Callers, Relock(c),
           lock'[Guard] = c, c \notin Users
    PROVE  Unharmed' /\ Promised'
<1>0. /\ step[c] = "relock" /\ LockStep(c) /\ Sane /\ InWait(c)
      /\ To(c, "none") /\ Unrefer(c) /\ event' = event
  BY DEF Relock, CondInv, InWait
<1>1. Unharmed' /\ Moved
  BY <1>0, MutexEffect
<1>2. \A f \in Users \ {c} : Steady(f)
  BY <1>0, MutexSteady DEF Promised
<1>3. \A h \in Hosts : Listed(thr'[h], Returning(h))
  BY <1>1 DEF Moved, Promised, AllListed
<1>4. step'[c] = "none" /\ \A d \in Callers \ {c} : step'[d] = step[d]
  BY <1>0 DEF To, CondInv, CondTypes
<1> QED BY <1>0, <1>1, <1>2, <1>3, <1>4, PromisedEnds

-----------------------------------------------------------------------------
(* The condition: the steps of a signal *)

\* What wakeup_waiter does to the fiber x, the owner of the object.
LEMMA WakeupEffect ==
    ASSUME CondInv, Unharmed, Promised, NEW h \in Hosts, NEW o, NEW x \in Users,
           o.who = x, Host(x) = h, thr[h].running # x, o.ended => o.timed,
           ~ o.ended => /\ InWait(x) /\ (o.timed <=> x \in timed)
                        /\ x \notin timed => ~ Back(x),
           Host_(h, WakeupWaiter(thr[h], o)),
           UNCHANGED << mutexVars, box, callVars, crashed, timed >>,
           step'[x] = step[x]
    PROVE  /\ Unharmed' /\ \A k \in Hosts : Listed(thr'[k], Returning(k))
           /\ \A f \in Users \ {x} : Steady(f)
           /\ Stands(x)' /\ Clocked(x)'
           /\ Back(x) => Back(x)'
           /\ o.ended /\ x \notin timed /\ Back(x)' => Back(x)
           /\ thr'[h].flag[x] \subseteq thr[h].flag[x]
           /\ ~ o.ended => Back(x)' /\ "timer" \notin thr'[h].flag[x]
<1> DEFINE t == thr[h]
           u == WakeupWaiter(t, o)
<1>0. /\ Sane /\ Firm(t) /\ x \in Fibers /\ Users \subseteq Fibers
      /\ Settled(x) /\ step[x] \in Steps /\ x \in Callers
  BY HostsAre DEF CondInv, CondTypes, Unharmed, Promised
<1> HIDE DEF t
<1>1. /\ Firm(u) /\ u.running = t.running
      /\ \A S : Listed(t, S) => Listed(u, S)
      /\ \A f \in Fibers \ {x} : Alike(t, u, f)
      /\ ~ o.timed \/ x \in Linked(t, "timer") =>
            /\ Awake(u) = Awake(t) \cup {x} /\ u.flag = t.flag
            /\ Linked(u, "timer") = Linked(t, "timer") \ {x}
      /\ ~ (~ o.timed \/ x \in Linked(t, "timer")) =>
            /\ Awake(u) = Awake(t) /\ u.status = t.status
            /\ Linked(u, "timer") = Linked(t, "timer")
            /\ u.flag[x] = t.flag[x] \ {"timer"}
  <2>1. o.who \in Fibers /\ o.who # t.running
    BY <1>0 DEF t
  <2>2. CASE ~ o.timed \/ x \in Linked(t, "timer")
    <3>1. u = FiberReady(t, x)
      BY <2>2 DEF u, WakeupWaiter, In, Linked
    <3> HIDE DEF u
    <3> QED BY <1>0, <2>1, <2>2, <3>1, FirmWake
  <2>3. CASE ~ (~ o.timed \/ x \in Linked(t, "timer"))
    <3>1. u = ClearFlag(t, x, "timer")
      BY <2>3 DEF u, WakeupWaiter, In, Linked
    <3> HIDE DEF u
    <3> QED BY <1>0, <2>1, <2>3, <3>1, FirmFlag DEF Flags
  <2> QED BY <2>2, <2>3
<1> HIDE DEF u
<1>2. step[x] \in {"none", "delay", "relock"}
  BY <1>0 DEF Settled, Stands, Steps, Thr
<1>3. ~ o.ended => step[x] = "relock"
  BY <1>2 DEF InWait
<1>4. ~ o.timed \/ x \in Linked(t, "timer") => Dozes(x)
  <2>1. CASE x \in Linked(t, "timer")
    BY <1>0, <1>2, <2>1 DEF Settled, Clocked, InTimer, Thr, t
  <2>2. CASE ~ o.timed
    BY <1>3, <2>2 DEF Back
  <2> QED BY <2>1, <2>2
<1>5. \/ at[x] = "run"
      \/ Calm(t, u, x) /\ (t.running = x => u.running = x)
  BY <1>1, <1>4 DEF Dozes, Calm
<1>6. /\ Unharmed' /\ \A k \in Hosts : Listed(thr'[k], Returning(k))
      /\ thr'[h] = u
      /\ \A f \in Users \ {x} : Steady(f)
      /\ at' = at /\ lock' = lock
  <2>1. UNCHANGED << mutexVars, callVars, box, crashed >> /\ Host_(h, u)
    BY DEF u, t
  <2>2. \A f \in Users \ {x} : Host(f) = h => Alike(t, u, f)
    BY <1>0, <1>1
  <2> QED BY <1>0, <1>1, <1>5, <2>1, <2>2, ThreadEffect DEF t, Promised
<1>7. Stands(x)'
  BY <1>0, <1>1, <1>6 DEF Settled, Stands, Thr, t
<1>8. timed' = timed
  OBVIOUS
<1>9. CASE ~ o.timed \/ x \in Linked(t, "timer")
  <2>1. ~ Dozes(x)' /\ ~ InTimer(x)' /\ thr'[h].flag[x] = thr[h].flag[x]
    BY <1>1, <1>6, <1>9 DEF Dozes, InTimer, Thr, t
  <2>2. ~ Back(x) /\ (Back(x)' <=> step[x] = "relock")
    BY <1>2, <1>4, <1>9, <2>1 DEF Back
  <2>3. Clocked(x)'
    BY <1>0, <1>2, <1>8, <2>1, <2>2 DEF Settled, Clocked, Thr
  <2>4. o.ended /\ x \notin timed => step[x] # "relock"
    BY <1>0, <1>9 DEF Settled, Clocked, InTimer, Thr, t
  <2>5. ~ o.ended => "timer" \notin thr[h].flag[x]
    BY <1>0, <1>3, <1>9, <2>2 DEF Settled, Clocked, InTimer, Thr, t
  <2> QED BY <1>3, <1>6, <1>7, <2>1, <2>2, <2>3, <2>4, <2>5
<1>10. CASE ~ (~ o.timed \/ x \in Linked(t, "timer"))
  <2>1. /\ Dozes(x)' <=> Dozes(x)
        /\ ~ InTimer(x)' /\ ~ InTimer(x)
        /\ thr'[h].flag[x] = thr[h].flag[x] \ {"timer"}
    BY <1>1, <1>6, <1>10 DEF Dozes, InTimer, Thr, t
  <2>2. Back(x)' <=> Back(x)
    BY <2>1 DEF Back
  <2>3. Clocked(x)'
    BY <1>0, <1>2, <1>8, <2>1, <2>2 DEF Settled, Clocked, Thr
  <2>4. ~ o.ended => Back(x)
    BY <1>0, <1>3, <1>10, <2>1 DEF Settled, Clocked, Back
  <2> QED BY <1>6, <1>7, <2>1, <2>2, <2>3, <2>4
<1> QED BY <1>9, <1>10

\* The one at the head of waiters, when c signals.
LEMMA SignalledIs ==
    ASSUME CondInv, Promised, NEW c \in Callers, Signal(c)
    PROVE  LET w == Head(cwait)
           IN  /\ w \in Callers /\ w # c /\ Waits(w) /\ InWait(w)
               /\ ~ Signalled(w) /\ ~ UnderWay(w)
               /\ Object(w) = [who |-> w, timed |-> w \in timed, ended |-> FALSE]
               /\ step[c] = "none" /\ at[c] = "run" /\ Runs(c)
               /\ chosen[c] = NoObject /\ ~ Signalled(c)
               /\ cause'[w] = cause[w] \cup {"signal"}
               /\ \A d \in Callers \ {w} : cause'[d] = cause[d]
<1> DEFINE w == Head(cwait)
<1>1. /\ cwait # << >> /\ cwait \in Seq(Callers)
      /\ step[c] = "none" /\ at[c] = "run" /\ Runs(c) /\ cause[c] = {}
      /\ cause' = [cause EXCEPT ![w] = @ \cup {"signal"}]
  BY DEF Signal, At, CondInv, CondTypes, Booked, Object
<1>2. w \in Callers /\ w \in Range(cwait)
  BY <1>1, PopFrontIs
<1> HIDE DEF w
<1>3. Waits(w) /\ ~ Signalled(w)
  BY <1>2 DEF CondInv, Known
<1>4. InWait(w) /\ w # c
  BY <1>1, <1>3 DEF Waits, InWait
<1>5. ~ UnderWay(w)
  BY <1>2, <1>3, UnderWayKnown
<1>6. chosen[c] = NoObject
  BY <1>1 DEF Promised, Mailed
<1>7. /\ cause'[w] = cause[w] \cup {"signal"}
      /\ \A d \in Callers \ {w} : cause'[d] = cause[d]
  BY <1>1, <1>2 DEF CondInv, CondTypes
<1>8. ~ Signalled(c)
  BY <1>1 DEF Signalled
<1> QED BY <1>1, <1>2, <1>3, <1>4, <1>5, <1>6, <1>7, <1>8 DEF w, Object

\* A signal between fibers of one thread.
LEMMA PromisedSignalHere ==
    ASSUME CondInv, CondInv', Unharmed, Promised, NEW c \in Callers, Signal(c),
           {c, Head(cwait)} \subseteq Users, Host(c) = Host(Head(cwait))
    PROVE  Unharmed' /\ Promised'
<1>0. PICK w, o : w = Head(cwait) /\ o = Object(w)
  OBVIOUS
<1> DEFINE h == Host(c)
<1>1. /\ w \in Callers /\ w # c /\ Waits(w) /\ InWait(w)
      /\ ~ Signalled(w) /\ ~ UnderWay(w)
      /\ o = [who |-> w, timed |-> w \in timed, ended |-> FALSE]
      /\ step[c] = "none" /\ Runs(c)
      /\ cause'[w] = cause[w] \cup {"signal"}
      /\ \A d \in Callers \ {w} : cause'[d] = cause[d]
  BY <1>0, SignalledIs
<1>2. /\ o.who = w /\ (o.timed <=> w \in timed) /\ ~ o.ended
      /\ w \in Users /\ c \in Users /\ Host(w) = h /\ h \in Hosts /\ w \notin Plains
      /\ thr[h].running = c /\ Users \subseteq Callers
  <2>1. o.who = w /\ o.timed = (w \in timed) /\ o.ended = FALSE
    BY <1>1
  <2>2. w \in Users /\ c \in Users /\ Host(w) = Host(c)
    BY <1>0
  <2>3. w \notin Plains /\ Users \subseteq Callers /\ Host(c) \in Hosts
    BY <2>2, HostsAre
  <2>4. thr[Host(c)].running = c
    BY <1>1, <2>2, RunsIs DEF CondInv
  <2> QED BY <2>1, <2>2, <2>3, <2>4
<1>3. /\ Host_(h, WakeupWaiter(thr[h], o))
      /\ UNCHANGED << step, chosen, tbox, event, timed >>
      /\ UNCHANGED << mutexVars, box, callVars, crashed >>
  BY <1>0, <1>1, <1>2 DEF Signal, Object
<1>4. w \notin timed => ~ Back(w)
  BY <1>1, <1>2 DEF Promised, Settled, Due
<1> HIDE DEF h
<1>5. /\ Unharmed' /\ \A k \in Hosts : Listed(thr'[k], Returning(k))
      /\ \A f \in Users \ {w} : Steady(f)
      /\ Stands(w)' /\ Clocked(w)'
      /\ Back(w)' /\ "timer" \notin thr'[h].flag[w]
  BY <1>1, <1>2, <1>3, <1>4, WakeupEffect
<1>6. \A x : UnderWay(x)' <=> UnderWay(x)
  BY <1>3 DEF UnderWay
<1>7. Signalled(w)' /\ \A x \in Callers \ {w} : Signalled(x)' <=> Signalled(x)
  BY <1>1 DEF Signalled
<1>8. \A f \in Users : Settled(f)'
  <2>1. Due(w)'
    BY <1>1, <1>2, <1>5, <1>6, <1>7 DEF Due, Thr
  <2>2. ASSUME NEW f \in Users, f # w PROVE Settled(f)'
    BY <1>1, <1>2, <1>3, <1>5, <1>6, <2>2, SettledKept DEF Promised
  <2> QED BY <1>5, <2>1, <2>2 DEF Settled
<1>9. \A x \in timed' : InWait(x)'
  BY <1>3 DEF Promised, InWait
<1>10. Mailed'
  BY <1>3, <1>7, MailedKept DEF Promised, InWait
<1>11. Told'
  <2>1. \A p \in Plains : p \in Callers /\ p # w /\ (Waits(p)' <=> Waits(p))
    BY <1>2, <1>3, HostsAre DEF Waits
  <2> QED BY <1>3, <1>6, <1>7, <2>1 DEF Promised, Told
<1>12. AllListed'
  BY <1>3, <1>5, ListedNext
<1> QED BY <1>5, <1>8, <1>9, <1>10, <1>11, <1>12 DEF Promised

\* A signal to another thread: the object is in the hands of the one who sends.
LEMMA PromisedSignalAway ==
    ASSUME CondInv, CondInv', Unharmed, Promised, NEW c \in Callers, Signal(c),
           ~ ({c, Head(cwait)} \subseteq Users /\ Host(c) = Host(Head(cwait)))
    PROVE  Unharmed' /\ Promised'
<1>0. PICK w, o : w = Head(cwait) /\ o = Object(w)
  OBVIOUS
<1>1. /\ w \in Callers /\ w # c /\ Waits(w) /\ InWait(w)
      /\ ~ Signalled(w) /\ ~ UnderWay(w)
      /\ o = [who |-> w, timed |-> w \in timed, ended |-> FALSE]
      /\ step[c] = "none" /\ at[c] = "run" /\ Runs(c)
      /\ chosen[c] = NoObject /\ ~ Signalled(c)
      /\ cause'[w] = cause[w] \cup {"signal"}
      /\ \A d \in Callers \ {w} : cause'[d] = cause[d]
  BY <1>0, SignalledIs
<1>2. /\ o.who = w /\ (o.timed <=> w \in timed) /\ ~ o.ended
      /\ Users \subseteq Callers /\ Plains \subseteq Callers
  <2>1. o.who = w /\ o.timed = (w \in timed) /\ o.ended = FALSE
    BY <1>1
  <2>2. Users \subseteq Callers /\ Plains \subseteq Callers
    BY HostsAre
  <2> QED BY <2>1, <2>2
<1>3. /\ chosen' = [chosen EXCEPT ![c] = o] /\ To(c, "signal")
      /\ UNCHANGED << thr, mutexVars, box, callVars, crashed >>
      /\ UNCHANGED << timed, tbox, event >>
  BY <1>0, <1>1 DEF Signal, Object
<1>4. /\ chosen'[c] = o /\ \A d \in Callers \ {c} : chosen'[d] = chosen[d]
      /\ step'[c] = "signal" /\ \A d \in Callers \ {c} : step'[d] = step[d]
  BY <1>3 DEF To, CondInv, CondTypes
<1>5. /\ Unharmed' /\ \A h \in Hosts : Listed(thr'[h], Returning(h))
      /\ \A f \in Users : Steady(f)
  BY <1>3, CodeKept
<1>6. Signalled(w)' /\ \A x \in Callers \ {w} : Signalled(x)' <=> Signalled(x)
  BY <1>1 DEF Signalled
<1>7. \A x : Live(o, x) <=> x = w
  BY <1>2 DEF Live
<1>8. /\ UnderWay(w)'
      /\ \A x \in Callers \ {w} : UnderWay(x)' <=> UnderWay(x)
  <2>1. \A x \in Callers : ~ Live(chosen[c], x)
    BY <1>1, ObjectsAre
  <2>2. Live(chosen'[c], w)
    BY <1>4, <1>7
  <2>3. ASSUME NEW x \in Callers, x # w
        PROVE  \A d \in Callers : Live(chosen'[d], x) <=> Live(chosen[d], x)
    <3>1. ~ Live(chosen'[c], x)
      BY <1>4, <1>7, <2>3
    <3> QED BY <1>4, <2>1, <3>1
  <2>4. tbox' = tbox
    BY <1>3
  <2>5. UnderWay(w)'
    BY <2>2, UnderWayNext
  <2>6. ASSUME NEW x \in Callers, x # w PROVE UnderWay(x)' <=> UnderWay(x)
    BY <2>3, <2>4, <2>6, UnderWayIs, UnderWayNext
  <2> QED BY <2>5, <2>6
<1>9. /\ \A x \in Callers : InWait(x) => InWait(x)'
      /\ \A p \in Callers : Waits(p)' <=> Waits(p)
  BY <1>1, <1>4 DEF InWait, Waits
<1>10. \A f \in Users : Settled(f)'
  <2>1. ASSUME NEW f \in Users, f # w, f # c PROVE Settled(f)'
    BY <1>1, <1>2, <1>3, <1>4, <1>5, <1>8, <2>1, SettledKept DEF Promised
  <2>2. ASSUME c \in Users PROVE Settled(c)'
    <3>1. /\ thr[Host(c)].running = c /\ Settled(c) /\ at'[c] = "run"
          /\ thr' = thr
      BY <1>1, <1>3, <2>2, RunsIs DEF CondInv, Promised, callVars
    <3>2. ~ Back(c) /\ ~ Back(c)' /\ c \notin timed'
      BY <1>1, <1>3, <1>4 DEF Back, Promised, InWait
    <3>3. ~ InTimer(c)' /\ "timer" \notin thr'[Host(c)].flag[c]
      BY <1>1, <3>1, <3>2 DEF Settled, Clocked, InTimer, Thr
    <3>4. ~ Signalled(c)'
      BY <1>1, <1>6
    <3> QED BY <1>4, <3>1, <3>2, <3>3, <3>4 DEF Settled, Stands, Clocked, Due, Thr
  <2>3. ASSUME w \in Users PROVE Settled(w)'
    <3>1. Steady(w) /\ Settled(w) /\ step'[w] = step[w] /\ timed' = timed
      BY <1>1, <1>3, <1>4, <1>5, <2>3 DEF Promised
    <3>2. Back(w)' <=> Back(w)
      BY <3>1 DEF Back, Steady
    <3>3. Stands(w)'
      BY <3>1 DEF Settled, Stands, Steady, Thr
    <3>4. Clocked(w)'
      BY <3>1, <3>2 DEF Settled, Clocked, Steady, Thr
    <3>5. Due(w)'
      BY <1>1, <1>8, <3>1, <3>2 DEF Settled, Due, Steady, Thr
    <3> QED BY <3>3, <3>4, <3>5 DEF Settled
  <2> QED BY <2>1, <2>2, <2>3
<1>11. \A x \in timed' : InWait(x)'
  BY <1>3, <1>9 DEF Promised, CondInv, CondTypes
<1>12. Mailed'
  <2>1. ASSUME NEW CONSTANT e, Proper(e), e.who \in Callers PROVE Proper(e)'
    BY <1>3, <1>6, <1>9, <2>1, ProperKept
  <2>2. ASSUME NEW d \in Callers, chosen'[d] # NoObject
        PROVE  step'[d] = "signal" /\ Proper(chosen[d])'
    <3>1. CASE d = c
      <4>1. Proper(o)'
        BY <1>2, <1>3, <1>6, <1>9, <1>1 DEF Proper
      <4> QED BY <1>4, <3>1, <4>1 DEF Proper
    <3>2. CASE d # c
      <4>1. /\ chosen'[d] = chosen[d] /\ step[d] = "signal" /\ Proper(chosen[d])
            /\ chosen[d].who \in Callers
        BY <1>4, <2>2, <3>2, ObjectsAre DEF Promised, Mailed
      <4>2. PICK e : e = chosen[d]
        OBVIOUS
      <4>3. Proper(e)'
        BY <2>1, <4>1, <4>2
      <4> QED BY <1>4, <3>2, <4>1, <4>2, <4>3 DEF Proper
    <3> QED BY <3>1, <3>2
  <2>3. ASSUME NEW h \in Hosts, NEW CONSTANT e, e \in Range(tbox'[h])
        PROVE  Host(e.who) = h /\ Proper(e)'
    <3>1. Host(e.who) = h /\ Proper(e) /\ e.who \in Callers
      BY <1>2, <1>3, <2>3, ObjectsAre DEF Promised, Mailed
    <3> QED BY <2>1, <3>1
  <2>4. ASSUME NEW x \in Callers PROVE OnlyOne(x)'
    <3>1. CASE x = w
      <4>1. /\ \A d \in Callers : ~ Live(chosen[d], w)
            /\ \A h \in Hosts : \A e \in Range(tbox[h]) : ~ Live(e, w)
        BY <1>1, UnderWayIs
      <4>2. \A h \in Hosts : \A i \in DOMAIN tbox[h] : ~ Live(tbox[h][i], w)
        BY <4>1 DEF Range
      <4> QED BY <1>3, <1>4, <3>1, <4>1, <4>2 DEF OnlyOne
    <3>2. CASE x # w
      <4>1. \A d \in Callers : Live(chosen'[d], x) => Live(chosen[d], x)
        BY <1>4, <1>7, <3>2
      <4> QED BY <1>3, <4>1 DEF Promised, Mailed, OnlyOne
    <3> QED BY <3>1, <3>2
  <2> QED BY <2>2, <2>3, <2>4 DEF Mailed
<1>13. Told'
  BY <1>2, <1>3, <1>6, <1>8, <1>9 DEF Promised, Told
<1>14. AllListed'
  BY <1>2, <1>4, <1>5, ListedNext
<1> QED BY <1>5, <1>10, <1>11, <1>12, <1>13, <1>14 DEF Promised

\* The message of a signal: it is for a fiber, and the last one in the mailbox.
LEMMA PromisedSendsMessage ==
    ASSUME CondInv, CondInv', Unharmed, Promised, NEW c \in Callers,
           SendSignal(c), chosen[c].who \in Users
    PROVE  Unharmed' /\ Promised'
<1>0. PICK o, k, q : o = chosen[c] /\ k = Host(o.who) /\ q = tbox[k]
  OBVIOUS
<1>1. /\ o.who \in Users /\ o.who \in Callers /\ k \in Hosts /\ o # NoObject
      /\ None \notin Callers
  BY <1>0, HostsAre DEF NoObject
<1>2. /\ o \in Objects /\ step[c] = "signal" /\ Proper(o)
      /\ ~ Signalled(c) /\ ~ InWait(c) /\ c \notin timed
  <2>1. step[c] = "signal"
    BY DEF SendSignal, At
  <2>2. cause[c] = {} /\ ~ InWait(c)
    BY <2>1 DEF CondInv, Booked, InWait
  <2> QED BY <1>0, <1>1, <2>1, <2>2, ObjectsAre
          DEF Promised, Mailed, Signalled
<1>3. /\ UNCHANGED << thr, mutexVars, box, callVars, crashed >>
      /\ UNCHANGED << timed, cause, event >>
      /\ tbox' = [tbox EXCEPT ![k] = Append(@, o)]
      /\ chosen' = [chosen EXCEPT ![c] = NoObject] /\ To(c, "none")
  BY <1>0, <1>1 DEF SendSignal, codeVars
<1>4. /\ chosen'[c] = NoObject /\ \A d \in Callers \ {c} : chosen'[d] = chosen[d]
      /\ step'[c] = "none" /\ \A d \in Callers \ {c} : step'[d] = step[d]
  BY <1>3 DEF To, CondInv, CondTypes
<1>5. /\ tbox'[k] = Append(q, o) /\ q = tbox[k]
      /\ \A h \in Hosts \ {k} : tbox'[h] = tbox[h]
  BY <1>0, <1>1, <1>3 DEF CondInv, CondTypes
<1>6. /\ Len(q) \in Nat /\ DOMAIN q = 1..Len(q)
      /\ DOMAIN tbox'[k] = 1..(Len(q) + 1)
      /\ tbox'[k][Len(q) + 1] = o /\ \A i \in 1..Len(q) : tbox'[k][i] = q[i]
      /\ Range(q) = {q[i] : i \in 1..Len(q)}
      /\ Range(tbox'[k]) = Range(q) \cup {o}
  <2> DEFINE u == Append(q, o)
  <2>1. q \in Seq(Objects)
    BY <1>0, <1>1, ObjectsAre
  <2>2. /\ u \in Seq(Objects) /\ Len(u) = Len(q) + 1 /\ u[Len(q) + 1] = o
        /\ \A i \in 1..Len(q) : u[i] = q[i]
    BY <1>2, <2>1
  <2>3. u = tbox'[k]
    BY <1>5
  <2> HIDE DEF u
  <2>4. /\ Len(q) \in Nat /\ DOMAIN u = 1..(Len(q) + 1) /\ DOMAIN q = 1..Len(q)
        /\ Range(q) = {q[i] : i \in 1..Len(q)}
        /\ Range(u) = {u[i] : i \in 1..(Len(q) + 1)}
    BY <2>1, <2>2, RangeIs
  <2>5. Range(u) = Range(q) \cup {o}
    <3>1. \A i \in 1..(Len(q) + 1) : i \in 1..Len(q) \/ i = Len(q) + 1
      BY <2>4
    <3>2. 1..Len(q) \subseteq 1..(Len(q) + 1) /\ Len(q) + 1 \in 1..(Len(q) + 1)
      BY <2>4
    <3> QED BY <2>2, <2>4, <3>1, <3>2
  <2> QED BY <2>2, <2>3, <2>4, <2>5
<1>7. \A x \in Callers : ~ Live(NoObject, x)
  BY ObjectsAre
<1>8. ASSUME NEW x \in Callers
      PROVE  UnderWay(x)' <=> UnderWay(x)
  <2>1. (\E d \in Callers : Live(chosen[d], x)) <=>
           Live(o, x) \/ \E d \in Callers : Live(chosen'[d], x)
    <3>1. ~ Live(chosen'[c], x)
      BY <1>4, <1>7
    <3> QED BY <1>0, <1>4, <3>1
  <2>2. (\E h \in Hosts : \E e \in Range(tbox'[h]) : Live(e, x)) <=>
           Live(o, x) \/ \E h \in Hosts : \E e \in Range(tbox[h]) : Live(e, x)
    BY <1>1, <1>5, <1>6
  <2> QED BY <2>1, <2>2, UnderWayIs, UnderWayNext
<1>9. /\ Unharmed' /\ \A h \in Hosts : Listed(thr'[h], Returning(h))
      /\ \A f \in Users : Steady(f)
  BY <1>3, CodeKept
<1>10. /\ \A x \in Callers : (InWait(x)' <=> InWait(x))
       /\ \A x : Signalled(x)' <=> Signalled(x)
       /\ \A x \in Callers : (Waits(x)' <=> Waits(x))
  BY <1>2, <1>3, <1>4 DEF InWait, Signalled, Waits
<1>11. \A f \in Users : Settled(f)'
  <2>1. ASSUME NEW f \in Users, f # c PROVE Settled(f)'
    BY <1>3, <1>4, <1>8, <1>9, <2>1, SettledKept, HostsAre DEF Promised
  <2>2. ASSUME c \in Users PROVE Settled(c)'
    <3>1. Settled(c) /\ thr' = thr
      BY <1>3, <2>2 DEF Promised
    <3>2. ~ Back(c) /\ ~ Back(c)'
      BY <1>2, <1>4 DEF Back
    <3>3. ~ InTimer(c)' /\ "timer" \notin thr'[Host(c)].flag[c]
      BY <1>2, <3>1, <3>2 DEF Settled, Clocked, InTimer, Thr
    <3> QED BY <1>2, <1>4, <1>10, <3>1, <3>2, <3>3, <1>3
            DEF Settled, Stands, Clocked, Due, Thr
  <2> QED BY <2>1, <2>2
<1>12. \A x \in timed' : InWait(x)'
  BY <1>3, <1>10 DEF Promised, CondInv, CondTypes
<1>13. Mailed'
  <2>1. ASSUME NEW CONSTANT e, Proper(e), e.who \in Callers PROVE Proper(e)'
    BY <1>3, <1>10, <2>1, ProperKept
  <2>2. ASSUME NEW d \in Callers, chosen'[d] # NoObject
        PROVE  step'[d] = "signal" /\ Proper(chosen[d])' /\ d # c
               /\ chosen'[d] = chosen[d]
    <3>1. d # c
      BY <1>4, <2>2
    <3>2. /\ chosen'[d] = chosen[d] /\ step[d] = "signal" /\ Proper(chosen[d])
          /\ chosen[d].who \in Callers
      BY <1>4, <2>2, <3>1, ObjectsAre DEF Promised, Mailed
    <3>3. PICK e : e = chosen[d]
      OBVIOUS
    <3>4. Proper(e)'
      BY <2>1, <3>2, <3>3
    <3> QED BY <1>4, <3>1, <3>2, <3>3, <3>4 DEF Proper
  <2>3. ASSUME NEW h \in Hosts, NEW CONSTANT e, e \in Range(tbox'[h])
        PROVE  Host(e.who) = h /\ Proper(e)'
    <3>1. CASE e \in Range(tbox[h])
      <4>1. Host(e.who) = h /\ Proper(e) /\ e.who \in Callers
        BY <3>1, ObjectsAre, HostsAre DEF Promised, Mailed
      <4> QED BY <2>1, <4>1
    <3>2. CASE e \notin Range(tbox[h])
      <4>1. h = k /\ e = o
        BY <1>5, <1>6, <2>3, <3>2
      <4> QED BY <1>0, <1>1, <1>2, <2>1, <4>1
    <3> QED BY <3>1, <3>2
  <2>4. ASSUME NEW x \in Callers PROVE OnlyOne(x)'
    <3>0. /\ OnlyOne(x)
          /\ \A d \in Callers : Live(chosen'[d], x) =>
                                   d # c /\ Live(chosen[d], x)
      BY <1>4, <1>7 DEF Promised, Mailed
    <3>1. \A d, e \in Callers : Live(chosen'[d], x) /\ Live(chosen'[e], x) => d = e
      BY <3>0 DEF OnlyOne
    <3>2. ASSUME NEW d \in Callers, NEW h \in Hosts, Live(chosen'[d], x)
          PROVE  \A e \in Range(tbox'[h]) : ~ Live(e, x)
      <4>1. d # c /\ Live(chosen[d], x)
        BY <3>0, <3>2
      <4>2. ~ Live(o, x)
        BY <1>0, <3>0, <4>1 DEF OnlyOne
      <4>3. \A e \in Range(tbox[h]) : ~ Live(e, x)
        BY <3>0, <4>1 DEF OnlyOne
      <4> QED BY <1>5, <1>6, <4>2, <4>3
    <3>3. ASSUME NEW h \in Hosts, NEW i \in DOMAIN tbox'[h],
                 NEW j \in DOMAIN tbox'[h],
                 Live(tbox'[h][i], x), Live(tbox'[h][j], x)
          PROVE  i = j
      <4>1. CASE h # k
        BY <1>5, <3>0, <3>3, <4>1 DEF OnlyOne
      <4>2. CASE h = k
        <5>1. ~ Live(o, x) \/ \A n \in 1..Len(q) : ~ Live(q[n], x)
          <6>1. ASSUME Live(o, x) PROVE \A e \in Range(q) : ~ Live(e, x)
            BY <1>0, <1>1, <3>0, <6>1 DEF OnlyOne
          <6> QED BY <1>6, <6>1
        <5>2. \A n \in 1..Len(q), p \in 1..Len(q) :
                 Live(q[n], x) /\ Live(q[p], x) => n = p
          BY <1>0, <1>1, <1>6, <3>0 DEF OnlyOne
        <5>3. i \in 1..Len(q) \/ i = Len(q) + 1
          BY <1>6, <3>3, <4>2
        <5>4. j \in 1..Len(q) \/ j = Len(q) + 1
          BY <1>6, <3>3, <4>2
        <5> QED BY <1>6, <3>3, <4>2, <5>1, <5>2, <5>3, <5>4
      <4> QED BY <4>1, <4>2
    <3> QED BY <3>1, <3>2, <3>3 DEF OnlyOne
  <2>5. \A d \in Callers : chosen'[d] # NoObject =>
                               step'[d] = "signal" /\ Proper(chosen[d])'
                               /\ chosen'[d] = chosen[d]
    BY <2>2
  <2>6. \A d \in Callers : chosen'[d] # NoObject =>
                               step'[d] = "signal" /\ Proper(chosen[d])'
    BY <2>5
  <2> QED BY <2>3, <2>4, <2>6 DEF Mailed
<1>14. Told'
  BY <1>3, <1>8, <1>10, HostsAre DEF Promised, Told
<1>15. AllListed'
  BY <1>4, <1>9, ListedNext, HostsAre
<1> QED BY <1>9, <1>11, <1>12, <1>13, <1>14, <1>15 DEF Promised

\* The event of a plain thread is written, unless its wait has ended.
LEMMA PromisedWritesEvent ==
    ASSUME CondInv, CondInv', Unharmed, Promised, NEW c \in Callers,
           SendSignal(c), chosen[c].who \notin Users
    PROVE  Unharmed' /\ Promised'
<1>0. PICK o : o = chosen[c]
  OBVIOUS
<1>1. /\ step[c] = "signal" /\ ~ Signalled(c) /\ ~ InWait(c) /\ c \notin timed
      /\ None \notin Callers /\ Users \subseteq Callers /\ Plains \subseteq Callers
  <2>1. step[c] = "signal"
    BY DEF SendSignal, At
  <2>2. cause[c] = {} /\ ~ InWait(c)
    BY <2>1 DEF CondInv, Booked, InWait
  <2> QED BY <2>1, <2>2, HostsAre DEF Promised, Signalled
<1>2. /\ UNCHANGED << thr, mutexVars, box, callVars, crashed >>
      /\ UNCHANGED << timed, cause, tbox >>
      /\ event' = IF o.ended THEN event ELSE event \cup {o.who}
      /\ chosen' = [chosen EXCEPT ![c] = NoObject] /\ To(c, "none")
  BY <1>0 DEF SendSignal, codeVars
<1>3. /\ chosen'[c] = NoObject /\ \A d \in Callers \ {c} : chosen'[d] = chosen[d]
      /\ step'[c] = "none" /\ \A d \in Callers \ {c} : step'[d] = step[d]
  BY <1>2 DEF To, CondInv, CondTypes
<1>4. \A x \in Callers : ~ Live(NoObject, x)
  BY ObjectsAre
<1>5. ASSUME NEW x \in Callers
      PROVE  /\ \A d \in Callers : Live(chosen'[d], x) =>
                                      d # c /\ Live(chosen[d], x)
             /\ UnderWay(x)' => UnderWay(x)
             /\ UnderWay(x) => UnderWay(x)' \/ Live(o, x)
  <2>1. \A d \in Callers : Live(chosen'[d], x) => d # c /\ Live(chosen[d], x)
    BY <1>3, <1>4
  <2>2. \A d \in Callers : Live(chosen[d], x) => Live(o, x) \/ Live(chosen'[d], x)
    BY <1>0, <1>3
  <2>3. tbox' = tbox
    BY <1>2
  <2>4. UnderWay(x)' => UnderWay(x)
    BY <2>1, <2>3, UnderWayIs, UnderWayNext
  <2>5. UnderWay(x) => UnderWay(x)' \/ Live(o, x)
    BY <2>2, <2>3, UnderWayIs, UnderWayNext
  <2> QED BY <2>1, <2>4, <2>5
<1>6. \A f \in Users : UnderWay(f)' <=> UnderWay(f)
  BY <1>0, <1>1, <1>5 DEF Live
<1>7. /\ Unharmed' /\ \A h \in Hosts : Listed(thr'[h], Returning(h))
      /\ \A f \in Users : Steady(f)
  BY <1>2, CodeKept
<1>8. /\ \A x \in Callers : (InWait(x)' <=> InWait(x))
      /\ \A x : Signalled(x)' <=> Signalled(x)
      /\ \A x \in Callers : (Waits(x)' <=> Waits(x))
  BY <1>1, <1>2, <1>3 DEF InWait, Signalled, Waits
<1>9. \A f \in Users : Settled(f)'
  <2>1. ASSUME NEW f \in Users, f # c PROVE Settled(f)'
    BY <1>1, <1>2, <1>3, <1>6, <1>7, <2>1, SettledKept DEF Promised
  <2>2. ASSUME c \in Users PROVE Settled(c)'
    <3>1. Settled(c) /\ thr' = thr
      BY <1>2, <2>2 DEF Promised
    <3>2. ~ Back(c) /\ ~ Back(c)'
      BY <1>1, <1>3 DEF Back
    <3>3. ~ InTimer(c)' /\ "timer" \notin thr'[Host(c)].flag[c]
      BY <1>1, <3>1, <3>2 DEF Settled, Clocked, InTimer, Thr
    <3> QED BY <1>1, <1>2, <1>3, <1>8, <3>1, <3>2, <3>3
            DEF Settled, Stands, Clocked, Due, Thr
  <2> QED BY <2>1, <2>2
<1>10. \A x \in timed' : InWait(x)'
  BY <1>2, <1>8 DEF Promised, CondInv, CondTypes
<1>11. Mailed'
  <2>1. ASSUME NEW CONSTANT e, Proper(e), e.who \in Callers PROVE Proper(e)'
    BY <1>2, <1>8, <2>1, ProperKept
  <2>2. ASSUME NEW d \in Callers, chosen'[d] # NoObject
        PROVE  step'[d] = "signal" /\ Proper(chosen[d])'
    <3>1. d # c
      BY <1>3, <2>2
    <3>2. /\ chosen'[d] = chosen[d] /\ step[d] = "signal" /\ Proper(chosen[d])
          /\ chosen[d].who \in Callers
      BY <1>3, <2>2, <3>1, ObjectsAre DEF Promised, Mailed
    <3>3. PICK e : e = chosen[d]
      OBVIOUS
    <3>4. Proper(e)'
      BY <2>1, <3>2, <3>3
    <3> QED BY <1>3, <3>1, <3>2, <3>3, <3>4 DEF Proper
  <2>3. ASSUME NEW h \in Hosts, NEW CONSTANT e, e \in Range(tbox'[h])
        PROVE  Host(e.who) = h /\ Proper(e)'
    <3>1. Host(e.who) = h /\ Proper(e) /\ e.who \in Callers
      BY <1>1, <1>2, <2>3, ObjectsAre DEF Promised, Mailed
    <3> QED BY <2>1, <3>1
  <2>4. ASSUME NEW x \in Callers PROVE OnlyOne(x)'
    <3>1. OnlyOne(x) /\ tbox' = tbox
      BY <1>2 DEF Promised, Mailed
    <3>2. \A d \in Callers : Live(chosen'[d], x) => Live(chosen[d], x)
      BY <1>5
    <3> QED BY <3>1, <3>2 DEF OnlyOne
  <2> QED BY <2>2, <2>3, <2>4 DEF Mailed
<1>12. Told'
  <2>1. \A p \in Plains : UnderWay(p) => UnderWay(p)' \/ p \in event'
    BY <1>1, <1>2, <1>5 DEF Live
  <2>2. event \subseteq event'
    BY <1>2
  <2> QED BY <1>1, <1>8, <2>1, <2>2 DEF Promised, Told
<1>13. AllListed'
  BY <1>1, <1>3, <1>7, ListedNext
<1> QED BY <1>7, <1>9, <1>10, <1>11, <1>12, <1>13 DEF Promised

\* The fiber of the timer reads a message, and wakes the one it is for.
LEMMA PromisedTimerReads ==
    ASSUME CondInv, CondInv', Unharmed, Promised, NEW h \in Hosts, TimerReads(h)
    PROVE  Unharmed' /\ Promised'
<1>0. PICK o, x, q : o = Head(tbox[h]) /\ x = o.who /\ q = tbox[h]
  OBVIOUS
<1>1. /\ Host_(h, WakeupWaiter(thr[h], o))
      /\ tbox' = [tbox EXCEPT ![h] = Tail(@)]
      /\ cause' = IF o.ended /\ Waits(x)
                  THEN [cause EXCEPT ![x] = @ \cup {"late"}] ELSE cause
      /\ UNCHANGED << mutexVars, box, callVars, crashed >>
      /\ UNCHANGED << step, timed, chosen, event >>
      /\ thr[h].running = TimerFb(h) /\ q # << >>
  BY <1>0 DEF TimerReads
<1>2. /\ tbox'[h] = Tail(q) /\ tbox[h] = q
      /\ \A k \in Hosts \ {h} : tbox'[k] = tbox[k]
  BY <1>0, <1>1 DEF CondInv, CondTypes
<1>3. /\ Len(q) \in Nat /\ Len(q) > 0 /\ o = q[1]
      /\ DOMAIN q = 1..Len(q) /\ Range(q) = {q[i] : i \in 1..Len(q)}
      /\ DOMAIN tbox'[h] = 1..(Len(q) - 1)
      /\ \A i \in 1..(Len(q) - 1) : tbox'[h][i] = q[i + 1]
      /\ Range(tbox'[h]) = {tbox'[h][i] : i \in 1..(Len(q) - 1)}
  <2> DEFINE u == Tail(q)
  <2>1. q \in Seq(Objects)
    BY <1>0, ObjectsAre
  <2>2. /\ u \in Seq(Objects) /\ Len(u) = Len(q) - 1 /\ Len(q) > 0
        /\ Len(q) \in Nat /\ Head(q) = q[1]
        /\ \A i \in 1..Len(u) : u[i] = q[i + 1]
    BY <1>1, <2>1
  <2>3. u = tbox'[h]
    BY <1>2
  <2> HIDE DEF u
  <2>4. /\ DOMAIN u = 1..Len(u) /\ DOMAIN q = 1..Len(q)
        /\ Range(q) = {q[i] : i \in 1..Len(q)}
        /\ Range(u) = {u[i] : i \in 1..Len(u)}
    BY <2>1, <2>2, RangeIs
  <2> QED BY <1>0, <2>2, <2>3, <2>4
<1>4. /\ o \in Range(q) /\ Range(tbox'[h]) \subseteq Range(q)
      /\ Range(q) \subseteq Range(tbox'[h]) \cup {o}
  <2>1. 1 \in 1..Len(q) /\ \A i \in 1..(Len(q) - 1) : i + 1 \in 1..Len(q)
    BY <1>3
  <2>2. \A i \in 1..Len(q) :
           i = 1 \/ (i - 1 \in 1..(Len(q) - 1) /\ tbox'[h][i - 1] = q[i])
    <3> SUFFICES ASSUME NEW i \in 1..Len(q), i # 1
                 PROVE  i - 1 \in 1..(Len(q) - 1) /\ tbox'[h][i - 1] = q[i]
      OBVIOUS
    <3>1. i - 1 \in 1..(Len(q) - 1) /\ (i - 1) + 1 = i
      BY <1>3
    <3>2. tbox'[h][i - 1] = q[(i - 1) + 1]
      BY <1>3, <3>1
    <3> QED BY <3>1, <3>2
  <2> QED BY <1>3, <2>1, <2>2
<1>5. /\ x \in Users /\ x \in Callers /\ Host(x) = h /\ Proper(o)
      /\ thr[h].running # x /\ Settled(x) /\ Users \subseteq Callers
      /\ Plains \subseteq Callers /\ x \notin Plains
  <2>1. o \in Range(tbox[h])
    BY <1>0, <1>4
  <2>2. x \in Users /\ Host(x) = h /\ Proper(o)
    BY <1>0, <2>1, ObjectsAre DEF Promised, Mailed
  <2> QED BY <1>1, <2>2, TimerFbIs, HostsAre DEF Promised
<1>6. o.ended => o.timed
  BY <1>0, <1>5 DEF Proper
<1>7. ~ o.ended => /\ UnderWay(x) /\ InWait(x) /\ Signalled(x)
                   /\ (o.timed <=> x \in timed)
                   /\ x \notin timed => ~ Back(x)
  <2> SUFFICES ASSUME ~ o.ended
               PROVE  /\ UnderWay(x) /\ InWait(x) /\ Signalled(x)
                      /\ (o.timed <=> x \in timed)
                      /\ x \notin timed => ~ Back(x)
    OBVIOUS
  <2>1. UnderWay(x)
    BY <1>0, <1>4, UnderWayIs DEF Live
  <2>2. InWait(x) /\ Signalled(x) /\ (o.timed <=> x \in timed)
    BY <1>0, <1>5 DEF Proper
  <2> QED BY <1>5, <2>1, <2>2 DEF Settled, Due
<1>8. /\ Unharmed' /\ \A k \in Hosts : Listed(thr'[k], Returning(k))
      /\ \A f \in Users \ {x} : Steady(f)
      /\ Stands(x)' /\ Clocked(x)'
      /\ Back(x) => Back(x)'
      /\ o.ended /\ x \notin timed /\ Back(x)' => Back(x)
      /\ thr'[h].flag[x] \subseteq thr[h].flag[x]
      /\ ~ o.ended => Back(x)' /\ "timer" \notin thr'[h].flag[x]
  <2>1. UNCHANGED << mutexVars, box, callVars, crashed, timed >>
        /\ step'[x] = step[x]
    BY <1>1
  <2>2. /\ o.who = x /\ Host(x) = h /\ thr[h].running # x /\ x \in Users
        /\ Host_(h, WakeupWaiter(thr[h], o))
    BY <1>0, <1>1, <1>5
  <2>3. ~ o.ended => /\ InWait(x) /\ (o.timed <=> x \in timed)
                     /\ x \notin timed => ~ Back(x)
    BY <1>7
  <2> QED BY <1>6, <2>1, <2>2, <2>3, WakeupEffect
<1>9. ASSUME NEW y \in Callers
      PROVE  /\ UnderWay(y)' => UnderWay(y)
             /\ UnderWay(y) => UnderWay(y)' \/ Live(o, y)
  <2>1. chosen' = chosen
    BY <1>1
  <2>2. (\E k \in Hosts : \E e \in Range(tbox'[k]) : Live(e, y)) =>
           \E k \in Hosts : \E e \in Range(tbox[k]) : Live(e, y)
    BY <1>2, <1>4
  <2>3. (\E k \in Hosts : \E e \in Range(tbox[k]) : Live(e, y)) =>
           Live(o, y) \/ \E k \in Hosts : \E e \in Range(tbox'[k]) : Live(e, y)
    BY <1>2, <1>4
  <2> QED BY <2>1, <2>2, <2>3, UnderWayIs, UnderWayNext
<1>10. o.ended \/ ~ UnderWay(x)'
  <2> SUFFICES ASSUME ~ o.ended PROVE ~ UnderWay(x)'
    OBVIOUS
  <2>1. Live(o, x) /\ OnlyOne(x)
    BY <1>0, <1>5 DEF Live, Promised, Mailed
  <2>2. \A d \in Callers : ~ Live(chosen'[d], x)
    BY <1>0, <1>1, <1>4, <2>1 DEF OnlyOne
  <2>3. \A k \in Hosts \ {h} : \A e \in Range(tbox'[k]) : ~ Live(e, x)
    <3> SUFFICES ASSUME NEW k \in Hosts, k # h, NEW e \in Range(tbox'[k]), Live(e, x)
                 PROVE  FALSE
      OBVIOUS
    <3>1. e.who = x /\ e \in Range(tbox[k])
      BY <1>2 DEF Live
    <3>2. Host(x) = k
      BY <3>1 DEF Promised, Mailed
    <3> QED BY <1>5, <3>2
  <2>4. \A e \in Range(tbox'[h]) : ~ Live(e, x)
    <3> SUFFICES ASSUME NEW i \in 1..(Len(q) - 1) PROVE ~ Live(tbox'[h][i], x)
      BY <1>3
    <3>1. /\ i + 1 \in 1..Len(q) /\ 1 \in 1..Len(q) /\ i + 1 # 1
          /\ tbox'[h][i] = q[i + 1]
      BY <1>3
    <3>2. \A m \in 1..Len(q), n \in 1..Len(q) :
             Live(q[m], x) /\ Live(q[n], x) => m = n
      BY <1>2, <1>3, <2>1 DEF OnlyOne
    <3> QED BY <1>3, <2>1, <3>1, <3>2
  <2> QED BY <2>2, <2>3, <2>4, UnderWayNext
<1>11. /\ \A y \in Callers \ {x} : UnderWay(y)' <=> UnderWay(y)
       /\ o.ended => \A y \in Callers : UnderWay(y)' <=> UnderWay(y)
  BY <1>0, <1>9 DEF Live
<1>12. /\ \A y \in Callers : Signalled(y)' <=> Signalled(y)
       /\ \A y \in Callers \ {x} : cause'[y] = cause[y]
       /\ o.ended /\ Waits(x) => "late" \in cause'[x]
  <2>1. cause \in [Callers -> SUBSET {"signal", "late"}]
    BY DEF CondInv, CondTypes
  <2>2. "late" # "signal"
    OBVIOUS
  <2> QED BY <1>1, <1>5, <2>1, <2>2 DEF Signalled
<1>13. \A y \in Callers : (InWait(y)' <=> InWait(y)) /\ (Waits(y)' <=> Waits(y))
  BY <1>1 DEF InWait, Waits
<1>14. Due(x)'
  <2>1. x \notin timed' /\ Back(x)' => Signalled(x)' /\ ~ UnderWay(x)'
    BY <1>1, <1>5, <1>7, <1>8, <1>10, <1>11, <1>12 DEF Settled, Due
  <2>2. x \in timed' /\ Back(x)' => cause'[x] # {}
    <3>1. Back(x)' => Waits(x)
      BY <1>1, <1>5 DEF Back, Waits
    <3>2. ~ o.ended => "signal" \in cause'[x]
      BY <1>5, <1>7, <1>12 DEF Signalled
    <3> QED BY <1>12, <3>1, <3>2
  <2>3. Signalled(x)' /\ ~ UnderWay(x)' => Back(x)' /\ "timer" \notin thr'[h].flag[x]
    BY <1>5, <1>8, <1>11, <1>12 DEF Settled, Due, Thr
  <2> QED BY <1>5, <2>1, <2>2, <2>3 DEF Due, Thr
<1>15. \A f \in Users : Settled(f)'
  <2>1. ASSUME NEW f \in Users, f # x PROVE Settled(f)'
    BY <1>1, <1>5, <1>8, <1>11, <1>12, <2>1, SettledKept DEF Promised
  <2> QED BY <1>8, <1>14, <2>1 DEF Settled
<1>16. \A y \in timed' : InWait(y)'
  BY <1>1, <1>13 DEF Promised, CondInv, CondTypes
<1>17. Mailed'
  <2>1. ASSUME NEW CONSTANT e, Proper(e), e.who \in Callers PROVE Proper(e)'
    BY <1>1, <1>12, <1>13, <2>1, ProperKept
  <2>2. ASSUME NEW d \in Callers, chosen[d] # NoObject
        PROVE  step'[d] = "signal" /\ Proper(chosen[d])'
    <3>1. step[d] = "signal" /\ Proper(chosen[d]) /\ chosen[d].who \in Callers
      BY <2>2, ObjectsAre DEF Promised, Mailed
    <3>2. PICK e : e = chosen[d]
      OBVIOUS
    <3>3. Proper(e)'
      BY <2>1, <3>1, <3>2
    <3> QED BY <1>1, <3>1, <3>2, <3>3 DEF Proper
  <2>3. ASSUME NEW k \in Hosts, NEW CONSTANT e, e \in Range(tbox'[k])
        PROVE  Host(e.who) = k /\ Proper(e)'
    <3>1. e \in Range(tbox[k])
      BY <1>2, <1>4, <2>3
    <3>2. Host(e.who) = k /\ Proper(e) /\ e.who \in Callers
      BY <1>5, <3>1, ObjectsAre DEF Promised, Mailed
    <3> QED BY <2>1, <3>2
  <2>4. ASSUME NEW y \in Callers PROVE OnlyOne(y)'
    <3>1. OnlyOne(y) /\ chosen' = chosen
      BY <1>1 DEF Promised, Mailed
    <3>2. \A k \in Hosts : Range(tbox'[k]) \subseteq Range(tbox[k])
      BY <1>2, <1>4
    <3>3. ASSUME NEW k \in Hosts, NEW i \in DOMAIN tbox'[k],
                 NEW j \in DOMAIN tbox'[k],
                 Live(tbox'[k][i], y), Live(tbox'[k][j], y)
          PROVE  i = j
      <4>1. CASE k # h
        BY <1>2, <3>1, <3>3, <4>1 DEF OnlyOne
      <4>2. CASE k = h
        <5>1. /\ i \in 1..(Len(q) - 1) /\ j \in 1..(Len(q) - 1)
              /\ i + 1 \in 1..Len(q) /\ j + 1 \in 1..Len(q)
              /\ Live(q[i + 1], y) /\ Live(q[j + 1], y)
          BY <1>3, <3>3, <4>2
        <5>2. \A m \in 1..Len(q), n \in 1..Len(q) :
                 Live(q[m], y) /\ Live(q[n], y) => m = n
          BY <1>2, <1>3, <3>1 DEF OnlyOne
        <5>3. i + 1 = j + 1
          BY <5>1, <5>2
        <5> QED BY <5>1, <5>3
      <4> QED BY <4>1, <4>2
    <3> QED BY <3>1, <3>2, <3>3 DEF OnlyOne
  <2>5. \A d \in Callers : chosen[d] # NoObject =>
                               step'[d] = "signal" /\ Proper(chosen[d])'
    BY <2>2
  <2> QED BY <1>1, <2>3, <2>4, <2>5 DEF Mailed
<1>18. Told'
  BY <1>1, <1>5, <1>11, <1>12, <1>13 DEF Promised, Told
<1>19. AllListed'
  BY <1>1, <1>8, ListedNext
<1> QED BY <1>8, <1>15, <1>16, <1>17, <1>18, <1>19 DEF Promised

-----------------------------------------------------------------------------
(* The condition: every step, and what follows *)

LEMMA CondSafeInit == CondInit => CondSafe
<1> SUFFICES ASSUME CondInit PROVE CondSafe
  OBVIOUS
<1>1. CondInv /\ Init
  BY CondInitLemma DEF CondInit
<1>2. Unharmed
  BY <1>1, UnharmedInit
<1>3. /\ timed = {}
      /\ \A c \in Callers : /\ step[c] = "none" /\ chosen[c] = NoObject
                            /\ ~ Signalled(c)
      /\ \A h \in Hosts : tbox[h] = << >>
  BY DEF CondInit, Signalled
<1>4. ASSUME NEW f \in Users PROVE Settled(f)
  <2>1. /\ step[f] = "none" /\ ~ Signalled(f) /\ f \notin timed
        /\ Host(f) \in Hosts /\ f \in Fibers
    BY <1>3, HostsAre
  <2>2. ~ InTimer(f) /\ Thr(f).flag[f] = {} /\ ~ Back(f)
    BY <1>1, <2>1, InitThreads DEF InTimer, Thr, Back
  <2> QED BY <2>1, <2>2 DEF Settled, Stands, Clocked, Due
<1>5. Mailed
  <2>1. \A x \in Callers : ~ Live(NoObject, x)
    BY <1>1, ObjectsAre
  <2>2. Range(<< >>) = {}
    BY DEF Range
  <2> QED BY <1>3, <2>1, <2>2 DEF Mailed, OnlyOne
<1>6. Told
  BY <1>3, HostsAre DEF Told
<1>7. AllListed
  <2>1. \A f \in Users : step[f] # "relock"
    BY <1>3, HostsAre
  <2> QED BY <2>1 DEF AllListed, Listed, Returning
<1> QED BY <1>1, <1>2, <1>3, <1>4, <1>5, <1>6, <1>7 DEF CondSafe, Promised

\* What every step keeps, until a kill misleads a fiber that waits.
LEMMA CondSafeStep == CondSafe /\ [CondNext]_allVars => CondSafe'
<1> SUFFICES ASSUME CondSafe, [CondNext]_allVars PROVE CondSafe'
  OBVIOUS
<1>0. CondInv /\ CondInv'
  BY CondStepLemma DEF CondSafe
<1> SUFFICES ASSUME ~ harmed' PROVE Unharmed' /\ Promised'
  BY <1>0 DEF CondSafe
<1>1. ~ harmed /\ Unharmed /\ Promised
  <2>1. \/ harmed' = harmed
        \/ \E g \in Victims : harmed' = (harmed \/ KillWakes(g) \/ KillMisleads(g))
    BY DEF CondNext, allVars, vars
  <2>2. ~ harmed
    BY <2>1, Zenon
  <2> QED BY <2>2 DEF CondSafe
<1>2. CASE UNCHANGED allVars
  <2>1. /\ UNCHANGED << thr, mutexVars, box, callVars, crashed >>
        /\ UNCHANGED << chosen, tbox, cause, step, timed, event >>
    BY <1>2 DEF allVars, vars, codeVars, condVars
  <2>2. /\ Unharmed' /\ \A h \in Hosts : Listed(thr'[h], Returning(h))
        /\ \A f \in Users : Steady(f)
    BY <1>1, <2>1, CodeKept
  <2>3. None \notin Callers /\ None \notin Users /\ None \notin Plains
    BY HostsAre
  <2> QED BY <1>0, <1>1, <2>1, <2>2, <2>3, PromisedKept
<1>3. ASSUME NEW c \in Callers, OwnStep(c) PROVE Unharmed' /\ Promised'
  BY <1>0, <1>1, <1>3, PromisedOwn
<1>4. ASSUME NEW c \in Callers, CondStep(c) PROVE Unharmed' /\ Promised'
  <2>1. CASE Release(c)
    BY <1>0, <1>1, <2>1, PromisedRelease
  <2>2. CASE Sleep(c)
    BY <1>0, <1>1, <2>2, PromisedSleep
  <2>3. CASE EventRead(c)
    BY <1>0, <1>1, <2>3, PromisedEvent
  <2>4. CASE Relock(c)
    BY <1>0, <1>1, <2>4, PromisedRelock, PromisedRelocked
  <2>5. CASE Check(c)
    <3>1. c \in Users
      BY <2>5 DEF Check
    <3> QED BY <1>0, <1>1, <2>5, <3>1, PromisedCheck
  <2>6. CASE SendSignal(c)
    BY <1>0, <1>1, <2>6, PromisedSendsMessage, PromisedWritesEvent
  <2>7. CASE DelayReturn(c)
    <3>1. c \in Users
      BY <2>7 DEF DelayReturn
    <3> QED BY <1>0, <1>1, <2>7, <3>1, PromisedDelayReturn
  <2> QED BY <1>4, <2>1, <2>2, <2>3, <2>4, <2>5, <2>6, <2>7 DEF CondStep
<1>5. ASSUME NEW c \in Callers, Signal(c) PROVE Unharmed' /\ Promised'
  BY <1>0, <1>1, <1>5, PromisedSignalHere, PromisedSignalAway
<1>6. ASSUME NEW c \in Callers, NEW delay \in BOOLEAN, Wait(c, delay)
      PROVE  Unharmed' /\ Promised'
  BY <1>0, <1>1, <1>6, PromisedWait
<1>7. ASSUME NEW p \in Callers, EventTimesOut(p) PROVE Unharmed' /\ Promised'
  BY <1>0, <1>1, <1>7, PromisedEvent
<1>8. ASSUME NEW h \in Hosts, TimerStep(h) PROVE Unharmed' /\ Promised'
  BY <1>0, <1>1, <1>8, PromisedTimerReads, PromisedTimerFb DEF TimerStep
<1>9. ASSUME NEW h \in Hosts, HostStep(h), UNCHANGED condVars
      PROVE  Unharmed' /\ Promised'
  BY <1>0, <1>1, <1>9, PromisedHost
<1>10. ASSUME NEW f \in Users, Delay(f) \/ YieldOwn(f) \/ Expires(f)
       PROVE  Unharmed' /\ Promised'
  BY <1>0, <1>1, <1>10, PromisedDelay, PromisedYield, PromisedExpires
<1>11. ASSUME NEW f \in Users, NEW g \in Victims, step[f] = "none", Kill(f, g),
              UNCHANGED condVars,
              harmed' = (harmed \/ KillWakes(g) \/ KillMisleads(g))
       PROVE  Unharmed' /\ Promised'
  <2>1. g \in Users
    BY FibersOfThreadsAssumption DEF FibersOfThreadsAssumption
  <2>2. ~ KillWakes(g) /\ ~ KillMisleads(g)
    BY <1>11, Zenon
  <2> QED BY <1>0, <1>1, <1>11, <2>1, <2>2, PromisedKill
<1> QED BY <1>2, <1>3, <1>4, <1>5, <1>6, <1>7, <1>8, <1>9, <1>10, <1>11
        DEF CondNext

\* The inductive invariant of the condition and of the mutex under it holds for
\* any fibers, threads, mutexes and timeouts, until a kill misleads a fiber.
THEOREM CondSafeInductive == CondSpec => []CondSafe
<1>1. CondInit => CondSafe
  BY CondSafeInit
<1>2. CondSafe /\ [CondNext]_allVars => CondSafe'
  BY CondSafeStep
<1> QED BY <1>1, <1>2, PTL DEF CondSpec

\* acl_fiber_cond_signal: a waiter that still sleeps after a signal took its
\* object has a message or an event on the way, whichever thread it is of and
\* whatever times out, until a kill misleads a fiber.
THEOREM CondSleeperSignalled == CondSpec => []SleeperSignalled
<1>1. ASSUME CondSafe PROVE SleeperSignalled
  <2> SUFFICES ASSUME ~ harmed, NEW c \in Callers, Asleep(c), Signalled(c)
               PROVE  UnderWay(c) \/ c \in event
    BY DEF SleeperSignalled
  <2>0. Unharmed /\ Promised
    BY <1>1 DEF CondSafe
  <2>1. CASE c \in Plains
    BY <2>0, <2>1 DEF Asleep, Waits, Promised, Told
  <2>2. CASE c \notin Plains
    <3>1. /\ c \in Users /\ c \in Fibers /\ Host(c) \in Hosts
          /\ step[c] = "relock" /\ at[c] = "run"
          /\ thr[Host(c)].status[c] = "suspend"
      BY <2>2, HostsAre DEF Asleep
    <3>2. c \notin Awake(Thr(c))
      <4>1. c \in Returning(Host(c)) /\ Listed(thr[Host(c)], Returning(Host(c)))
        BY <2>0, <3>1 DEF Promised, AllListed, Returning
      <4>2. c \notin Linked(thr[Host(c)], "ready")
        BY <3>1, <4>1 DEF Listed
      <4> QED BY <2>0, <3>1, <4>2, HostsAre DEF Awake, Thr, Unharmed, Firm
    <3>3. ~ Back(c)
      BY <3>1, <3>2 DEF Back, Dozes
    <3> QED BY <2>0, <3>1, <3>3 DEF Promised, Settled, Due
  <2> QED BY <2>1, <2>2
<1> QED BY <1>1, CondSafeInductive, PTL

\* acl_fiber_cond_timedwait: it returns a timeout only if no signal chose the
\* caller, but for one whose message has not been read yet, and success only if
\* a signal did, or the message for an earlier wait came late, until a kill
\* misleads a fiber.
THEOREM CondResultTrue == CondSpec => []ResultTrue
<1>1. ASSUME CondSafe PROVE ResultTrue
  <2> SUFFICES ASSUME ~ harmed, NEW f \in Users, step[f] = "check"
               PROVE  LET result == Result(thr[Host(f)], f)
                      IN  /\ result = "timeout" /\ Signalled(f) => UnderWay(f)
                          /\ result = "ok" => cause[f] # {}
    BY DEF ResultTrue
  <2>0. CondInv /\ Unharmed /\ Settled(f)
    BY <1>1 DEF CondSafe, Promised
  <2>1. thr[Host(f)].running = f /\ at[f] = "run"
    BY <2>0 DEF Settled, Stands, Thr
  <2>2. Back(f)
    BY <2>1 DEF Back, Dozes, Awake, Thr
  <2>3. thr[Host(f)].flag[f] \subseteq {"canceled", "timer"}
    <3>1. thr[Host(f)] \in Threads /\ f \in Fibers
      BY <2>0, HostsAre DEF CondInv, Sane, TypeOK
    <3> QED BY <3>1 DEF Threads, Flags
  <2>4. Result(thr[Host(f)], f) = "timeout" => "timer" \in thr[Host(f)].flag[f]
    BY DEF Result
  <2>5. Result(thr[Host(f)], f) = "ok" => thr[Host(f)].flag[f] = {}
    BY <2>3 DEF Result, Canceled
  <2>6. Signalled(f) => cause[f] # {}
    BY DEF Signalled
  <2> QED BY <2>0, <2>2, <2>4, <2>5, <2>6 DEF Settled, Due, Thr
<1> QED BY <1>1, CondSafeInductive, PTL
=============================================================================
