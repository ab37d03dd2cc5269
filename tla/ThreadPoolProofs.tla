--------------------------- MODULE ThreadPoolProofs ---------------------------
(***************************************************************************)
(* Proofs about the thread pool: its books are true, no job is stranded,   *)
(* stopping it drains it, and it implements JobPool.                       *)
(***************************************************************************)
EXTENDS ThreadPool, FiniteSetTheorems, TLAPS

-----------------------------------------------------------------------------
(* Sets, and sequences without repetition *)

\* An injective function takes a finite set to a set of the same size.
LEMMA ImageSize ==
    ASSUME NEW S, IsFiniteSet(S), NEW f, S \subseteq DOMAIN f,
           \A x, y \in S : f[x] = f[y] => x = y
    PROVE  /\ IsFiniteSet({f[x] : x \in S})
           /\ Cardinality({f[x] : x \in S}) = Cardinality(S)
<1> DEFINE T == {f[x] : x \in S}
           g == [x \in S |-> f[x]]
<1>1. g \in Bijection(S, T)
  BY DEF Bijection, Injection, Surjection, IsInjective
<1> QED BY <1>1, FS_Bijection DEF ExistsBijection

\* What the range and the domain of a sequence are, in terms of its length.
LEMMA RangeIs ==
    ASSUME NEW S, NEW s \in Seq(S)
    PROVE  /\ DOMAIN s = 1..Len(s) /\ Len(s) \in Nat
           /\ Range(s) = {s[i] : i \in 1..Len(s)} /\ Range(s) \subseteq S
           /\ \A x : Contains(s, x) <=> x \in Range(s)
           /\ s = << >> <=> Range(s) = {}
           /\ s # << >> => Head(s) = s[1] /\ s[1] \in Range(s)
BY DEF Range, Contains

\* A sequence without repetition is as long as the set of its entries is large.
LEMMA RangeSize ==
    ASSUME NEW S, NEW s \in Seq(S), IsInjective(s)
    PROVE  IsFiniteSet(Range(s)) /\ Cardinality(Range(s)) = Len(s)
<1>1. /\ DOMAIN s = 1..Len(s) /\ Len(s) \in Nat
      /\ Range(s) = {s[i] : i \in 1..Len(s)}
  BY RangeIs
<1>2. IsFiniteSet(1..Len(s)) /\ Cardinality(1..Len(s)) = Len(s)
  BY <1>1, FS_Interval
<1>3. \A i, j \in 1..Len(s) : s[i] = s[j] => i = j
  BY <1>1 DEF IsInjective
<1> QED BY <1>1, <1>2, <1>3, ImageSize

\* The sequences of SetToSeqs have every element of the set once.
LEMMA SetToSeqsIs ==
    ASSUME NEW S, IsFiniteSet(S), NEW order \in SetToSeqs(S)
    PROVE  order \in Seq(S) /\ IsInjective(order) /\ Range(order) = S
<1> DEFINE n == Cardinality(S)
<1>1. n \in Nat
  BY FS_CardinalityType
<1>2. /\ order \in [1..n -> S]
      /\ \A i, j \in 1..n : i # j => order[i] # order[j]
  BY DEF SetToSeqs
<1>3. order \in Seq(S) /\ IsInjective(order) /\ DOMAIN order = 1..n
  BY <1>1, <1>2 DEF IsInjective
<1>4. order \in Surjection(1..n, S)
  <2>1. order \in Injection(1..n, S)
    BY <1>2, <1>3 DEF Injection
  <2>2. Cardinality(1..n) = n
    BY <1>1, FS_Interval
  <2> QED BY <2>1, <2>2, FS_Injection
<1>5. Range(order) = S
  BY <1>2, <1>3, <1>4 DEF Surjection, Range
<1> QED BY <1>3, <1>5

\* The elements of free that have the lowest n ranks in it.
Lowest(S, free, n) ==
    S \subseteq free /\ \A k \in free : k \in S <=> Rank(free, k) <= n

\* Their ranks are the numbers up to their own.
Ranked(S, free, n) ==
    /\ Cardinality(S) \in Nat /\ Cardinality(S) <= n
    /\ \A j, k \in free : Rank(free, j) = Rank(free, k) => j = k
    /\ \A k \in S : Rank(free, k) \in 1..Cardinality(S)
    /\ \A i \in 1..Cardinality(S) : \E k \in S : Rank(free, k) = i

\* The elements of a finite set of numbers are ranked from 1 on, and those of
\* the lowest n ranks have the ranks up to their number.
LEMMA Ranks ==
    ASSUME NEW N \in Nat, NEW n \in Nat, NEW free, free \subseteq 1..N,
           NEW S, Lowest(S, free, n)
    PROVE  Ranked(S, free, n)
<1> DEFINE upto(k) == {i \in free : i <= k}
           rank(k) == Cardinality(upto(k))
           given   == {k \in free : rank(k) <= n}
           r       == [k \in free |-> rank(k)]
           c       == Cardinality(given)
<1>1. IsFiniteSet(1..N)
  BY FS_Interval
<1>2. IsFiniteSet(free) /\ IsFiniteSet(given) /\ c \in Nat
  BY <1>1, FS_Subset, FS_CardinalityType
<1>3. \A k : IsFiniteSet(upto(k)) /\ rank(k) \in Nat
  BY <1>2, FS_Subset, FS_CardinalityType
<1>4. \A k \in free : rank(k) >= 1
  <2> SUFFICES ASSUME NEW k \in free PROVE rank(k) >= 1
    OBVIOUS
  <2>1. k \in upto(k) /\ IsFiniteSet(upto(k)) /\ rank(k) \in Nat
    BY <1>3
  <2>2. \A U : IsFiniteSet(U) /\ k \in U => Cardinality(U) # 0
    BY FS_EmptySet
  <2>3. rank(k) # 0
    BY <2>1, <2>2
  <2> HIDE DEF rank
  <2> QED BY <2>1, <2>3
<1>5. ASSUME NEW j \in free, NEW k \in free, j < k PROVE rank(j) < rank(k)
  <2>0. free \subseteq Int
    OBVIOUS
  <2>1. upto(j) \subseteq upto(k) /\ k \in upto(k) /\ k \notin upto(j)
    <3>1. \A i \in free : i <= j => i <= k
      BY <1>5, <2>0
    <3>2. ~ (k <= j) /\ k <= k
      BY <1>5, <2>0
    <3> QED BY <3>1, <3>2
  <2>2. IsFiniteSet(upto(k)) /\ rank(j) \in Nat /\ rank(k) \in Nat
    BY <1>3
  <2> HIDE DEF upto
  <2>3. rank(j) <= rank(k) /\ rank(j) # rank(k)
    BY <2>1, <2>2, FS_Subset
  <2> QED BY <2>2, <2>3
<1>6. \A j, k \in free : rank(j) = rank(k) => j = k
  <2> SUFFICES ASSUME NEW j \in free, NEW k \in free, rank(j) = rank(k)
               PROVE  j = k
    OBVIOUS
  <2>1. j < k \/ k < j \/ j = k
    OBVIOUS
  <2>2. ~ (j < k) /\ ~ (k < j)
    BY <1>3, <1>5
  <2> QED BY <2>1, <2>2
<1>7. ASSUME NEW k \in given PROVE rank(k) <= c
  <2>1. \A j \in upto(k) : rank(j) <= rank(k)
    <3> SUFFICES ASSUME NEW j \in upto(k) PROVE rank(j) <= rank(k)
      OBVIOUS
    <3>1. /\ j < k \/ j = k
          /\ rank(j) \in Nat /\ rank(k) \in Nat
      BY <1>3
    <3> QED BY <1>5, <3>1
  <2>2. upto(k) \subseteq free /\ rank(k) <= n
    OBVIOUS
  <2>3. upto(k) \subseteq given
    <3> SUFFICES ASSUME NEW j \in upto(k) PROVE rank(j) <= n
      BY <2>2
    <3>1. rank(j) \in Nat /\ rank(k) \in Nat /\ rank(j) <= rank(k)
      BY <1>3, <2>1
    <3> QED BY <2>2, <3>1
  <2> QED BY <1>2, <2>3, FS_Subset
<1> DEFINE image == {r[k] : k \in given}
<1>8. Cardinality(image) = c
  <2>1. given \subseteq DOMAIN r /\ \A j, k \in given : r[j] = r[k] => j = k
    BY <1>6
  <2> HIDE DEF given, r
  <2> QED BY <1>2, <2>1, ImageSize
<1>9. \A k \in given : r[k] = rank(k) /\ r[k] \in 1..c /\ r[k] \in 1..n
  <2> SUFFICES ASSUME NEW k \in given
               PROVE  r[k] = rank(k) /\ r[k] \in 1..c /\ r[k] \in 1..n
    OBVIOUS
  <2>1. /\ r[k] = rank(k) /\ rank(k) <= n
        /\ rank(k) \in Nat /\ rank(k) >= 1 /\ rank(k) <= c
    BY <1>3, <1>4, <1>7
  <2> HIDE DEF rank, r, given, c
  <2> QED BY <1>2, <2>1
<1> HIDE DEF r
<1>10. image \subseteq 1..c /\ image \subseteq 1..n
  BY <1>9 DEF image
<1>11. /\ IsFiniteSet(1..c) /\ Cardinality(1..c) = c
       /\ IsFiniteSet(1..n) /\ Cardinality(1..n) = n
  <2>1. \A m \in Nat : IsFiniteSet(1..m) /\ Cardinality(1..m) = m
    BY FS_Interval
  <2> HIDE DEF c
  <2> QED BY <1>2, <2>1
<1> HIDE DEF image, given
<1>12. image = 1..c
  BY <1>8, <1>10, <1>11, FS_Subset
<1>13. c <= n
  <2>1. Cardinality(image) <= Cardinality(1..n)
    BY <1>10, <1>11, FS_Subset
  <2> QED BY <1>8, <1>11, <2>1
<1>14. image = {rank(k) : k \in given}
  BY <1>9 DEF image
<1>15. \A k : Rank(free, k) = rank(k)
  BY DEF Rank
<1> HIDE DEF rank
<1>16. given = S
  BY <1>15 DEF given, Lowest
<1>17. /\ \A k \in S : Rank(free, k) \in 1..c
       /\ \A i \in 1..c : \E k \in S : Rank(free, k) = i
  BY <1>12, <1>14, <1>15, <1>16
<1>18. \A j, k \in free : Rank(free, j) = Rank(free, k) => j = k
  BY <1>6, <1>15
<1> QED BY <1>2, <1>13, <1>16, <1>17, <1>18 DEF Ranked

-----------------------------------------------------------------------------
(* The inductive invariant *)

\* The threads that have been created and have not ended.
Alive == {w \in Workers : wpc[w] \notin {"new", "gone"}}

\* The threads are created in their order, and those alive are counted.
ThreadsKnown ==
    /\ \A w \in Workers : wpc[w] = "new" <=> w > born
    /\ count = Cardinality(Alive)

Resting(w) == wpc[w] \in {"waiting"} \cup Awake

\* A counter of the workers in the list never falls behind, and is exact as
\* long as nobody adds batches.
Counts(counter, list) ==
    /\ counter >= Len(list)
    /\ Batchers = {} => counter = Len(list)

\* The list holds the workers in worker_wait without a job, each once.
ListTrue ==
    /\ IsInjective(idlers)
    /\ \A w \in Workers : w \in Range(idlers) <=> Resting(w) /\ own[w] = None
    /\ Counts(idle, idlers)

\* thr_iter and the next pointers lead to threads that have been in the list.
Visited(w) == w = None \/ wpc[w] \notin {"new", "starting"}

PointersKnown == Visited(iter) /\ \A w \in Workers : Visited(next[w])

\* A worker with a job of its own is alive, and past its start; if it waits it
\* will be signalled.
OwnersKnown ==
    \A w \in Workers : own[w] # None =>
        /\ wpc[w] \notin {"new", "starting", "gone"}
        /\ wpc[w] = "waiting" => SignalComing(w)

\* The worker will look for jobs without anybody's doing.  One that starts may
\* fail instead.
Looks(w) == wpc[w] \in {"back", "running"} \cup Awake \/ own[w] # None

\* For the jobs in the queue there is such a worker, or all threads, if there
\* are any, are about to start; if there are none, one has failed.
QueueSeen ==
    queue # << >> =>
        \/ \E w \in Workers : Looks(w)
        \/ /\ \A w \in Alive : wpc[w] = "starting"
           /\ Alive = {} => failed # {}

\* The jobs that f gives to some worker, and that no two of them have the same.
Held(f) == {f[w] : w \in Workers} \ {None}
Once(f) == \A v, w \in Workers : f[v] = f[w] => v = w \/ f[v] = None

\* Each job added is in one place: the queue, a worker's own, running with a
\* worker, finished, or lost.
JobsOnce ==
    /\ \A w \in Workers : running[w] # None <=> wpc[w] = "running"
    /\ IsInjective(queue) /\ Once(own) /\ Once(running)

JobsApart ==
    /\ Range(queue) \cap Held(own) = {}
    /\ (Range(queue) \cup Held(own)) \cap Held(running) = {}
    /\ (Range(queue) \cup Held(own) \cup Held(running)) \cap (finished \cup lost)
           = {}
    /\ finished \cap lost = {}

Added == Range(queue) \cup Held(own) \cup Held(running) \cup finished \cup lost

JobsKnown == JobsOnce /\ JobsApart /\ Added = 1..added

PoolInv ==
    /\ TypeOK /\ ThreadsKnown /\ ListTrue /\ PointersKnown /\ OwnersKnown
    /\ QueueSeen /\ JobsKnown

-----------------------------------------------------------------------------
(* The operators *)

\* The successor of a worker was in the list, or is in its next pointer.
LEMMA SuccIs ==
    ASSUME idlers \in Seq(Workers), NEW w
    PROVE  Succ(w) \in Range(idlers) \cup {None, next[w]}
<1>1. /\ DOMAIN idlers = 1..Len(idlers) /\ Len(idlers) \in Nat
      /\ Range(idlers) = {idlers[i] : i \in 1..Len(idlers)}
  BY RangeIs
<1> DEFINE i == CHOOSE k \in DOMAIN idlers : idlers[k] = w
<1>2. CASE Contains(idlers, w)
  <2>1. i \in 1..Len(idlers)
    BY <1>1, <1>2 DEF Contains
  <2>2. Succ(w) = IF i < Len(idlers) THEN idlers[i + 1] ELSE None
    BY <1>2 DEF Succ
  <2> HIDE DEF i
  <2> QED BY <1>1, <2>1, <2>2
<1>3. CASE ~ Contains(idlers, w)
  BY <1>3 DEF Succ
<1> QED BY <1>2, <1>3

\* Unlink takes the workers out of the list, and leaves the others there; the
\* next pointers lead to threads that have been in the list.
LEMMA UnlinkLemma ==
    ASSUME TypeOK, IsInjective(idlers), NEW S \in SUBSET Workers, Unlink(S)
    PROVE  /\ idlers' \in Seq(Workers) /\ IsInjective(idlers')
           /\ Range(idlers') = Range(idlers) \ S
           /\ Len(idlers') = Len(idlers) - Cardinality(S \cap Range(idlers))
           /\ Len(idlers) \in Nat /\ Cardinality(S \cap Range(idlers)) \in Nat
           /\ next' \in [Workers -> Workers \cup {None}]
           /\ \A w \in Workers : next'[w] \in Range(idlers) \cup {None, next[w]}
<1> DEFINE R == Range(idlers)
<1>1. /\ idlers \in Seq(Workers) /\ next \in [Workers -> Workers \cup {None}]
      /\ R \subseteq Workers /\ IsFiniteSet(R) /\ Cardinality(R) = Len(idlers)
      /\ Len(idlers) \in Nat
  BY RangeIs, RangeSize DEF TypeOK
<1>2. /\ IsFiniteSet(R \ S) /\ IsFiniteSet(R \cap S)
      /\ Cardinality(R \ S) = Cardinality(R) - Cardinality(R \cap S)
      /\ Cardinality(R \cap S) \in Nat
  BY <1>1, FS_Difference, FS_Intersection, FS_CardinalityType
<1>3. idlers' \in SetToSeqs(R \ S)
  BY DEF Unlink
<1> HIDE DEF R
<1>4. idlers' \in Seq(R \ S) /\ IsInjective(idlers') /\ Range(idlers') = R \ S
  BY <1>2, <1>3, SetToSeqsIs
<1>5. idlers' \in Seq(Workers)
  BY <1>1, <1>4
<1>6. Len(idlers') = Cardinality(R \ S)
  BY <1>4, <1>5, RangeSize
<1>7. S \cap R = R \cap S
  OBVIOUS
<1>8. \A w \in Workers : Succ(w) \in R \cup {None, next[w]}
  BY <1>1, SuccIs DEF R
<1>9. /\ next' \in [Workers -> Workers \cup {None}]
      /\ \A w \in Workers : next'[w] \in R \cup {None, next[w]}
  BY <1>1, <1>8 DEF Unlink
<1> QED BY <1>1, <1>2, <1>4, <1>5, <1>6, <1>7, <1>9 DEF R

\* Create makes threads that start, as many as the limit allows unless one
\* fails, and signals; nothing else happens to the threads.
LEMMA CreateLemma ==
    ASSUME TypeOK, ThreadsKnown, NEW n \in Nat, NEW T \in SUBSET Workers,
           Create(n, T)
    PROVE  /\ ThreadsKnown'
           /\ wpc' \in [Workers -> WorkerPlaces] /\ born' \in 0..MaxThreads
           /\ count' \in 0..Parallelism /\ failed' \subseteq Failures
           /\ failed \subseteq failed'
           /\ \A w \in Workers :
                 IF wpc[w] = "new" THEN wpc'[w] \in {"new", "starting"}
                 ELSE wpc'[w] = Signaled(T)[w]
           /\ Alive = {} /\ n > 0 => Alive' # {} \/ failed' # {}
<1> DEFINE wanted == IF n < Room THEN n ELSE Room
<1>0. /\ born \in 0..MaxThreads /\ count \in 0..Parallelism
      /\ Parallelism \in Nat /\ Parallelism > 0 /\ MaxThreads \in Nat
      /\ failed \subseteq Failures /\ wpc \in [Workers -> WorkerPlaces]
  BY ParallelismAssumption, BoundsAssumption
     DEF TypeOK, ParallelismAssumption, BoundsAssumption
<1>1. wanted \in Nat /\ wanted <= n /\ wanted <= Parallelism - count
  BY <1>0 DEF Room
<1>2. PICK m \in 0..wanted :
        /\ m = wanted \/ "create" \in Failures
        /\ born + m <= MaxThreads
        /\ born' = born + m
        /\ count' = count + m
        /\ failed' = IF m < wanted THEN failed \cup {"create"} ELSE failed
        /\ wpc' = [w \in Workers |->
                      IF w \in born + 1..born + m
                      THEN "starting" ELSE Signaled(T)[w]]
  BY DEF Create
<1>3. /\ born' \in 0..MaxThreads /\ count' \in 0..Parallelism
      /\ failed' \subseteq Failures /\ failed \subseteq failed'
  <2>1. m \in Nat /\ m <= wanted /\ (m < wanted => "create" \in Failures)
    BY <1>1, <1>2
  <2>2. born' \in 0..MaxThreads /\ count' \in 0..Parallelism
    <3> HIDE DEF wanted
    <3> QED BY <1>0, <1>1, <1>2, <2>1
  <2>3. failed' \subseteq Failures /\ failed \subseteq failed'
    BY <1>0, <1>2, <2>1
  <2> QED BY <2>2, <2>3
<1> DEFINE fresh == born + 1..born + m
<1>4. fresh \subseteq Workers /\ \A w \in Workers : w \in Nat
  BY <1>0, <1>2 DEF Workers
<1>5. \A w \in Workers : /\ wpc[w] = "new" <=> w > born
                         /\ w \in fresh => wpc[w] = "new"
  BY <1>0, <1>2, <1>4 DEF ThreadsKnown
<1>6. \A w \in Workers :
         /\ wpc'[w] = IF w \in fresh THEN "starting" ELSE Signaled(T)[w]
         /\ Signaled(T)[w] \in WorkerPlaces
         /\ Signaled(T)[w] = "new" <=> wpc[w] = "new"
         /\ Signaled(T)[w] = "gone" <=> wpc[w] = "gone"
  BY <1>0, <1>2 DEF Signaled, WorkerPlaces, AtLoop, Awake
<1>7. wpc' \in [Workers -> WorkerPlaces]
  BY <1>2, <1>6 DEF WorkerPlaces, AtLoop
<1>8. \A w \in Workers : wpc'[w] = "new" <=> w > born'
  BY <1>0, <1>2, <1>4, <1>5, <1>6
<1>9. Alive' = Alive \cup fresh /\ Alive \cap fresh = {}
  BY <1>4, <1>5, <1>6 DEF Alive
<1>10. IsFiniteSet(Alive) /\ IsFiniteSet(fresh) /\ Cardinality(fresh) = m
  <2>1. IsFiniteSet(Workers) /\ Alive \subseteq Workers
    BY <1>0, FS_Interval DEF Workers, Alive
  <2>2. born \in Int /\ m \in Nat
    BY <1>0, <1>1, <1>2
  <2> QED BY <2>1, <2>2, FS_Subset, FS_Interval
<1>11. count' = Cardinality(Alive')
  <2> HIDE DEF fresh
  <2>1. Cardinality(Alive \cup fresh)
           = Cardinality(Alive) + Cardinality(fresh) - Cardinality({})
    BY <1>9, <1>10, FS_Union
  <2> QED BY <1>0, <1>2, <1>9, <1>10, <2>1, FS_EmptySet DEF ThreadsKnown
<1>12. ASSUME Alive = {}, n > 0 PROVE Alive' # {} \/ failed' # {}
  <2>1. count = 0 /\ wanted > 0
    BY <1>0, <1>12, FS_EmptySet DEF ThreadsKnown, Room
  <2>2. CASE m < wanted
    BY <1>2, <2>2
  <2>3. CASE m = wanted
    <3>1. born + 1 \in fresh
      BY <1>0, <1>2, <2>1, <2>3
    <3> QED BY <1>9, <3>1
  <2> QED BY <1>1, <1>2, <2>2, <2>3
<1> QED BY <1>2, <1>3, <1>5, <1>6, <1>7, <1>8, <1>11, <1>12 DEF ThreadsKnown

-----------------------------------------------------------------------------
(* The steps of the workers *)

\* The types, and what the parameters are.
LEMMA Types ==
    ASSUME TypeOK
    PROVE  /\ Workers \subseteq Nat /\ IsFiniteSet(Workers)
           /\ Jobs \subseteq Nat /\ None \notin Workers /\ None \notin Jobs
           /\ IsFiniteSet(Alive) /\ Alive \subseteq Workers
           /\ Range(queue) \subseteq Jobs /\ Range(idlers) \subseteq Workers
<1>1. Workers \subseteq Nat /\ IsFiniteSet(Workers) /\ Jobs \subseteq Nat
  BY BoundsAssumption, FS_Interval DEF Workers, Jobs, BoundsAssumption
<1>2. None \notin Workers /\ None \notin Jobs
  BY <1>1, NoneAssumption DEF NoneAssumption
<1>3. Alive \subseteq Workers
  BY DEF Alive
<1>4. Range(queue) \subseteq Jobs /\ Range(idlers) \subseteq Workers
  BY RangeIs DEF TypeOK
<1> QED BY <1>1, <1>2, <1>3, <1>4, FS_Subset

\* Threads in worker_wait wake up, or wait again if there is no job: what the
\* invariant says of the jobs, the list and the threads stays true.
LEMMA RestStep ==
    ASSUME PoolInv, UNCHANGED << jobVars, listVars, born, count, failed >>,
           wpc' \in [Workers -> WorkerPlaces],
           \A w \in Workers :
              \/ wpc'[w] = wpc[w]
              \/ Resting(w) /\ wpc'[w] \in Awake
              \/ Resting(w) /\ wpc'[w] = "waiting" /\ queue = << >>
    PROVE  /\ ThreadsKnown' /\ ListTrue' /\ QueueSeen' /\ JobsKnown'
           /\ \A w \in Workers \cup {None} : Visited(w) => Visited(w)'
<1>1. /\ queue' = queue /\ own' = own /\ running' = running /\ added' = added
      /\ finished' = finished /\ lost' = lost
      /\ idlers' = idlers /\ idle' = idle /\ next' = next
      /\ born' = born /\ count' = count /\ failed' = failed
  BY DEF jobVars, listVars
<1>2. \A w \in Workers :
         /\ \A p \in {"new", "gone", "starting", "running"} :
               wpc'[w] = p <=> wpc[w] = p
         /\ Resting(w)' <=> Resting(w)
  BY DEF Resting, Awake
<1>3. Alive' = Alive
  BY <1>2 DEF Alive
<1>4. ThreadsKnown'
  BY <1>1, <1>2, <1>3 DEF PoolInv, ThreadsKnown
<1>5. ListTrue'
  BY <1>1, <1>2 DEF PoolInv, ListTrue
<1>6. QueueSeen'
  <2> SUFFICES ASSUME queue # << >>
               PROVE  \/ \E w \in Workers : Looks(w)'
                      \/ /\ \A w \in Alive : wpc'[w] = "starting"
                         /\ Alive = {} => failed # {}
    BY <1>1, <1>3 DEF QueueSeen
  <2>1. \A w \in Workers : Looks(w) => Looks(w)'
    BY <1>1 DEF Looks, Resting, Awake
  <2>2. \A w \in Alive : wpc[w] = "starting" => wpc'[w] = "starting"
    BY <1>2 DEF Alive
  <2> QED BY <2>1, <2>2 DEF PoolInv, QueueSeen
<1>7. JobsKnown'
  <2>1. Held(own)' = Held(own) /\ Held(running)' = Held(running)
    BY <1>1 DEF Held
  <2> QED BY <1>1, <1>2, <2>1 DEF PoolInv, JobsKnown, JobsOnce, JobsApart, Added, Once
<1>8. \A w \in Workers \cup {None} : Visited(w) => Visited(w)'
  BY <1>2 DEF Visited
<1> QED BY <1>4, <1>5, <1>6, <1>7, <1>8

\* A worker waits again.
LEMMA WaitAgainStep ==
    ASSUME PoolInv, NEW w \in Workers, WaitAgain(w)
    PROVE  PoolInv'
<1>1. /\ wpc[w] \in Awake /\ wpc' = [wpc EXCEPT ![w] = "waiting"]
      /\ own[w] = None /\ queue = << >>
      /\ UNCHANGED << jobVars, listVars, born, count, failed, callVars, stopVars >>
  BY DEF WaitAgain, At, NoJob
<1>2. TypeOK'
  BY <1>1 DEF PoolInv, TypeOK, jobVars, listVars, callVars, stopVars, WorkerPlaces
<1>3. /\ ThreadsKnown' /\ ListTrue' /\ QueueSeen' /\ JobsKnown'
      /\ \A v \in Workers \cup {None} : Visited(v) => Visited(v)'
  BY <1>1, <1>2, RestStep DEF Resting, PoolInv, TypeOK
<1>4. PointersKnown'
  BY <1>1, <1>2, <1>3
     DEF PoolInv, TypeOK, PointersKnown, listVars, callVars, Visited
<1>5. OwnersKnown'
  BY <1>1 DEF PoolInv, TypeOK, OwnersKnown, SignalComing, jobVars, callVars, Awake
<1> QED BY <1>2, <1>3, <1>4, <1>5 DEF PoolInv

\* A worker stops waiting: its time is over, or it wakes for nothing.
LEMMA WakeStep ==
    ASSUME PoolInv, NEW w \in Workers, TimesOut(w) \/ WakesForNothing(w)
    PROVE  PoolInv'
<1>1. PICK p \in Awake : wpc' = [wpc EXCEPT ![w] = p]
  BY DEF TimesOut, WakesForNothing, At, Awake
<1>2. /\ wpc[w] = "waiting"
      /\ UNCHANGED << jobVars, listVars, born, count, failed, callVars, stopVars >>
  BY DEF TimesOut, WakesForNothing, At
<1>3. TypeOK'
  BY <1>1, <1>2
     DEF PoolInv, TypeOK, jobVars, listVars, callVars, stopVars, WorkerPlaces, AtLoop
<1>4. /\ ThreadsKnown' /\ ListTrue' /\ QueueSeen' /\ JobsKnown'
      /\ \A v \in Workers \cup {None} : Visited(v) => Visited(v)'
  BY <1>1, <1>2, <1>3, RestStep DEF Resting, PoolInv, TypeOK
<1>5. PointersKnown'
  BY <1>2, <1>3, <1>4
     DEF PoolInv, TypeOK, PointersKnown, listVars, callVars, Visited
<1>6. OwnersKnown'
  BY <1>1, <1>2
     DEF PoolInv, TypeOK, OwnersKnown, SignalComing, jobVars, callVars, Awake
<1> QED BY <1>3, <1>4, <1>5, <1>6 DEF PoolInv

\* A worker with jobs of its own, that stands anywhere but in the list, goes on
\* to run the next one.
LEMMA TakeOwnStep ==
    ASSUME PoolInv, NEW w \in Workers, TakeOwn(w)
    PROVE  PoolInv'
<1>1. /\ wpc[w] \in AtLoop /\ own[w] # None
      /\ wpc' = [wpc EXCEPT ![w] = "running"]
      /\ running' = [running EXCEPT ![w] = own[w]]
      /\ own' = [own EXCEPT ![w] = None]
      /\ queue' = queue /\ added' = added /\ finished' = finished /\ lost' = lost
      /\ born' = born /\ count' = count /\ failed' = failed
      /\ idlers' = idlers /\ idle' = idle /\ next' = next
      /\ UNCHANGED << callVars, stopVars >>
  BY DEF TakeOwn, At, listVars
<1>2. /\ TypeOK /\ own \in [Workers -> Jobs \cup {None}]
      /\ running \in [Workers -> Jobs \cup {None}]
      /\ wpc \in [Workers -> WorkerPlaces]
  BY DEF PoolInv, TypeOK
<1>3. TypeOK'
  BY <1>1 DEF PoolInv, TypeOK, callVars, stopVars, WorkerPlaces
<1>4. /\ wpc[w] \notin {"new", "gone", "running"}
      /\ \A v \in Workers : v # w => wpc'[v] = wpc[v] /\ own'[v] = own[v]
                                     /\ running'[v] = running[v]
      /\ wpc'[w] = "running" /\ own'[w] = None /\ running'[w] = own[w]
  BY <1>1, <1>2 DEF AtLoop, Awake
<1>5. ThreadsKnown'
  <2>1. Alive' = Alive
    BY <1>4 DEF Alive
  <2> QED BY <1>1, <1>4, <2>1 DEF PoolInv, ThreadsKnown
<1>6. ListTrue'
  BY <1>1, <1>4 DEF PoolInv, ListTrue, Resting, Awake
<1>7. PointersKnown'
  BY <1>1, <1>3, <1>4 DEF PoolInv, PointersKnown, Visited, callVars, TypeOK
<1>8. OwnersKnown'
  BY <1>1, <1>4 DEF PoolInv, OwnersKnown, SignalComing, callVars
<1>9. QueueSeen'
  <2>1. Looks(w)'
    BY <1>4 DEF Looks
  <2> QED BY <2>1 DEF QueueSeen
<1>10. JobsKnown'
  <2>1. Once(own) /\ Once(running) /\ running[w] = None /\ own[w] \in Held(own)
    BY <1>1, <1>4 DEF PoolInv, JobsKnown, JobsOnce, Held
  <2>2. own[w] \notin Held(running)
    BY <2>1 DEF PoolInv, JobsKnown, JobsApart
  <2>3. Once(own)' /\ Held(own)' = Held(own) \ {own[w]}
    BY <1>2, <1>4, <2>1 DEF Once, Held
  <2>4. Once(running)' /\ Held(running)' = Held(running) \cup {own[w]}
    <3>1. \A v \in Workers : running[v] # own[w]
      BY <2>1, <2>2, <1>1 DEF Held
    <3>2. Once(running)'
      BY <1>2, <1>4, <2>1, <3>1 DEF Once
    <3>3. Held(running)' = Held(running) \cup {own[w]}
      BY <1>1, <1>2, <1>4, <2>1 DEF Held
    <3> QED BY <3>2, <3>3
  <2>5. \A v \in Workers : running'[v] # None <=> wpc'[v] = "running"
    BY <1>1, <1>4 DEF PoolInv, JobsKnown, JobsOnce
  <2>6. JobsApart'
    <3> DEFINE O == Held(own) \ {own[w]}
               R == Held(running) \cup {own[w]}
    <3>1. own[w] \in Held(own) /\ JobsApart
      BY <2>1 DEF PoolInv, JobsKnown
    <3>2. Range(queue) \cap O = {} /\ (Range(queue) \cup O) \cap R = {}
      BY <3>1 DEF JobsApart
    <3>3. (Range(queue) \cup O \cup R) \cap (finished \cup lost) = {}
      BY <3>1 DEF JobsApart
    <3> HIDE DEF O, R
    <3>4. Held(own)' = O /\ Held(running)' = R /\ finished \cap lost = {}
      BY <2>3, <2>4, <3>1 DEF O, R, JobsApart
    <3> QED BY <1>1, <3>2, <3>3, <3>4 DEF JobsApart
  <2>7. Added' = Added
    BY <1>1, <2>1, <2>3, <2>4 DEF Added
  <2> QED BY <1>1, <2>3, <2>4, <2>5, <2>6, <2>7 DEF PoolInv, JobsKnown, JobsOnce
<1> QED BY <1>3, <1>5, <1>6, <1>7, <1>8, <1>9, <1>10 DEF PoolInv

\* A worker leaves the list on the way to a job of the queue, or to its end, or
\* was not in the list.
LEMMA StopsWaitingIs ==
    ASSUME TypeOK, ListTrue, NEW w \in Workers, StopsWaiting(w),
           wpc[w] \in AtLoop, own[w] = None
    PROVE  /\ idlers' \in Seq(Workers) /\ IsInjective(idlers')
           /\ Range(idlers') = Range(idlers) \ {w}
           /\ Counts(idle', idlers') /\ idle' \in Nat
           /\ next' \in [Workers -> Workers \cup {None}]
           /\ \A v \in Workers : next'[v] \in Range(idlers) \cup {None, next[v]}
<1>0. /\ idlers \in Seq(Workers) /\ IsInjective(idlers) /\ idle \in Nat
      /\ Counts(idle, idlers) /\ Len(idlers) \in Nat
      /\ next \in [Workers -> Workers \cup {None}]
      /\ Range(idlers) \subseteq Workers
  BY RangeIs DEF TypeOK, ListTrue
<1>1. CASE wpc[w] \in Awake
  <2>1. Unlink({w}) /\ idle' = idle - 1
    BY <1>1 DEF StopsWaiting, LeaveIdle
  <2>2. w \in Range(idlers)
    BY <1>1 DEF ListTrue, Resting
  <2>3. /\ idlers' \in Seq(Workers) /\ IsInjective(idlers')
        /\ Range(idlers') = Range(idlers) \ {w}
        /\ Len(idlers') = Len(idlers) - Cardinality({w} \cap Range(idlers))
        /\ next' \in [Workers -> Workers \cup {None}]
        /\ \A v \in Workers : next'[v] \in Range(idlers) \cup {None, next[v]}
    BY <1>0, <2>1, UnlinkLemma
  <2>4. {w} \cap Range(idlers) = {w} /\ Cardinality({w}) = 1
    BY <2>2, FS_Singleton
  <2>5. Len(idlers') \in Nat /\ Len(idlers') = Len(idlers) - 1
    BY <2>3, <2>4, RangeIs
  <2>6. Counts(idle', idlers') /\ idle' \in Nat
    BY <1>0, <2>1, <2>5 DEF Counts
  <2> QED BY <2>3, <2>6
<1>2. CASE wpc[w] \notin Awake
  <2>1. idlers' = idlers /\ idle' = idle /\ next' = next
    BY <1>2 DEF StopsWaiting, listVars
  <2>2. w \notin Range(idlers)
    BY <1>2 DEF ListTrue, Resting, AtLoop
  <2> QED BY <1>0, <2>1, <2>2
<1> QED BY <1>1, <1>2

\* The head of the queue, which has no job twice.
LEMMA QueueHead ==
    ASSUME NEW s \in Seq(Jobs), IsInjective(s), s # << >>
    PROVE  /\ Head(s) \in Range(s) /\ Tail(s) \in Seq(Jobs)
           /\ IsInjective(Tail(s)) /\ Range(Tail(s)) = Range(s) \ {Head(s)}
<1> DEFINE u == Tail(s)
<1>1. /\ u \in Seq(Jobs) /\ Len(u) = Len(s) - 1 /\ Len(s) \in Nat /\ Len(s) > 0
      /\ Head(s) = s[1] /\ \A i \in 1..Len(u) : u[i] = s[i + 1]
  OBVIOUS
<1> HIDE DEF u
<1>2. /\ DOMAIN u = 1..Len(u) /\ Range(u) = {u[i] : i \in 1..Len(u)}
      /\ DOMAIN s = 1..Len(s) /\ Range(s) = {s[i] : i \in 1..Len(s)}
  BY <1>1, RangeIs
<1>3. \A i \in 1..Len(u) : i \in Nat /\ i + 1 \in 1..Len(s) /\ i + 1 # 1
  BY <1>1
<1>4. \A i, j \in 1..Len(s) : s[i] = s[j] => i = j
  BY <1>2 DEF IsInjective
<1>5. IsInjective(u)
  <2>1. \A i, j \in 1..Len(u) : u[i] = u[j] => i + 1 = j + 1
    BY <1>1, <1>3, <1>4
  <2>2. \A i, j \in 1..Len(u) : u[i] = u[j] => i = j
    BY <1>3, <2>1
  <2> QED BY <1>2, <2>2 DEF IsInjective
<1>6. Range(u) \subseteq Range(s) \ {s[1]}
  BY <1>1, <1>2, <1>3, <1>4
<1>7. Range(s) \ {s[1]} \subseteq Range(u)
  <2> SUFFICES ASSUME NEW i \in 1..Len(s), i # 1 PROVE s[i] \in Range(u)
    BY <1>2
  <2>1. i - 1 \in 1..Len(u) /\ (i - 1) + 1 = i
    BY <1>1
  <2> QED BY <1>1, <1>2, <2>1
<1> QED BY <1>1, <1>2, <1>5, <1>6, <1>7 DEF u

\* A worker takes the first job of the queue.
LEMMA TakeQueuedStep ==
    ASSUME PoolInv, NEW w \in Workers, TakeQueued(w)
    PROVE  PoolInv'
<1> DEFINE j == Head(queue)
<1>1. /\ wpc[w] \in AtLoop /\ own[w] = None /\ queue # << >>
      /\ wpc' = [wpc EXCEPT ![w] = "running"]
      /\ running' = [running EXCEPT ![w] = j]
      /\ queue' = Tail(queue) /\ StopsWaiting(w)
      /\ own' = own /\ added' = added /\ finished' = finished /\ lost' = lost
      /\ born' = born /\ count' = count /\ failed' = failed
      /\ UNCHANGED << callVars, stopVars >>
  BY DEF TakeQueued, At, Dequeued
<1>2. /\ TypeOK /\ ListTrue /\ queue \in Seq(Jobs) /\ IsInjective(queue)
      /\ running \in [Workers -> Jobs \cup {None}]
      /\ wpc \in [Workers -> WorkerPlaces]
  BY DEF PoolInv, TypeOK, JobsKnown, JobsOnce
<1>3. /\ j \in Range(queue) /\ queue' \in Seq(Jobs) /\ IsInjective(queue')
      /\ Range(queue') = Range(queue) \ {j} /\ j \in Jobs /\ j # None
  BY <1>1, <1>2, QueueHead, Types
<1>4. /\ idlers' \in Seq(Workers) /\ IsInjective(idlers')
      /\ Range(idlers') = Range(idlers) \ {w}
      /\ Counts(idle', idlers') /\ idle' \in Nat
      /\ next' \in [Workers -> Workers \cup {None}]
      /\ \A v \in Workers : next'[v] \in Range(idlers) \cup {None, next[v]}
  BY <1>1, <1>2, StopsWaitingIs
<1> HIDE DEF j
<1>5. TypeOK'
  BY <1>1, <1>3, <1>4 DEF PoolInv, TypeOK, callVars, stopVars, WorkerPlaces
<1>6. /\ wpc[w] \notin {"new", "gone", "running"}
      /\ \A v \in Workers : v # w => wpc'[v] = wpc[v] /\ running'[v] = running[v]
      /\ wpc'[w] = "running" /\ running'[w] = j
  BY <1>1, <1>2 DEF AtLoop, Awake
<1>7. ThreadsKnown'
  <2>1. Alive' = Alive
    BY <1>6 DEF Alive
  <2> QED BY <1>1, <1>6, <2>1 DEF PoolInv, ThreadsKnown
<1>8. ListTrue'
  BY <1>1, <1>4, <1>6 DEF PoolInv, ListTrue, Resting, Awake
<1>9. PointersKnown'
  <2>1. \A v \in Workers \cup {None} : Visited(v) => Visited(v)'
    BY <1>6 DEF Visited
  <2>2. \A v \in Range(idlers) : v \in Workers /\ Visited(v)
    BY <1>2, RangeIs DEF ListTrue, Resting, Awake, Visited, TypeOK
  <2>3. \A v \in Workers : Visited(next[v])'
    BY <1>2, <1>4, <2>1, <2>2 DEF PoolInv, PointersKnown, TypeOK, Visited
  <2>4. iter' = iter
    BY <1>1 DEF callVars
  <2> QED BY <2>1, <2>3, <2>4, <1>2 DEF PoolInv, PointersKnown, TypeOK
<1>10. OwnersKnown'
  BY <1>1, <1>6 DEF PoolInv, OwnersKnown, SignalComing, callVars
<1>11. QueueSeen'
  <2>1. Looks(w)'
    BY <1>6 DEF Looks
  <2> QED BY <2>1 DEF QueueSeen
<1>12. JobsKnown'
  <2>1. running[w] = None /\ j \notin Held(running) /\ Once(running)
    BY <1>3, <1>6 DEF PoolInv, JobsKnown, JobsOnce, JobsApart
  <2>2. Held(own)' = Held(own) /\ Once(own)'
    BY <1>1 DEF Held, PoolInv, JobsKnown, JobsOnce, Once
  <2>3. \A v \in Workers : running[v] # j
    BY <1>3, <2>1 DEF Held
  <2>4. Once(running)'
    BY <1>2, <1>6, <2>1, <2>3 DEF Once
  <2>5. Held(running)' = Held(running) \cup {j}
    BY <1>3, <1>2, <1>6, <2>1 DEF Held
  <2>6. \A v \in Workers : running'[v] # None <=> wpc'[v] = "running"
    BY <1>3, <1>6 DEF PoolInv, JobsKnown, JobsOnce, JobsApart
  <2>7. JobsApart'
    <3> DEFINE R == Held(running) \cup {j}
    <3>1. JobsApart /\ j \in Range(queue) /\ Range(queue') = Range(queue) \ {j}
      BY <1>3 DEF PoolInv, JobsKnown
    <3>2. /\ Range(queue') \cap Held(own) = {}
          /\ (Range(queue') \cup Held(own)) \cap R = {}
      BY <3>1 DEF JobsApart
    <3>3. (Range(queue') \cup Held(own) \cup R) \cap (finished \cup lost) = {}
      BY <3>1 DEF JobsApart
    <3> HIDE DEF R
    <3>4. Held(running)' = R /\ finished \cap lost = {}
      BY <2>5, <3>1 DEF R, JobsApart
    <3> QED BY <1>1, <2>2, <3>2, <3>3, <3>4 DEF JobsApart
  <2>8. Added' = Added
    BY <1>1, <1>3, <2>2, <2>5 DEF Added
  <2> QED BY <1>1, <1>3, <2>2, <2>4, <2>6, <2>7, <2>8
          DEF PoolInv, JobsKnown, JobsOnce
<1> QED BY <1>5, <1>7, <1>8, <1>9, <1>10, <1>11, <1>12 DEF PoolInv

\* A job is over.
LEMMA FinishStep ==
    ASSUME PoolInv, NEW w \in Workers, Finish(w)
    PROVE  PoolInv'
<1>1. /\ wpc[w] = "running" /\ wpc' = [wpc EXCEPT ![w] = "back"]
      /\ finished' = finished \cup {running[w]}
      /\ running' = [running EXCEPT ![w] = None]
      /\ queue' = queue /\ own' = own /\ added' = added /\ lost' = lost
      /\ born' = born /\ count' = count /\ failed' = failed
      /\ idlers' = idlers /\ idle' = idle /\ next' = next
      /\ UNCHANGED << callVars, stopVars >>
  BY DEF Finish, At, listVars
<1>2. /\ running \in [Workers -> Jobs \cup {None}]
      /\ wpc \in [Workers -> WorkerPlaces] /\ running[w] # None
      /\ running[w] \in Jobs
  BY <1>1 DEF PoolInv, TypeOK, JobsKnown, JobsOnce
<1>3. TypeOK'
  BY <1>1, <1>2 DEF PoolInv, TypeOK, callVars, stopVars, WorkerPlaces, AtLoop
<1>4. /\ \A v \in Workers : v # w => wpc'[v] = wpc[v] /\ running'[v] = running[v]
      /\ wpc'[w] = "back" /\ running'[w] = None
  BY <1>1, <1>2
<1>5. ThreadsKnown'
  <2>1. Alive' = Alive
    BY <1>1, <1>4 DEF Alive
  <2> QED BY <1>1, <1>4, <2>1 DEF PoolInv, ThreadsKnown
<1>6. ListTrue'
  BY <1>1, <1>4 DEF PoolInv, ListTrue, Resting, Awake
<1>7. PointersKnown'
  BY <1>1, <1>3, <1>4 DEF PoolInv, PointersKnown, Visited, callVars, TypeOK
<1>8. OwnersKnown'
  BY <1>1, <1>4 DEF PoolInv, OwnersKnown, SignalComing, callVars
<1>9. QueueSeen'
  <2>1. Looks(w)'
    BY <1>4 DEF Looks
  <2> QED BY <2>1 DEF QueueSeen
<1>10. JobsKnown'
  <2>1. Once(running)' /\ Held(running)' = Held(running) \ {running[w]}
    BY <1>2, <1>4 DEF Once, Held, PoolInv, JobsKnown, JobsOnce
  <2>2. running[w] \in Held(running)
    BY <1>2 DEF Held
  <2>3. Held(own)' = Held(own) /\ Once(own)'
    BY <1>1 DEF Held, PoolInv, JobsKnown, JobsOnce, Once
  <2>4. \A v \in Workers : running'[v] # None <=> wpc'[v] = "running"
    BY <1>4 DEF PoolInv, JobsKnown, JobsOnce
  <2>5. JobsApart'
    <3> DEFINE R == Held(running) \ {running[w]}
               F == finished \cup {running[w]}
    <3>1. JobsApart /\ running[w] \in Held(running)
      BY <2>2 DEF PoolInv, JobsKnown
    <3>2. /\ Range(queue) \cap Held(own) = {}
          /\ (Range(queue) \cup Held(own)) \cap R = {}
      BY <3>1 DEF JobsApart
    <3>3. /\ (Range(queue) \cup Held(own) \cup R) \cap (F \cup lost) = {}
          /\ F \cap lost = {}
      BY <3>1 DEF JobsApart
    <3> HIDE DEF R, F
    <3>4. Held(running)' = R /\ finished' = F
      BY <1>1, <2>1 DEF R, F
    <3> QED BY <1>1, <2>3, <3>2, <3>3, <3>4 DEF JobsApart
  <2>6. Added' = Added
    BY <1>1, <2>1, <2>2, <2>3 DEF Added
  <2> QED BY <1>1, <2>1, <2>3, <2>4, <2>5, <2>6
          DEF PoolInv, JobsKnown, JobsOnce
<1> QED BY <1>3, <1>5, <1>6, <1>7, <1>8, <1>9, <1>10 DEF PoolInv

\* Nothing happens to the jobs, and no worker starts or ends one.
LEMMA JobsStay ==
    ASSUME JobsKnown, UNCHANGED jobVars,
           \A w \in Workers : wpc'[w] = "running" <=> wpc[w] = "running"
    PROVE  JobsKnown'
<1>1. /\ queue' = queue /\ own' = own /\ running' = running /\ added' = added
      /\ finished' = finished /\ lost' = lost
  BY DEF jobVars
<1>2. Held(own)' = Held(own) /\ Held(running)' = Held(running)
  BY <1>1 DEF Held
<1>3. JobsOnce'
  BY <1>1 DEF JobsKnown, JobsOnce, Once
<1>4. JobsApart'
  BY <1>1, <1>2 DEF JobsKnown, JobsApart
<1>5. Added' = Added
  BY <1>1, <1>2 DEF Added
<1> QED BY <1>1, <1>3, <1>4, <1>5 DEF JobsKnown

\* A worker enters the list.
LEMMA GoIdleStep ==
    ASSUME PoolInv, NEW w \in Workers, GoIdle(w)
    PROVE  PoolInv'
<1>1. /\ wpc[w] \in {"starting", "back"} /\ wpc' = [wpc EXCEPT ![w] = "waiting"]
      /\ own[w] = None /\ queue = << >>
      /\ idlers' = << w >> \o idlers /\ idle' = idle + 1 /\ next' = next
      /\ born' = born /\ count' = count /\ failed' = failed
      /\ UNCHANGED << jobVars, callVars, stopVars >>
  BY DEF GoIdle, At, NoJob
<1>2. /\ queue' = queue /\ own' = own /\ iter' = iter
      /\ wpc \in [Workers -> WorkerPlaces] /\ idlers \in Seq(Workers)
      /\ idle \in Nat /\ ListTrue /\ IsInjective(idlers)
  BY <1>1 DEF jobVars, callVars, PoolInv, TypeOK, ListTrue
<1>3. /\ \A v \in Workers : v # w => wpc'[v] = wpc[v]
      /\ wpc'[w] = "waiting" /\ ~ Resting(w)
  BY <1>1, <1>2 DEF Resting, Awake
<1>4. w \notin Range(idlers)
  BY <1>3 DEF PoolInv, ListTrue
<1> DEFINE u == << w >> \o idlers
<1>5. /\ u \in Seq(Workers) /\ Len(u) = Len(idlers) + 1 /\ Len(idlers) \in Nat
      /\ u[1] = w /\ \A i \in 1..Len(u) : i # 1 => u[i] = idlers[i - 1]
  BY <1>2
<1>6. /\ DOMAIN idlers = 1..Len(idlers)
      /\ Range(idlers) = {idlers[i] : i \in 1..Len(idlers)}
  BY <1>2, RangeIs
<1> HIDE DEF u
<1>7. DOMAIN u = 1..Len(u) /\ Range(u) = {u[i] : i \in 1..Len(u)}
  BY <1>5, RangeIs
<1>8. \A i \in 1..Len(u) : i # 1 => i - 1 \in 1..Len(idlers)
  BY <1>5
<1>9. Range(u) = Range(idlers) \cup {w}
  <2>1. Range(u) \subseteq Range(idlers) \cup {w}
    BY <1>5, <1>6, <1>7, <1>8
  <2>2. w \in Range(u)
    BY <1>5, <1>7
  <2>3. ASSUME NEW i \in 1..Len(idlers) PROVE idlers[i] \in Range(u)
    <3>1. i + 1 \in 1..Len(u) /\ i + 1 # 1 /\ (i + 1) - 1 = i
      BY <1>5
    <3> QED BY <1>5, <1>7, <3>1
  <2> QED BY <1>6, <2>1, <2>2, <2>3
<1>10. IsInjective(u)
  <2>1. \A i \in 1..Len(u) : i # 1 => u[i] \in Range(idlers)
    BY <1>5, <1>6, <1>8
  <2>2. \A i, j \in 1..Len(u) :
           u[i] = u[j] => (i = 1 <=> j = 1)
    BY <1>4, <1>5, <2>1
  <2>3. \A i, j \in 1..Len(u) :
           u[i] = u[j] /\ i # 1 /\ j # 1 => i - 1 = j - 1
    BY <1>2, <1>5, <1>6, <1>8 DEF IsInjective
  <2>4. \A i, j \in 1..Len(u) : i \in Int /\ (i - 1 = j - 1 => i = j)
    OBVIOUS
  <2>5. \A i, j \in 1..Len(u) : u[i] = u[j] => i = j
    BY <2>2, <2>3, <2>4
  <2> QED BY <1>7, <2>5 DEF IsInjective
<1>11. idlers' = u
  BY <1>1 DEF u
<1>12. TypeOK'
  BY <1>1, <1>2, <1>5, <1>11
     DEF PoolInv, TypeOK, jobVars, callVars, stopVars, WorkerPlaces
<1>13. ThreadsKnown'
  <2>1. Alive' = Alive
    BY <1>1, <1>3 DEF Alive
  <2> QED BY <1>1, <1>3, <2>1 DEF PoolInv, ThreadsKnown
<1>14. ListTrue'
  <2>1. \A v \in Workers : v \in Range(u) <=> Resting(v)' /\ own'[v] = None
    BY <1>1, <1>2, <1>3, <1>9 DEF ListTrue, Resting, Awake
  <2>2. Counts(idle', u)
    BY <1>1, <1>2, <1>5 DEF ListTrue, Counts
  <2> QED BY <1>10, <1>11, <2>1, <2>2 DEF ListTrue
<1>15. PointersKnown'
  BY <1>1, <1>2, <1>3, <1>12 DEF PoolInv, PointersKnown, Visited, TypeOK
<1>16. OwnersKnown'
  BY <1>1, <1>2, <1>3 DEF PoolInv, OwnersKnown, SignalComing, callVars
<1>17. QueueSeen'
  BY <1>1, <1>2 DEF QueueSeen
<1>18. JobsKnown'
  BY <1>1, <1>3, JobsStay DEF PoolInv
<1> QED BY <1>12, <1>13, <1>14, <1>15, <1>16, <1>17, <1>18 DEF PoolInv

\* One thread less is alive.
LEMMA OneEnds ==
    ASSUME TypeOK, ThreadsKnown, NEW w \in Workers, wpc[w] \in AtLoop,
           wpc' = [wpc EXCEPT ![w] = "gone"], count' = count - 1, born' = born
    PROVE  ThreadsKnown' /\ Alive' = Alive \ {w} /\ count' \in 0..Parallelism
<1>1. wpc[w] \notin {"new", "gone"} /\ w \in Alive
  BY DEF AtLoop, Awake, Alive
<1>2. \A v \in Workers : wpc'[v] = IF v = w THEN "gone" ELSE wpc[v]
  BY DEF TypeOK
<1>3. Alive' = Alive \ {w}
  BY <1>2 DEF Alive
<1>4. IsFiniteSet(Alive)
  BY Types
<1>5. Cardinality(Alive') = Cardinality(Alive) - 1
  BY <1>1, <1>3, <1>4, FS_RemoveElement
<1>6. Cardinality(Alive) # 0 /\ Cardinality(Alive) \in Nat
  BY <1>1, <1>4, FS_EmptySet, FS_CardinalityType
<1>7. count' \in 0..Parallelism
  BY <1>6, ParallelismAssumption DEF TypeOK, ThreadsKnown, ParallelismAssumption
<1> QED BY <1>1, <1>2, <1>3, <1>5, <1>7 DEF ThreadsKnown

\* A thread ends.
LEMMA ExitStep ==
    ASSUME PoolInv, NEW w \in Workers, Exit(w)
    PROVE  PoolInv'
<1>1. /\ wpc[w] \in AtLoop /\ wpc' = [wpc EXCEPT ![w] = "gone"]
      /\ own[w] = None /\ queue = << >> /\ StopsWaiting(w) /\ count' = count - 1
      /\ born' = born /\ failed' = failed /\ quit' = quit
      /\ stopper' \in {stopper, "signaled"}
      /\ UNCHANGED << jobVars, callVars >>
  BY DEF Exit, At, MayExit, NoJob, StopperSignaled
<1>2. /\ queue' = queue /\ own' = own /\ iter' = iter
      /\ TypeOK /\ ListTrue /\ wpc \in [Workers -> WorkerPlaces]
  BY <1>1 DEF jobVars, callVars, PoolInv, TypeOK
<1>3. /\ idlers' \in Seq(Workers) /\ IsInjective(idlers')
      /\ Range(idlers') = Range(idlers) \ {w}
      /\ Counts(idle', idlers') /\ idle' \in Nat
      /\ next' \in [Workers -> Workers \cup {None}]
      /\ \A v \in Workers : next'[v] \in Range(idlers) \cup {None, next[v]}
  BY <1>1, <1>2, StopsWaitingIs
<1>4. /\ \A v \in Workers : v # w => wpc'[v] = wpc[v]
      /\ wpc'[w] = "gone" /\ wpc[w] # "running"
  BY <1>1, <1>2 DEF AtLoop, Awake
<1>5. ThreadsKnown' /\ count' \in 0..Parallelism
  BY <1>1, OneEnds DEF PoolInv
<1>6. TypeOK'
  BY <1>1, <1>3, <1>5 DEF PoolInv, TypeOK, jobVars, callVars, WorkerPlaces
<1>7. ListTrue'
  BY <1>1, <1>2, <1>3, <1>4 DEF ListTrue, Resting, Awake
<1>8. PointersKnown'
  <2>1. \A v \in Workers \cup {None} : Visited(v) => Visited(v)'
    BY <1>4 DEF Visited
  <2>2. \A v \in Range(idlers) : v \in Workers /\ Visited(v)
    BY <1>2, RangeIs DEF ListTrue, Resting, Awake, Visited, TypeOK
  <2>3. \A v \in Workers : Visited(next[v])'
    BY <1>2, <1>3, <2>1, <2>2 DEF PoolInv, PointersKnown, TypeOK, Visited
  <2> QED BY <2>1, <2>3, <1>2 DEF PoolInv, PointersKnown, TypeOK
<1>9. OwnersKnown'
  BY <1>1, <1>2, <1>4 DEF PoolInv, OwnersKnown, SignalComing, callVars
<1>10. QueueSeen'
  BY <1>1, <1>2 DEF QueueSeen
<1>11. JobsKnown'
  BY <1>1, <1>4, JobsStay DEF PoolInv
<1> QED BY <1>5, <1>6, <1>7, <1>8, <1>9, <1>10, <1>11 DEF PoolInv

\* A thread ends before it has come to the loop.
LEMMA InitFailsStep ==
    ASSUME PoolInv, NEW w \in Workers, InitFails(w)
    PROVE  PoolInv'
<1>1. /\ wpc[w] = "starting" /\ wpc' = [wpc EXCEPT ![w] = "gone"]
      /\ count' = count - 1 /\ failed' = failed \cup {"init"}
      /\ "init" \in Failures /\ born' = born
      /\ idlers' = idlers /\ idle' = idle /\ next' = next
      /\ UNCHANGED << jobVars, callVars, stopVars >>
  BY DEF InitFails, At, listVars
<1>2. /\ queue' = queue /\ own' = own /\ iter' = iter
      /\ TypeOK /\ wpc \in [Workers -> WorkerPlaces]
  BY <1>1 DEF jobVars, callVars, PoolInv, TypeOK
<1>3. \A v \in Workers : wpc'[v] = IF v = w THEN "gone" ELSE wpc[v]
  BY <1>1, <1>2
<1>4. ThreadsKnown' /\ Alive' = Alive \ {w} /\ count' \in 0..Parallelism
  BY <1>1, OneEnds DEF PoolInv, AtLoop
<1>5. TypeOK'
  BY <1>1, <1>4 DEF PoolInv, TypeOK, jobVars, callVars, stopVars, WorkerPlaces
<1>6. ListTrue'
  BY <1>1, <1>2, <1>3 DEF PoolInv, ListTrue, Resting, Awake
<1>7. PointersKnown'
  BY <1>1, <1>2, <1>3 DEF PoolInv, PointersKnown, Visited, TypeOK
<1>8. OwnersKnown'
  BY <1>1, <1>2, <1>3 DEF PoolInv, OwnersKnown, SignalComing, callVars
<1>9. QueueSeen'
  <2>1. \A v \in Workers : Looks(v) => Looks(v)'
    BY <1>1, <1>2, <1>3 DEF Looks, Awake
  <2>2. (\A v \in Alive : wpc[v] = "starting")
           => \A v \in Alive' : wpc'[v] = "starting"
    BY <1>3, <1>4 DEF Alive
  <2>3. failed' # {}
    BY <1>1
  <2> QED BY <1>2, <2>1, <2>2, <2>3 DEF PoolInv, QueueSeen
<1>10. JobsKnown'
  BY <1>1, <1>3, JobsStay DEF PoolInv
<1> QED BY <1>4, <1>5, <1>6, <1>7, <1>8, <1>9, <1>10 DEF PoolInv

-----------------------------------------------------------------------------
(* The steps of the producers, and of who stops the pool *)

\* The first idle worker gets a job.
LEMMA DeliverStep ==
    ASSUME PoolInv, NEW p \in Producers, Deliver(p)
    PROVE  PoolInv'
<1>0. PICK w : w = Head(idlers)
  OBVIOUS
<1>1. /\ ppc[p] = "idle" /\ ppc' = [ppc EXCEPT ![p] = "signal"]
      /\ added < MaxJobs /\ idlers # << >> /\ own[w] = None
      /\ added' = added + 1 /\ own' = [own EXCEPT ![w] = added + 1]
      /\ Unlink({w}) /\ idle' = idle - 1
      /\ target' = [target EXCEPT ![p] = w]
      /\ queue' = queue /\ running' = running /\ finished' = finished
      /\ lost' = lost /\ iter' = iter
      /\ UNCHANGED << threadVars, stopVars >>
  BY <1>0 DEF Deliver, Goes, CanDeliver, LeaveIdle
<1>2. /\ TypeOK /\ ListTrue /\ idlers \in Seq(Workers) /\ IsInjective(idlers)
      /\ idle \in Nat /\ Counts(idle, idlers) /\ added \in 0..MaxJobs
      /\ own \in [Workers -> Jobs \cup {None}]
      /\ target \in [Producers -> Workers \cup {None}]
      /\ ppc \in [Producers -> {"idle", "signal", "batch", "clear"}]
  BY DEF PoolInv, TypeOK, ListTrue
<1>3. w \in Range(idlers) /\ w \in Workers
  BY <1>0, <1>1, <1>2, RangeIs
<1>4. Resting(w)
  BY <1>3 DEF PoolInv, ListTrue
<1>5. /\ idlers' \in Seq(Workers) /\ IsInjective(idlers')
      /\ Range(idlers') = Range(idlers) \ {w}
      /\ Len(idlers') = Len(idlers) - Cardinality({w} \cap Range(idlers))
      /\ Len(idlers) \in Nat
      /\ next' \in [Workers -> Workers \cup {None}]
      /\ \A v \in Workers : next'[v] \in Range(idlers) \cup {None, next[v]}
  BY <1>1, <1>2, <1>3, UnlinkLemma
<1>6. Len(idlers') = Len(idlers) - 1 /\ Len(idlers') \in Nat
  <2>1. {w} \cap Range(idlers) = {w}
    BY <1>3
  <2> QED BY <1>5, <2>1, FS_Singleton, RangeIs
<1>7. Counts(idle', idlers') /\ idle' \in Nat
  BY <1>1, <1>2, <1>5, <1>6 DEF Counts
<1>8. /\ added + 1 \in Jobs /\ added + 1 # None /\ added' \in 0..MaxJobs
      /\ added \in Nat
  BY <1>1, <1>2, BoundsAssumption, Types DEF Jobs, BoundsAssumption
<1>9. TypeOK'
  BY <1>1, <1>2, <1>3, <1>5, <1>7, <1>8
     DEF PoolInv, TypeOK, threadVars, stopVars
<1>10. /\ wpc' = wpc /\ born' = born /\ count' = count /\ failed' = failed
       /\ \A v \in Workers : v # w => own'[v] = own[v]
       /\ own'[w] = added + 1
  BY <1>1, <1>2, <1>3 DEF threadVars
<1>11. ThreadsKnown'
  BY <1>10 DEF PoolInv, ThreadsKnown, Alive
<1>12. ListTrue'
  <2>1. \A v \in Workers :
           v \in Range(idlers)' <=> Resting(v)' /\ own'[v] = None
    BY <1>5, <1>8, <1>10 DEF PoolInv, ListTrue, Resting
  <2> QED BY <1>5, <1>7, <2>1 DEF ListTrue
<1>13. PointersKnown'
  <2>1. \A v \in Workers \cup {None} : Visited(v) => Visited(v)'
    BY <1>10 DEF Visited
  <2>2. \A v \in Range(idlers) : v \in Workers /\ Visited(v)
    BY <1>2, RangeIs DEF ListTrue, Resting, Awake, Visited
  <2>3. \A v \in Workers : Visited(next[v])'
    BY <1>2, <1>5, <2>1, <2>2 DEF PoolInv, PointersKnown, TypeOK, Visited
  <2> QED BY <1>1, <1>2, <2>1, <2>3 DEF PoolInv, PointersKnown, TypeOK
<1>14. OwnersKnown'
  <2>1. SignalComing(w)' /\ \A v : SignalComing(v) => SignalComing(v)'
    BY <1>1, <1>2 DEF SignalComing
  <2>2. wpc[w] \notin {"new", "starting", "gone"}
    BY <1>4 DEF Resting, Awake
  <2> QED BY <1>10, <2>1, <2>2 DEF PoolInv, OwnersKnown
<1>15. QueueSeen'
  <2>1. Looks(w)'
    BY <1>8, <1>10 DEF Looks
  <2> QED BY <1>3, <2>1 DEF QueueSeen
<1>16. JobsKnown'
  <2>1. added + 1 \notin Added
    BY <1>8 DEF PoolInv, JobsKnown
  <2>2. Held(own)' = Held(own) \cup {added + 1}
    BY <1>1, <1>2, <1>3, <1>8, <1>10 DEF Held
  <2>3. Once(own)'
    <3>1. \A v \in Workers : own[v] # added + 1
      BY <1>8, <2>1 DEF Held, Added
    <3> QED BY <1>8, <1>10, <3>1 DEF Once, PoolInv, JobsKnown, JobsOnce
  <2>4. Held(running)' = Held(running)
    BY <1>1 DEF Held
  <2>5. JobsOnce'
    BY <1>1, <1>10, <2>3 DEF PoolInv, JobsKnown, JobsOnce, Once
  <2>6. JobsApart'
    <3>1. added + 1 \notin Range(queue) \cup Held(running) \cup finished \cup lost
      BY <2>1 DEF Added
    <3>2. /\ Range(queue) \cap (Held(own) \cup {added + 1}) = {}
          /\ (Range(queue) \cup Held(own) \cup {added + 1}) \cap Held(running) = {}
      BY <3>1 DEF PoolInv, JobsKnown, JobsApart
    <3>3. (Range(queue) \cup Held(own) \cup {added + 1} \cup Held(running))
             \cap (finished \cup lost) = {}
      BY <3>1 DEF PoolInv, JobsKnown, JobsApart
    <3> QED BY <1>1, <2>2, <2>4, <3>2, <3>3 DEF PoolInv, JobsKnown, JobsApart
  <2>7. Added' = Added \cup {added + 1}
    BY <1>1, <2>2, <2>4 DEF Added
  <2>8. (1..added) \cup {added + 1} = 1..added + 1
    BY <1>8
  <2> QED BY <1>1, <2>5, <2>6, <2>7, <2>8 DEF PoolInv, JobsKnown
<1> QED BY <1>9, <1>11, <1>12, <1>13, <1>14, <1>15, <1>16 DEF PoolInv

\* The signal for a worker that was given a job.
LEMMA DeliverSignalStep ==
    ASSUME PoolInv, NEW p \in Producers, DeliverSignal(p)
    PROVE  PoolInv'
<1>1. /\ ppc[p] = "signal" /\ ppc' = [ppc EXCEPT ![p] = "idle"]
      /\ wpc' = Signaled({target[p]})
      /\ target' = [target EXCEPT ![p] = None] /\ iter' = iter
      /\ UNCHANGED << jobVars, listVars, born, count, failed, stopVars >>
  BY DEF DeliverSignal, Goes, Delivered
<1>2. /\ wpc \in [Workers -> WorkerPlaces]
      /\ target \in [Producers -> Workers \cup {None}]
      /\ ppc \in [Producers -> {"idle", "signal", "batch", "clear"}]
  BY DEF PoolInv, TypeOK
<1>3. \A w \in Workers :
         wpc'[w] = IF w = target[p] /\ wpc[w] = "waiting"
                   THEN "signaled" ELSE wpc[w]
  BY <1>1 DEF Signaled
<1>4. wpc' \in [Workers -> WorkerPlaces]
  BY <1>1, <1>2 DEF Signaled, WorkerPlaces, AtLoop, Awake
<1>5. TypeOK'
  BY <1>1, <1>2, <1>4 DEF PoolInv, TypeOK, jobVars, listVars, stopVars
<1>6. /\ ThreadsKnown' /\ ListTrue' /\ QueueSeen' /\ JobsKnown'
      /\ \A v \in Workers \cup {None} : Visited(v) => Visited(v)'
  BY <1>1, <1>3, <1>4, RestStep DEF Resting, Awake
<1>7. PointersKnown'
  BY <1>1, <1>5, <1>6 DEF PoolInv, TypeOK, PointersKnown, listVars
<1>8. OwnersKnown'
  <2>1. \A v \in Workers :
           SignalComing(v) /\ v # target[p] => SignalComing(v)'
    BY <1>1, <1>2 DEF SignalComing
  <2>2. \A v \in Workers : wpc'[v] = "waiting"
                              => v # target[p] /\ wpc[v] = "waiting"
    BY <1>3
  <2>3. \A v \in Workers, x \in {"new", "starting", "gone"} :
           wpc'[v] = x => wpc[v] = x
    BY <1>3
  <2> QED BY <1>1, <2>1, <2>2, <2>3 DEF PoolInv, OwnersKnown, jobVars
<1> QED BY <1>5, <1>6, <1>7, <1>8 DEF PoolInv

\* Nobody is in the list: who is past its start will look for jobs.
LEMMA NobodyListed ==
    ASSUME TypeOK, ListTrue, Range(idlers) = {}, NEW v \in Alive,
           wpc[v] # "starting"
    PROVE  Looks(v)
<1>1. v \in Workers /\ wpc[v] \in WorkerPlaces /\ wpc[v] \notin {"new", "gone"}
  BY DEF Alive, TypeOK
<1>2. CASE wpc[v] = "waiting"
  BY <1>1, <1>2 DEF ListTrue, Resting, Looks
<1>3. CASE wpc[v] # "waiting"
  BY <1>1, <1>3 DEF WorkerPlaces, AtLoop, Looks
<1> QED BY <1>2, <1>3

\* A job goes to the queue, when nobody is in the list.
LEMMA EnqueueStep ==
    ASSUME PoolInv, NEW p \in Producers, Enqueue(p)
    PROVE  PoolInv'
<1>1. /\ added < MaxJobs /\ ~ CanDeliver /\ added' = added + 1
      /\ queue' = Append(queue, added + 1) /\ Create(1, {})
      /\ own' = own /\ running' = running /\ finished' = finished /\ lost' = lost
      /\ idlers' = idlers /\ idle' = idle /\ next' = next
      /\ UNCHANGED << callVars, stopVars >>
  BY DEF Enqueue, listVars
<1>2. /\ TypeOK /\ ThreadsKnown /\ ListTrue /\ idlers \in Seq(Workers)
      /\ queue \in Seq(Jobs) /\ added \in 0..MaxJobs
      /\ wpc \in [Workers -> WorkerPlaces]
      /\ iter \in Workers \cup {None}
      /\ next \in [Workers -> Workers \cup {None}]
  BY DEF PoolInv, TypeOK
<1>3. Range(idlers) = {}
  <2>1. ASSUME idlers # << >> PROVE FALSE
    <3>1. Head(idlers) \in Range(idlers) /\ Head(idlers) \in Workers
      BY <1>2, <2>1, RangeIs
    <3> QED BY <1>1, <2>1, <3>1 DEF CanDeliver, PoolInv, ListTrue
  <2> QED BY <1>2, <2>1, RangeIs
<1>4. /\ ThreadsKnown'
      /\ wpc' \in [Workers -> WorkerPlaces] /\ born' \in 0..MaxThreads
      /\ count' \in 0..Parallelism /\ failed' \subseteq Failures
      /\ failed \subseteq failed'
      /\ \A w \in Workers :
            IF wpc[w] = "new" THEN wpc'[w] \in {"new", "starting"}
            ELSE wpc'[w] = Signaled({})[w]
      /\ Alive = {} => Alive' # {} \/ failed' # {}
  <2>1. 1 \in Nat /\ {} \in SUBSET Workers /\ 1 > 0
    OBVIOUS
  <2> QED BY <1>1, <1>2, <2>1, CreateLemma
<1>5. \A w \in Workers :
         IF wpc[w] = "new" THEN wpc'[w] \in {"new", "starting"}
         ELSE wpc'[w] = wpc[w]
  BY <1>4 DEF Signaled
<1>6. /\ added + 1 \in Jobs /\ added + 1 # None /\ added' \in 0..MaxJobs
      /\ added \in Nat
  BY <1>1, <1>2, BoundsAssumption, Types DEF Jobs, BoundsAssumption
<1>7. TypeOK'
  BY <1>1, <1>4, <1>6 DEF PoolInv, TypeOK, callVars, stopVars
<1>8. ListTrue'
  BY <1>1, <1>5 DEF PoolInv, ListTrue, Resting, Awake
<1>9. PointersKnown'
  <2>1. \A v \in Workers \cup {None} : Visited(v) => Visited(v)'
    BY <1>5 DEF Visited
  <2> QED BY <1>1, <1>2, <2>1 DEF PoolInv, PointersKnown, callVars
<1>10. OwnersKnown'
  BY <1>1, <1>5 DEF PoolInv, OwnersKnown, SignalComing, callVars
<1>11. QueueSeen'
  <2>1. ASSUME NEW v \in Alive, wpc[v] # "starting"
        PROVE  v \in Workers /\ Looks(v)'
    <3>1. v \in Workers /\ wpc'[v] = wpc[v] /\ Looks(v)
      BY <1>2, <1>3, <1>5, <2>1, NobodyListed DEF Alive
    <3> QED BY <1>1, <3>1 DEF Looks
  <2>2. ASSUME \A v \in Alive : wpc[v] = "starting"
        PROVE  \A v \in Alive' : wpc'[v] = "starting"
    BY <1>5, <2>2 DEF Alive
  <2>3. Alive # {} => Alive' # {}
    BY <1>5 DEF Alive
  <2> QED BY <1>4, <2>1, <2>2, <2>3 DEF QueueSeen
<1>12. JobsKnown'
  <2>1. added + 1 \notin Added
    BY <1>6 DEF PoolInv, JobsKnown
  <2>2. Range(queue') = Range(queue) \cup {added + 1} /\ IsInjective(queue')
    <3>1. /\ queue' \in Seq(Jobs) /\ Len(queue') = Len(queue) + 1
          /\ Len(queue) \in Nat /\ queue'[Len(queue) + 1] = added + 1
          /\ \A i \in 1..Len(queue) : queue'[i] = queue[i]
      BY <1>1, <1>2, <1>6
    <3>2. /\ DOMAIN queue = 1..Len(queue) /\ DOMAIN queue' = 1..Len(queue')
          /\ Range(queue) = {queue[i] : i \in 1..Len(queue)}
          /\ Range(queue') = {queue'[i] : i \in 1..Len(queue')}
      BY <1>2, <3>1, RangeIs
    <3>3. 1..Len(queue') = (1..Len(queue)) \cup {Len(queue) + 1}
      BY <3>1
    <3>4. \A i \in 1..Len(queue) : queue[i] # added + 1
      BY <2>1, <3>2 DEF Added
    <3>5. Range(queue') = Range(queue) \cup {added + 1}
      BY <3>1, <3>2, <3>3
    <3>6. IsInjective(queue)
      BY DEF PoolInv, JobsKnown, JobsOnce
    <3> QED BY <3>1, <3>2, <3>3, <3>4, <3>5, <3>6 DEF IsInjective
  <2>3. Held(own)' = Held(own) /\ Held(running)' = Held(running)
    BY <1>1 DEF Held
  <2>4. \A v \in Workers : wpc'[v] = "running" <=> wpc[v] = "running"
    BY <1>5
  <2>5. JobsOnce'
    BY <1>1, <2>2, <2>4 DEF PoolInv, JobsKnown, JobsOnce, Once
  <2>6. JobsApart'
    BY <1>1, <2>1, <2>2, <2>3 DEF PoolInv, JobsKnown, JobsApart, Added
  <2>7. Added' = Added \cup {added + 1}
    BY <1>1, <2>2, <2>3 DEF Added
  <2>8. (1..added) \cup {added + 1} = 1..added + 1
    BY <1>6
  <2> QED BY <1>1, <2>5, <2>6, <2>7, <2>8 DEF PoolInv, JobsKnown
<1> QED BY <1>4, <1>7, <1>8, <1>9, <1>10, <1>11, <1>12 DEF PoolInv

\* The beginning of a batch, its end, and the end of a wait in
\* acl_pthread_pool_stop.
LEMMA QuietStep ==
    ASSUME PoolInv,
           StopEnds \/ \E p \in Producers : BatchBegin(p) \/ BatchClear(p)
    PROVE  PoolInv'
<1>1. /\ UNCHANGED << jobVars, listVars, threadVars, target, quit >>
      /\ iter' \in {iter, None} \cup Range(idlers)
      /\ \/ ppc' = ppc
         \/ \E p \in Producers, x \in {"batch", "clear", "idle"} :
               ppc[p] # "signal" /\ ppc' = [ppc EXCEPT ![p] = x]
      /\ stopper' \in {stopper, "done", "waiting"}
  <2>1. idlers # << >> => Head(idlers) \in Range(idlers)
    BY RangeIs DEF PoolInv, TypeOK
  <2> QED BY <2>1 DEF BatchBegin, BatchClear, StopEnds, Goes, callVars, stopVars
<1>2. wpc' = wpc /\ born' = born /\ count' = count /\ failed' = failed
  BY <1>1 DEF threadVars
<1>3. Range(idlers) \subseteq Workers
  BY Types DEF PoolInv
<1>4. TypeOK'
  BY <1>1, <1>2, <1>3 DEF PoolInv, TypeOK, jobVars, listVars
<1>5. /\ ThreadsKnown' /\ ListTrue' /\ QueueSeen' /\ JobsKnown'
      /\ \A v \in Workers \cup {None} : Visited(v) => Visited(v)'
  BY <1>1, <1>2, RestStep DEF PoolInv, TypeOK
<1>6. \A v \in Range(idlers) : Visited(v)
  BY <1>3 DEF PoolInv, ListTrue, Resting, Awake, Visited
<1>7. PointersKnown'
  <2>1. Visited(iter')
    BY <1>1, <1>6 DEF PoolInv, PointersKnown, Visited
  <2>2. Visited(iter)'
    BY <1>2, <2>1 DEF Visited
  <2>3. \A v \in Workers : next'[v] = next[v] /\ next[v] \in Workers \cup {None}
    BY <1>1 DEF listVars, PoolInv, TypeOK
  <2> QED BY <1>5, <2>2, <2>3 DEF PoolInv, PointersKnown
<1>8. OwnersKnown'
  <2>1. \A v : SignalComing(v) => SignalComing(v)'
    BY <1>1 DEF SignalComing, PoolInv, TypeOK
  <2>2. own' = own
    BY <1>1 DEF jobVars
  <2> QED BY <1>2, <2>1, <2>2 DEF PoolInv, OwnersKnown
<1> QED BY <1>4, <1>5, <1>7, <1>8 DEF PoolInv

\* The pool is to quit: the workers in the list are woken.
LEMMA StopStep == ASSUME PoolInv, Stop PROVE PoolInv'
<1>1. /\ quit' = TRUE /\ stopper' \in {"done", "waiting"}
      /\ wpc' = wpc \/ wpc' = Wakened
      /\ UNCHANGED << jobVars, listVars, born, count, failed, callVars >>
  BY DEF Stop
<1>2. wpc \in [Workers -> WorkerPlaces]
  BY DEF PoolInv, TypeOK
<1>3. \A w \in Workers : \/ wpc'[w] = wpc[w]
                         \/ wpc[w] = "waiting" /\ wpc'[w] = "signaled"
  BY <1>1 DEF Wakened, Signaled
<1>4. wpc' \in [Workers -> WorkerPlaces]
  BY <1>1, <1>2 DEF Wakened, Signaled, WorkerPlaces, AtLoop, Awake
<1>5. TypeOK'
  BY <1>1, <1>4 DEF PoolInv, TypeOK, jobVars, listVars, callVars
<1>6. /\ ThreadsKnown' /\ ListTrue' /\ QueueSeen' /\ JobsKnown'
      /\ \A v \in Workers \cup {None} : Visited(v) => Visited(v)'
  BY <1>1, <1>3, <1>4, RestStep DEF Resting, Awake
<1>7. PointersKnown'
  BY <1>1, <1>5, <1>6 DEF PoolInv, TypeOK, PointersKnown, listVars, callVars
<1>8. OwnersKnown'
  BY <1>1, <1>3 DEF PoolInv, OwnersKnown, SignalComing, jobVars, callVars
<1> QED BY <1>5, <1>6, <1>7, <1>8 DEF PoolInv

\* A batch of n jobs, of which c go to workers that the walk finds at the places
\* given, each place with a rank; what is left of the model's BatchAdd for the
\* proofs.
Batch(n, c, given, walk, rank) ==
    /\ n > 0 /\ c <= n /\ added + n <= MaxJobs /\ added' = added + n
    /\ \A j, k \in given : walk[j] = walk[k] => j = k
    /\ \A j, k \in given : rank[j] = rank[k] => j = k
    /\ \A i \in 1..c : \E k \in given : rank[k] = i
    /\ \A k \in given : own[walk[k]] = None /\ Visited(walk[k])
    /\ own' = [w \in Workers |->
                  IF \E k \in given : walk[k] = w /\ wpc[w] # "gone"
                  THEN added + rank[CHOOSE k \in given : walk[k] = w] ELSE own[w]]
    /\ lost' = lost \cup
           {added + rank[k] : k \in {i \in given : wpc[walk[i]] = "gone"}}
    /\ queue' = queue \o [i \in 1..n - c |-> added + c + i]
    /\ \E busy \in SUBSET Range(idlers) :
          /\ \A w \in Range(idlers) : w \in busy <=> \E k \in given : walk[k] = w
          /\ Unlink(busy)
          /\ Create(n - c, busy \cup
                    {idlers'[i] : i \in DOMAIN idlers' \cap 1..Len(queue')})
    /\ \E q \in Producers : /\ ppc[q] # "signal"
                            /\ ppc' = [ppc EXCEPT ![q] = "clear"]
    /\ UNCHANGED << running, finished, idle, iter, target, stopVars >>

\* The walk goes through threads that have been in the list.
LEMMA WalkVisits ==
    ASSUME PoolInv, NEW walk \in Walks, NEW k \in 1..MaxThreads
    PROVE  walk[k] \in Workers \cup {None} /\ Visited(walk[k])
<1>1. /\ walk \in [1..MaxThreads -> Workers \cup {None}]
      /\ \A i \in 1..MaxThreads :
            walk[i] = IF i = 1 THEN iter
                      ELSE IF walk[i - 1] = None THEN None
                      ELSE IF wpc[walk[i - 1]] = "gone" THEN None
                      ELSE Succ(walk[i - 1])
  BY DEF Walks
<1>2. \A w \in Workers : Visited(Succ(w))
  <2>1. \A w \in Range(idlers) : w \in Workers /\ Visited(w)
    BY Types DEF PoolInv, ListTrue, Resting, Awake, Visited
  <2>2. \A w \in Workers : Succ(w) \in Range(idlers) \cup {None, next[w]}
    BY SuccIs DEF PoolInv, TypeOK
  <2> QED BY <2>1, <2>2 DEF PoolInv, PointersKnown, Visited
<1>3. k # 1 => walk[k - 1] \in Workers \cup {None}
  BY <1>1, BoundsAssumption DEF BoundsAssumption
<1> QED BY <1>1, <1>2, <1>3 DEF PoolInv, PointersKnown, Visited

LEMMA BatchIs ==
    ASSUME PoolInv, NEW p \in Producers, BatchAdd(p)
    PROVE  \E n \in Nat, c \in Nat, given \in SUBSET Nat :
              \E walk \in [given -> Workers], rank \in [given -> 1..c] :
                 Batch(n, c, given, walk, rank)
<1>1. PICK n \in 1..MaxBatch, walk \in Walks :
        LET free == {k \in 1..MaxThreads :
                        /\ walk[k] # None /\ own[walk[k]] = None
                        /\ \A j \in 1..k - 1 : walk[j] # walk[k]}
            given == {k \in free : Rank(free, k) <= n}
            gone  == {k \in given : wpc[walk[k]] = "gone"}
            busy  == {walk[k] : k \in given \ gone} \cap Range(idlers)
            rest  == n - Cardinality(given)
        IN
        /\ Goes(p, "batch", "clear")
        /\ added + n <= MaxJobs
        /\ added' = added + n
        /\ own' = [w \in Workers |->
                      IF \E k \in given \ gone : walk[k] = w
                      THEN added + Rank(free, CHOOSE k \in given : walk[k] = w)
                      ELSE own[w]]
        /\ lost' = lost \cup {added + Rank(free, k) : k \in gone}
        /\ queue' = queue \o [k \in 1..rest |-> added + Cardinality(given) + k]
        /\ Unlink(busy)
        /\ Create(rest, busy \cup {idlers'[k] : k \in DOMAIN idlers'
                                                   \cap 1..Len(queue')})
        /\ UNCHANGED << running, finished, idle, iter, target, stopVars >>
  BY DEF BatchAdd
<1> DEFINE free == {k \in 1..MaxThreads :
                        /\ walk[k] # None /\ own[walk[k]] = None
                        /\ \A j \in 1..k - 1 : walk[j] # walk[k]}
           given == {k \in free : Rank(free, k) <= n}
           c == Cardinality(given)
           found == [k \in given |-> walk[k]]
           ranks == [k \in given |-> Rank(free, k)]
           gone  == {k \in given : wpc[walk[k]] = "gone"}
           busy  == {walk[k] : k \in given \ gone} \cap Range(idlers)
<1>2. n \in Nat /\ n > 0 /\ MaxThreads \in Nat
  BY BoundsAssumption DEF BoundsAssumption
<1>3. free \subseteq 1..MaxThreads
  OBVIOUS
<1>4. /\ c \in Nat /\ c <= n
      /\ \A j, k \in free : Rank(free, j) = Rank(free, k) => j = k
      /\ \A k \in given : Rank(free, k) \in 1..c
      /\ \A i \in 1..c : \E k \in given : Rank(free, k) = i
  <2>1. Lowest(given, free, n)
    BY DEF Lowest
  <2> HIDE DEF free, given
  <2>2. Ranked(given, free, n)
    BY <1>2, <1>3, <2>1, Ranks
  <2> QED BY <2>2 DEF Ranked
<1>5. given \subseteq free /\ given \subseteq Nat
  BY <1>2, <1>3
<1>6. \A k \in given : Rank(free, k) \in 1..c /\ found[k] = walk[k] /\ ranks[k] = Rank(free, k)
  BY <1>4
<1>7. \A k \in given : walk[k] \in Workers /\ Visited(walk[k])
                          /\ own[walk[k]] = None
  BY <1>3, <1>5, WalkVisits
<1>8. \A j, k \in given : walk[j] = walk[k] => j = k
  <2> SUFFICES ASSUME NEW j \in given, NEW k \in given, walk[j] = walk[k]
               PROVE  j = k
    OBVIOUS
  <2>1. j \in free /\ k \in free /\ j \in Nat /\ k \in Nat /\ j >= 1 /\ k >= 1
    BY <1>2, <1>3, <1>5
  <2>2. ~ (j \in 1..k - 1) /\ ~ (k \in 1..j - 1)
    BY <2>1
  <2> QED BY <2>1, <2>2
<1>9. /\ Goes(p, "batch", "clear")
      /\ added + n <= MaxJobs /\ added' = added + n
      /\ own' = [w \in Workers |->
                    IF \E k \in given \ gone : walk[k] = w
                    THEN added + Rank(free, CHOOSE k \in given : walk[k] = w)
                    ELSE own[w]]
      /\ lost' = lost \cup {added + Rank(free, k) : k \in gone}
      /\ queue' = queue \o [k \in 1..n - c |-> added + c + k]
      /\ Unlink(busy)
      /\ Create(n - c, busy \cup {idlers'[k] : k \in DOMAIN idlers'
                                                   \cap 1..Len(queue')})
      /\ UNCHANGED << running, finished, idle, iter, target, stopVars >>
  BY <1>1
<1> HIDE DEF free, given, c
<1>10. found \in [given -> Workers] /\ ranks \in [given -> 1..c]
  BY <1>6, <1>7
<1>11. /\ \A j, k \in given : found[j] = found[k] => j = k
       /\ \A j, k \in given : ranks[j] = ranks[k] => j = k
       /\ \A k \in given : own[found[k]] = None /\ Visited(found[k])
  BY <1>4, <1>5, <1>6, <1>7, <1>8
<1>12. \A i \in 1..c : \E k \in given : ranks[k] = i
  BY <1>4, <1>6
<1>13. own' = [w \in Workers |->
                  IF \E k \in given : found[k] = w /\ wpc[w] # "gone"
                  THEN added + ranks[CHOOSE k \in given : found[k] = w]
                  ELSE own[w]]
  <2>1. ASSUME NEW w \in Workers
        PROVE  (\E k \in given \ gone : walk[k] = w)
                  <=> \E k \in given : found[k] = w /\ wpc[w] # "gone"
    BY <1>6
  <2>2. ASSUME NEW w \in Workers, NEW i \in given, walk[i] = w
        PROVE  Rank(free, CHOOSE k \in given : walk[k] = w)
                  = ranks[CHOOSE k \in given : found[k] = w]
    <3>1. (CHOOSE k \in given : walk[k] = w) = i
      BY <1>8, <2>2
    <3>2. (CHOOSE k \in given : found[k] = w) = i
      BY <1>6, <1>8, <2>2
    <3> QED BY <1>6, <3>1, <3>2
  <2> QED BY <1>9, <2>1, <2>2
<1>14. lost' = lost \cup
           {added + ranks[k] : k \in {i \in given : wpc[found[i]] = "gone"}}
  <2>1. {i \in given : wpc[found[i]] = "gone"} = gone
    BY <1>6
  <2>2. {added + Rank(free, k) : k \in gone} = {added + ranks[k] : k \in gone}
    BY <1>6
  <2> QED BY <1>9, <2>1, <2>2
<1>15. busy \in SUBSET Range(idlers)
  OBVIOUS
<1>16. \A w \in Range(idlers) : w \in busy <=> \E k \in given : found[k] = w
  <2>1. \A w \in Range(idlers) : wpc[w] # "gone"
    BY Types DEF PoolInv, ListTrue, Resting, Awake
  <2> QED BY <1>6, <2>1
<1>17. \E q \in Producers : ppc[q] # "signal" /\ ppc' = [ppc EXCEPT ![q] = "clear"]
  BY <1>9 DEF Goes
<1> HIDE DEF busy, found, ranks
<1>18. Batch(n, c, given, found, ranks)
  BY <1>2, <1>4, <1>9, <1>11, <1>12, <1>13, <1>14, <1>15, <1>16, <1>17 DEF Batch
<1> QED BY <1>2, <1>4, <1>5, <1>10, <1>18

\* A sequence and another that shares no entry with it, one after the other.
LEMMA Joined ==
    ASSUME NEW S, NEW q \in Seq(S), IsInjective(q),
           NEW r \in Seq(S), IsInjective(r), Range(q) \cap Range(r) = {}
    PROVE  /\ q \o r \in Seq(S) /\ IsInjective(q \o r)
           /\ Range(q \o r) = Range(q) \cup Range(r)
           /\ q = << >> /\ r = << >> => q \o r = << >>
<1>1. PICK l \in Nat, m \in Nat : l = Len(q) /\ m = Len(r)
  OBVIOUS
<1>2. PICK u : u = q \o r
  OBVIOUS
<1>3. u \in Seq(S) /\ DOMAIN u = 1..l + m
  BY <1>1, <1>2
<1>4. /\ \A i \in 1..l : u[i] = q[i]
      /\ \A i \in 1..m : u[l + i] = r[i]
  BY <1>1, <1>2
<1>5. /\ DOMAIN q = 1..l /\ Range(q) = {q[i] : i \in 1..l}
      /\ DOMAIN r = 1..m /\ Range(r) = {r[i] : i \in 1..m}
  BY <1>1, RangeIs
<1>6. Range(u) = {u[i] : i \in 1..l + m}
  BY <1>3 DEF Range
<1>7. \A i \in 1..l + m : i \in 1..l \/ \E k \in 1..m : i = l + k
  <2> SUFFICES ASSUME NEW i \in 1..l + m, i \notin 1..l
               PROVE  \E k \in 1..m : i = l + k
    OBVIOUS
  <2>1. i - l \in 1..m /\ i = l + (i - l)
    OBVIOUS
  <2> QED BY <2>1
<1>8. /\ \A i \in 1..l : i \in 1..l + m
      /\ \A k \in 1..m : l + k \in 1..l + m
  OBVIOUS
<1>9. Range(u) = Range(q) \cup Range(r)
  <2>1. \A i \in 1..l + m : u[i] \in Range(q) \cup Range(r)
    BY <1>4, <1>5, <1>7
  <2>2. \A i \in 1..l : q[i] \in Range(u)
    BY <1>4, <1>6, <1>8
  <2>3. \A i \in 1..m : r[i] \in Range(u)
    BY <1>4, <1>6, <1>8
  <2> QED BY <1>5, <1>6, <2>1, <2>2, <2>3
<1>10. IsInjective(u)
  <2> SUFFICES ASSUME NEW i \in 1..l + m, NEW j \in 1..l + m, u[i] = u[j]
               PROVE  i = j
    BY <1>3 DEF IsInjective
  <2>1. /\ \A x \in 1..l : u[x] \in Range(q)
        /\ \A x \in 1..m : u[l + x] \in Range(r)
    BY <1>4, <1>5
  <2>2. CASE i \in 1..l /\ j \in 1..l
    BY <1>4, <1>5, <2>2 DEF IsInjective
  <2>3. CASE \E x, y \in 1..m : i = l + x /\ j = l + y
    <3>1. PICK x \in 1..m, y \in 1..m : i = l + x /\ j = l + y
      BY <2>3
    <3>2. r[x] = r[y]
      BY <1>4, <3>1
    <3>3. x = y
      BY <1>5, <3>2 DEF IsInjective
    <3> QED BY <3>1, <3>3
  <2> QED BY <1>7, <2>1, <2>2, <2>3
<1>11. q = << >> /\ r = << >> => u = << >>
  BY <1>2
<1> QED BY <1>2, <1>3, <1>9, <1>10, <1>11

\* The m numbers after a, in their order.
LEMMA Numbered ==
    ASSUME NEW a \in Nat, NEW m \in Nat, NEW r \in [1..m -> Jobs],
           \A i \in 1..m : r[i] = a + i
    PROVE  /\ r \in Seq(Jobs) /\ IsInjective(r) /\ Range(r) = a + 1..a + m
           /\ m = 0 => r = << >>
<1>1. \A i \in 1..m : a + i \in a + 1..a + m
  OBVIOUS
<1>2. r \in Seq(Jobs) /\ DOMAIN r = 1..m /\ \A i \in 1..m : r[i] = a + i
  BY <1>1
<1>3. IsInjective(r)
  <2> SUFFICES ASSUME NEW i \in 1..m, NEW j \in 1..m, r[i] = r[j]
               PROVE  i = j
    BY <1>2 DEF IsInjective
  <2>1. a + i = a + j
    BY <1>2
  <2> QED BY <2>1
<1>4. Range(r) = {r[i] : i \in 1..m}
  BY <1>2 DEF Range
<1>5. a + 1..a + m \subseteq Range(r)
  <2> SUFFICES ASSUME NEW x \in a + 1..a + m PROVE x \in Range(r)
    OBVIOUS
  <2>1. x - a \in 1..m /\ a + (x - a) = x
    OBVIOUS
  <2> QED BY <1>2, <1>4, <2>1
<1>6. m = 0 => r = << >>
  <2> SUFFICES ASSUME m = 0 PROVE r = << >>
    OBVIOUS
  <2>1. 1..m = {}
    OBVIOUS
  <2> QED BY <1>2, <2>1
<1> QED BY <1>1, <1>2, <1>3, <1>4, <1>5, <1>6

\* Part of a batch goes to the queue, part to workers that have no job, one of
\* which may be freed memory.
LEMMA BatchStep ==
    ASSUME PoolInv, NEW p \in Batchers, p \in Producers, BatchAdd(p)
    PROVE  PoolInv'
<1>1. PICK n \in Nat, c \in Nat, given \in SUBSET Nat :
         \E walk \in [given -> Workers], rank \in [given -> 1..c] :
            Batch(n, c, given, walk, rank)
  BY BatchIs
<1>2. PICK walk \in [given -> Workers], rank \in [given -> 1..c] :
         Batch(n, c, given, walk, rank)
  BY <1>1
<1>3. PICK busy \in SUBSET Range(idlers) :
         /\ \A w \in Range(idlers) : w \in busy <=> \E k \in given : walk[k] = w
         /\ Unlink(busy)
         /\ Create(n - c, busy \cup
                   {idlers'[i] : i \in DOMAIN idlers' \cap 1..Len(queue')})
  BY <1>2 DEF Batch
<1> DEFINE T == busy \cup {idlers'[i] : i \in DOMAIN idlers' \cap 1..Len(queue')}
<1>4. /\ TypeOK /\ ThreadsKnown /\ ListTrue /\ idlers \in Seq(Workers)
      /\ queue \in Seq(Jobs) /\ IsInjective(queue) /\ IsInjective(idlers)
      /\ added \in 0..MaxJobs
      /\ own \in [Workers -> Jobs \cup {None}]
      /\ wpc \in [Workers -> WorkerPlaces] /\ idle \in Nat
      /\ Added = 1..added
  BY DEF PoolInv, TypeOK, ListTrue, JobsKnown, JobsOnce
<1>5. /\ Range(idlers) \subseteq Workers /\ busy \subseteq Workers
      /\ Range(queue) \subseteq Jobs /\ None \notin Jobs /\ None \notin Workers
      /\ added \in Nat /\ MaxJobs \in Nat
  BY <1>4, Types, BoundsAssumption DEF BoundsAssumption
<1>6. /\ n > 0 /\ c <= n /\ added + n <= MaxJobs /\ added' = added + n
      /\ queue' = queue \o [i \in 1..n - c |-> added + c + i]
      /\ running' = running /\ finished' = finished /\ idle' = idle
      /\ iter' = iter /\ target' = target /\ UNCHANGED stopVars
      /\ \E q \in Producers : /\ ppc[q] # "signal"
                              /\ ppc' = [ppc EXCEPT ![q] = "clear"]
  BY <1>2 DEF Batch
\* The list.
<1>7. /\ idlers' \in Seq(Workers) /\ IsInjective(idlers')
      /\ Range(idlers') = Range(idlers) \ busy
      /\ Len(idlers') = Len(idlers) - Cardinality(busy)
      /\ Len(idlers) \in Nat /\ Cardinality(busy) \in Nat
      /\ next' \in [Workers -> Workers \cup {None}]
      /\ \A w \in Workers : next'[w] \in Range(idlers) \cup {None, next[w]}
  <2>1. busy \cap Range(idlers) = busy
    OBVIOUS
  <2> QED BY <1>3, <1>4, <1>5, <2>1, UnlinkLemma
<1>8. /\ DOMAIN idlers' = 1..Len(idlers') /\ Len(idlers') \in Nat
      /\ Range(idlers') = {idlers'[i] : i \in 1..Len(idlers')}
      /\ Range(idlers') \subseteq Workers
      /\ idlers' = << >> <=> Range(idlers') = {}
      /\ idlers' # << >> => idlers'[1] \in Range(idlers')
  BY <1>7, RangeIs
\* The threads.
<1>9. T \in SUBSET Workers
  BY <1>5, <1>8
<1>10. /\ ThreadsKnown'
       /\ wpc' \in [Workers -> WorkerPlaces] /\ born' \in 0..MaxThreads
       /\ count' \in 0..Parallelism /\ failed' \subseteq Failures
       /\ failed \subseteq failed'
       /\ \A w \in Workers :
             IF wpc[w] = "new" THEN wpc'[w] \in {"new", "starting"}
             ELSE wpc'[w] = Signaled(T)[w]
       /\ Alive = {} /\ n - c > 0 => Alive' # {} \/ failed' # {}
  <2>1. n - c \in Nat
    BY <1>6
  <2> QED BY <1>3, <1>4, <1>9, <2>1, CreateLemma
<1>11. \A w \in Workers :
          IF wpc[w] = "new" THEN wpc'[w] \in {"new", "starting"}
          ELSE wpc'[w] = IF w \in T /\ wpc[w] = "waiting"
                         THEN "signaled" ELSE wpc[w]
  BY <1>10 DEF Signaled
\* The workers' own jobs.
<1>12. \A k \in given : /\ walk[k] \in Workers /\ own[walk[k]] = None
                        /\ wpc[walk[k]] \notin {"new", "starting"}
                        /\ rank[k] \in 1..c /\ added + rank[k] \in Jobs
                        /\ added + rank[k] > added /\ added + rank[k] # None
  <2>1. \A k \in given : /\ walk[k] \in Workers /\ rank[k] \in 1..c
                         /\ own[walk[k]] = None /\ Visited(walk[k])
    BY <1>2 DEF Batch
  <2>2. \A k \in given : /\ added + rank[k] \in Jobs /\ added + rank[k] > added
    BY <1>5, <1>6, <2>1 DEF Jobs
  <2> QED BY <1>5, <2>1, <2>2 DEF Visited
<1>13. /\ \A j, k \in given : walk[j] = walk[k] => j = k
       /\ \A j, k \in given : rank[j] = rank[k] => j = k
       /\ \A i \in 1..c : \E k \in given : rank[k] = i
  BY <1>2 DEF Batch
<1>14. /\ \A k \in given : wpc[walk[k]] # "gone" => own'[walk[k]] = added + rank[k]
       /\ \A w \in Workers :
             \/ own'[w] = own[w]
                /\ \A k \in given : walk[k] = w => wpc[w] = "gone"
             \/ wpc[w] # "gone" /\ \E k \in given : walk[k] = w
       /\ own' \in [Workers -> Jobs \cup {None}]
  <2>1. own' = [w \in Workers |->
                  IF \E k \in given : walk[k] = w /\ wpc[w] # "gone"
                  THEN added + rank[CHOOSE k \in given : walk[k] = w] ELSE own[w]]
    BY <1>2 DEF Batch
  <2>2. ASSUME NEW k \in given, wpc[walk[k]] # "gone"
        PROVE  own'[walk[k]] = added + rank[k]
    <3>1. (CHOOSE j \in given : walk[j] = walk[k]) = k
      BY <1>13
    <3> QED BY <1>12, <2>1, <2>2, <3>1
  <2>3. \A w \in Workers :
             \/ own'[w] = own[w]
                /\ \A k \in given : walk[k] = w => wpc[w] = "gone"
             \/ wpc[w] # "gone" /\ \E k \in given : walk[k] = w
    BY <2>1
  <2>4. \A w \in Workers : own'[w] \in Jobs \cup {None}
    BY <1>4, <1>12, <2>2, <2>3
  <2> QED BY <2>1, <2>2, <2>3, <2>4
\* The queue.
<1>15. /\ queue' \in Seq(Jobs) /\ IsInjective(queue')
       /\ Range(queue') = Range(queue) \cup (added + c + 1..added + n)
       /\ queue' # << >> => queue # << >> \/ n - c > 0
  <2>1. added + c \in Nat /\ n - c \in Nat /\ (added + c) + (n - c) = added + n
    BY <1>5, <1>6
  <2>2. PICK a \in Nat, m \in Nat : a = added + c /\ m = n - c
    BY <2>1
  <2>3. a + m <= MaxJobs /\ a + m = added + n
    BY <1>6, <2>1, <2>2
  <2>4. PICK r : r = [i \in 1..m |-> a + i]
    OBVIOUS
  <2>5. /\ r \in Seq(Jobs) /\ IsInjective(r) /\ Range(r) = a + 1..a + m
        /\ m = 0 => r = << >>
    <3>1. \A i \in 1..m : a + i \in Jobs
      BY <1>5, <2>3 DEF Jobs
    <3>2. r \in [1..m -> Jobs] /\ \A i \in 1..m : r[i] = a + i
      BY <2>4, <3>1
    <3> QED BY <3>2, Numbered
  <2>6. queue' = queue \o r
    BY <1>6, <2>2, <2>4
  <2>7. Range(queue) \cap (a + 1..a + m) = {}
    <3>1. \A x \in Range(queue) : x \in 1..added
      BY <1>4 DEF Added
    <3>2. \A x \in 1..added : x \notin a + 1..a + m
      BY <1>5, <2>2
    <3> QED BY <3>1, <3>2
  <2>8. /\ queue \o r \in Seq(Jobs) /\ IsInjective(queue \o r)
        /\ Range(queue \o r) = Range(queue) \cup Range(r)
        /\ queue = << >> /\ r = << >> => queue \o r = << >>
    <3>1. \A S : \A x, y \in Seq(S) :
             IsInjective(x) /\ IsInjective(y) /\ Range(x) \cap Range(y) = {} =>
                /\ x \o y \in Seq(S) /\ IsInjective(x \o y)
                /\ Range(x \o y) = Range(x) \cup Range(y)
                /\ x = << >> /\ y = << >> => x \o y = << >>
      BY Joined
    <3>2. IsInjective(queue) /\ queue \in Seq(Jobs)
      BY <1>4
    <3> QED BY <2>5, <2>7, <3>1, <3>2
  <2>9. m # 0 => m > 0
    OBVIOUS
  <2> QED BY <2>2, <2>3, <2>5, <2>6, <2>8, <2>9
<1>16. lost' = lost \cup
          {added + rank[k] : k \in {i \in given : wpc[walk[i]] = "gone"}}
  BY <1>2 DEF Batch
<1> HIDE DEF T
<1>17. TypeOK'
  <2>1. lost' \subseteq Jobs
    BY <1>12, <1>16 DEF PoolInv, TypeOK
  <2>2. added' \in 0..MaxJobs
    BY <1>5, <1>6
  <2>3. ppc' \in [Producers -> {"idle", "signal", "batch", "clear"}]
    BY <1>6 DEF PoolInv, TypeOK
  <2>4. /\ running' \in [Workers -> Jobs \cup {None}] /\ finished' \subseteq Jobs
        /\ idle' \in Nat /\ iter' \in Workers \cup {None}
        /\ target' \in [Producers -> Workers \cup {None}]
        /\ quit' \in BOOLEAN /\ stopper' \in {"no", "waiting", "signaled", "done"}
    BY <1>6 DEF PoolInv, TypeOK, stopVars
  <2> QED BY <1>7, <1>10, <1>14, <1>15, <2>1, <2>2, <2>3, <2>4 DEF TypeOK
<1>18. \A w \in Workers : Resting(w)' <=> Resting(w)
  BY <1>11 DEF Resting, Awake
<1>19. \A w \in Workers : own'[w] = None <=>
          own[w] = None /\ \A k \in given : walk[k] = w => wpc[w] = "gone"
  <2>1. ASSUME NEW w \in Workers, own'[w] = own[w],
               \A k \in given : walk[k] = w => wpc[w] = "gone"
        PROVE  own'[w] = None <=>
                 own[w] = None
                 /\ \A k \in given : walk[k] = w => wpc[w] = "gone"
    BY <2>1
  <2>2. ASSUME NEW w \in Workers, NEW k \in given, walk[k] = w, wpc[w] # "gone"
        PROVE  own'[w] # None
    <3>1. own'[walk[k]] = added + rank[k]
      BY <1>14, <2>2
    <3>2. added + rank[k] # None
      BY <1>12
    <3> QED BY <2>2, <3>1, <3>2
  <2>3. ASSUME NEW w \in Workers
        PROVE  \/ own'[w] = own[w]
                  /\ \A k \in given : walk[k] = w => wpc[w] = "gone"
               \/ wpc[w] # "gone" /\ \E k \in given : walk[k] = w
    BY <1>14
  <2> QED BY <2>1, <2>2, <2>3
<1>20. ListTrue'
  <2>1. \A w \in Workers :
           w \in Range(idlers') <=> Resting(w)' /\ own'[w] = None
    <3>1. \A w \in Workers : Resting(w) => wpc[w] # "gone"
      BY DEF Resting, Awake
    <3>2. \A w \in Workers : w \in Range(idlers) <=> Resting(w) /\ own[w] = None
      BY <1>4 DEF ListTrue
    <3> QED BY <1>3, <1>7, <1>18, <1>19, <3>1, <3>2
  <2>2. Counts(idle', idlers')
    <3>1. idle' = idle /\ idle >= Len(idlers) /\ Len(idlers') <= Len(idlers)
      BY <1>4, <1>6, <1>7 DEF ListTrue, Counts
    <3> QED BY <3>1, <1>4, <1>7 DEF Counts
  <2> QED BY <1>7, <2>1, <2>2 DEF ListTrue
<1>21. PointersKnown'
  <2>1. \A v \in Workers \cup {None} : Visited(v) => Visited(v)'
    BY <1>11 DEF Visited
  <2>2. \A v \in Range(idlers) : v \in Workers /\ Visited(v)
    BY <1>4, <1>5 DEF ListTrue, Resting, Awake, Visited
  <2>3. \A v \in Workers : Visited(next[v])'
    BY <1>4, <1>7, <2>1, <2>2 DEF PoolInv, PointersKnown, TypeOK, Visited
  <2> QED BY <1>4, <1>6, <2>1, <2>3 DEF PoolInv, PointersKnown, TypeOK
<1>22. OwnersKnown'
  <2>1. \A v : SignalComing(v) => SignalComing(v)'
    BY <1>6 DEF SignalComing, PoolInv, TypeOK
  <2>2. ASSUME NEW w \in Workers, own'[w] = own[w], own'[w] # None
        PROVE  /\ wpc'[w] \notin {"new", "starting", "gone"}
               /\ wpc'[w] = "waiting" => SignalComing(w)'
    BY <1>11, <2>1, <2>2 DEF PoolInv, OwnersKnown
  <2>3. ASSUME NEW w \in Workers, own[w] = None, wpc[w] # "gone",
               NEW k \in given, walk[k] = w
        PROVE  wpc'[w] \notin {"new", "starting", "gone", "waiting"}
    <3>1. wpc[w] \notin {"new", "starting", "gone"}
      BY <1>12, <2>3
    <3>2. wpc[w] = "waiting" => w \in T
      BY <1>3, <1>4, <2>3 DEF ListTrue, Resting, T
    <3> QED BY <1>11, <3>1, <3>2
  <2> QED BY <1>12, <1>14, <2>2, <2>3 DEF OwnersKnown
<1>23. QueueSeen'
  <2> SUFFICES ASSUME queue' # << >>
               PROVE  \/ \E w \in Workers : Looks(w)'
                      \/ /\ \A w \in Alive' : wpc'[w] = "starting"
                         /\ Alive' = {} => failed' # {}
    BY DEF QueueSeen
  <2>1. CASE idlers' # << >>
    <3>1. PICK h \in Workers : h = idlers'[1]
      BY <1>8, <2>1
    <3>2. Len(queue') \in Nat /\ Len(queue') # 0
      BY <1>15
    <3>3. 1 \in DOMAIN idlers' \cap 1..Len(queue')
      BY <1>7, <1>8, <2>1, <3>2
    <3>4. h \in T /\ Resting(h)
      BY <1>8, <1>20, <2>1, <3>1, <3>3, <1>18 DEF T, ListTrue
    <3>5. wpc'[h] \in Awake
      BY <1>11, <3>4 DEF Resting, Awake
    <3> QED BY <3>5 DEF Looks
  <2>2. CASE idlers' = << >>
    <3>1. ASSUME NEW v \in Alive', wpc'[v] # "starting"
          PROVE  v \in Workers /\ Looks(v)'
      <4>1. v \in Workers /\ wpc'[v] \in WorkerPlaces \ {"new", "gone"}
        BY <1>10, <3>1 DEF Alive
      <4>2. CASE wpc'[v] = "waiting"
        <5>1. own'[v] # None
          BY <1>8, <1>20, <2>2, <4>1, <4>2 DEF ListTrue, Resting
        <5> QED BY <4>1, <5>1 DEF Looks
      <4>3. CASE wpc'[v] # "waiting"
        BY <3>1, <4>1, <4>3 DEF WorkerPlaces, AtLoop, Looks
      <4> QED BY <4>2, <4>3
    <3>2. ASSUME Alive' = {} PROVE failed' # {}
      <4>1. Alive = {}
        BY <1>11, <3>2 DEF Alive
      <4>2. CASE n - c > 0
        BY <1>10, <3>2, <4>1, <4>2
      <4>3. CASE queue # << >>
        <5>1. \A w \in Workers : wpc[w] \in {"new", "gone"}
          BY <4>1 DEF Alive
        <5>2. \A w \in Workers : ~ Looks(w)
          BY <5>1 DEF PoolInv, OwnersKnown, Looks, Awake
        <5>3. failed # {}
          BY <4>1, <4>3, <5>2 DEF PoolInv, QueueSeen
        <5> QED BY <1>10, <5>3
      <4> QED BY <1>15, <4>2, <4>3
    <3> QED BY <3>1, <3>2
  <2> QED BY <2>1, <2>2
\* The jobs.
<1> DEFINE taken == {k \in given : wpc[walk[k]] # "gone"}
           freed == {k \in given : wpc[walk[k]] = "gone"}
           A == {added + rank[k] : k \in taken}
           L == {added + rank[k] : k \in freed}
           Q == added + c + 1..added + n
<1>24. /\ A \cup L \cup Q = added + 1..added + n
       /\ A \cap L = {} /\ A \cap Q = {} /\ L \cap Q = {}
       /\ None \notin A
  <2>1. \A k \in given : added + rank[k] \in added + 1..added + c
    BY <1>5, <1>12
  <2>2. A \cup L = added + 1..added + c
    <3>1. A \cup L \subseteq added + 1..added + c
      BY <2>1
    <3>2. ASSUME NEW x \in added + 1..added + c PROVE x \in A \cup L
      <4>1. x - added \in 1..c /\ added + (x - added) = x
        BY <1>5
      <4>2. PICK k \in given : rank[k] = x - added
        BY <1>13, <4>1
      <4> QED BY <4>1, <4>2
    <3> QED BY <3>1, <3>2
  <2>3. A \cap L = {}
    <3>1. \A j, k \in given : added + rank[j] = added + rank[k] => j = k
      BY <1>5, <1>12, <1>13
    <3> QED BY <3>1
  <2> HIDE DEF A, L
  <2>4. (added + 1..added + c) \cup Q = added + 1..added + n
    BY <1>5, <1>6
  <2>5. (added + 1..added + c) \cap Q = {}
    BY <1>5, <1>6
  <2>6. None \notin A
    BY <1>12 DEF A
  <2> QED BY <2>2, <2>3, <2>4, <2>5, <2>6
<1>25. Held(own') = Held(own) \cup A
  <2>1. Held(own') \subseteq Held(own) \cup A
    <3> SUFFICES ASSUME NEW w \in Workers, own'[w] # None
                 PROVE  own'[w] \in Held(own) \cup A
      BY DEF Held
    <3>1. CASE own'[w] = own[w]
      BY <3>1 DEF Held
    <3>2. CASE wpc[w] # "gone" /\ \E k \in given : walk[k] = w
      BY <1>14, <3>2
    <3> QED BY <1>14, <3>1, <3>2
  <2>2. Held(own) \subseteq Held(own')
    <3> SUFFICES ASSUME NEW w \in Workers, own[w] # None
                 PROVE  own[w] \in Held(own')
      BY DEF Held
    <3>1. own'[w] = own[w]
      BY <1>12, <1>14
    <3> QED BY <3>1 DEF Held
  <2>3. A \subseteq Held(own')
    <3> SUFFICES ASSUME NEW k \in taken
                 PROVE  added + rank[k] \in Held(own')
      OBVIOUS
    <3>1. own'[walk[k]] = added + rank[k] /\ walk[k] \in Workers
          /\ added + rank[k] # None
      BY <1>12, <1>14
    <3> QED BY <3>1 DEF Held
  <2> QED BY <2>1, <2>2, <2>3
<1>26. Once(own')
  <2>1. \A w \in Workers : own[w] # None => own[w] \in 1..added
    BY <1>4 DEF Added, Held
  <2>2. \A w \in Workers : \/ own'[w] = own[w]
                           \/ own'[w] \notin 1..added
                              /\ \E k \in given : walk[k] = w
                                                  /\ own'[w] = added + rank[k]
    BY <1>5, <1>12, <1>14
  <2>3. ASSUME NEW v \in Workers, NEW w \in Workers,
               own'[v] = own'[w], own'[v] # None
        PROVE  v = w
    <3>1. CASE own'[v] = own[v] /\ own'[w] = own[w]
      BY <2>3, <3>1 DEF PoolInv, JobsKnown, JobsOnce, Once
    <3>2. CASE own'[v] \notin 1..added \/ own'[w] \notin 1..added
      <4>1. PICK j \in given, k \in given :
               /\ walk[j] = v /\ own'[v] = added + rank[j]
               /\ walk[k] = w /\ own'[w] = added + rank[k]
        BY <2>1, <2>2, <2>3, <3>2
      <4>2. rank[j] = rank[k]
        <5>1. rank[j] \in 1..c /\ rank[k] \in 1..c
          BY <1>12
        <5>2. added + rank[j] = added + rank[k]
          BY <2>3, <4>1
        <5> QED BY <1>5, <5>1, <5>2
      <4> QED BY <1>13, <4>1, <4>2
    <3> QED BY <2>2, <3>1, <3>2
  <2> QED BY <2>3 DEF Once
<1>27. JobsKnown'
  <2> HIDE DEF A, L, Q
  <2>1. /\ Range(queue') = Range(queue) \cup Q /\ lost' = lost \cup L
        /\ Held(own)' = Held(own) \cup A /\ Held(running)' = Held(running)
    BY <1>6, <1>15, <1>16, <1>25 DEF Q, L, Held
  <2>2. (A \cup L \cup Q) \cap Added = {}
    BY <1>4, <1>5, <1>24
  <2>3. Added' = Added \cup (A \cup L \cup Q)
    BY <1>6, <2>1 DEF Added
  <2>4. Added' = 1..added'
    <3>1. (1..added) \cup (added + 1..added + n) = 1..added + n
      BY <1>5, <1>6
    <3> QED BY <1>4, <1>6, <1>24, <2>3, <3>1
  <2>5. JobsOnce'
    <3>1. \A w \in Workers : wpc'[w] = "running" <=> wpc[w] = "running"
      BY <1>11
    <3> QED BY <1>6, <1>15, <1>26, <3>1 DEF PoolInv, JobsKnown, JobsOnce, Once
  <2>6. JobsApart'
    <3>1. /\ (Range(queue) \cup Q) \cap (Held(own) \cup A) = {}
          /\ (Range(queue) \cup Q \cup Held(own) \cup A) \cap Held(running) = {}
      BY <1>24, <2>2 DEF PoolInv, JobsKnown, JobsApart, Added
    <3>2. /\ (Range(queue) \cup Q \cup Held(own) \cup A \cup Held(running))
                \cap (finished \cup lost \cup L) = {}
          /\ finished \cap (lost \cup L) = {}
      BY <1>24, <2>2 DEF PoolInv, JobsKnown, JobsApart, Added
    <3> QED BY <1>6, <2>1, <3>1, <3>2 DEF JobsApart
  <2> QED BY <2>4, <2>5, <2>6 DEF JobsKnown
<1> QED BY <1>10, <1>17, <1>20, <1>21, <1>22, <1>23, <1>27 DEF PoolInv

-----------------------------------------------------------------------------
(* The invariant holds *)

\* When the pool starts it has no threads and no jobs.
LEMMA PoolInit == Init => PoolInv
<1> SUFFICES ASSUME Init PROVE PoolInv
  OBVIOUS
<1>1. /\ queue = << >> /\ idlers = << >>
      /\ added = 0 /\ finished = {} /\ lost = {} /\ idle = 0
      /\ born = 0 /\ count = 0 /\ failed = {} /\ iter = None
      /\ quit = FALSE /\ stopper = "no"
      /\ own \in [Workers -> {None}] /\ running = own /\ next = own
      /\ wpc \in [Workers -> {"new"}]
      /\ ppc \in [Producers -> {"idle"}] /\ target \in [Producers -> {None}]
  BY DEF Init
<1>2. MaxThreads \in Nat /\ MaxJobs \in Nat /\ Parallelism \in Nat
  BY BoundsAssumption, ParallelismAssumption
     DEF BoundsAssumption, ParallelismAssumption
<1>3. TypeOK
  <2>1. /\ queue \in Seq(Jobs) /\ idlers \in Seq(Workers)
        /\ own \in [Workers -> Jobs \cup {None}]
        /\ running \in [Workers -> Jobs \cup {None}]
        /\ next \in [Workers -> Workers \cup {None}]
        /\ target \in [Producers -> Workers \cup {None}]
    BY <1>1
  <2>2. /\ wpc \in [Workers -> WorkerPlaces]
        /\ ppc \in [Producers -> {"idle", "signal", "batch", "clear"}]
    BY <1>1 DEF WorkerPlaces
  <2>3. /\ added \in 0..MaxJobs /\ idle \in Nat
        /\ born \in 0..MaxThreads /\ count \in 0..Parallelism
    BY <1>1, <1>2
  <2> QED BY <1>1, <2>1, <2>2, <2>3 DEF TypeOK
<1>4. Alive = {} /\ Cardinality(Alive) = 0
  BY <1>1, FS_EmptySet DEF Alive
<1>5. ThreadsKnown
  BY <1>1, <1>4 DEF ThreadsKnown, Workers
<1>6. Range(queue) = {} /\ Range(idlers) = {} /\ Len(idlers) = 0
      /\ IsInjective(queue) /\ IsInjective(idlers)
  BY <1>1 DEF Range, IsInjective
<1>7. ListTrue
  BY <1>1, <1>6 DEF ListTrue, Resting, Awake, Counts
<1>8. PointersKnown /\ OwnersKnown /\ QueueSeen
  BY <1>1 DEF PointersKnown, OwnersKnown, QueueSeen, Visited
<1>9. Held(own) = {} /\ Held(running) = {} /\ Once(own) /\ Once(running)
  BY <1>1 DEF Held, Once
<1>10. JobsOnce
  BY <1>1, <1>6, <1>9 DEF JobsOnce
<1>11. JobsApart
  BY <1>1, <1>6, <1>9 DEF JobsApart
<1>12. Added = 1..added
  BY <1>1, <1>6, <1>9 DEF Added
<1> QED BY <1>3, <1>5, <1>7, <1>8, <1>10, <1>11, <1>12 DEF PoolInv, JobsKnown

\* Nothing happens to the threads, the list and the jobs.
LEMMA PoolStutter == ASSUME PoolInv, UNCHANGED vars PROVE PoolInv'
<1>1. /\ queue' = queue /\ own' = own /\ running' = running /\ added' = added
      /\ finished' = finished /\ lost' = lost
      /\ idlers' = idlers /\ idle' = idle /\ next' = next /\ wpc' = wpc
      /\ born' = born /\ count' = count /\ failed' = failed /\ iter' = iter
      /\ ppc' = ppc /\ target' = target /\ quit' = quit /\ stopper' = stopper
  BY DEF vars, jobVars, listVars, threadVars, callVars, stopVars
<1>2. TypeOK' /\ ThreadsKnown' /\ ListTrue'
  BY <1>1 DEF PoolInv, TypeOK, ThreadsKnown, Alive, ListTrue, Resting
<1>3. PointersKnown' /\ OwnersKnown' /\ QueueSeen'
  BY <1>1 DEF PoolInv, PointersKnown, Visited, OwnersKnown, SignalComing,
              QueueSeen, Looks, Alive
<1>4. JobsKnown'
  BY <1>1 DEF PoolInv, JobsKnown, JobsOnce, JobsApart, Added, Held, Once
<1> QED BY <1>2, <1>3, <1>4 DEF PoolInv

\* Only those who may add batches are in the middle of one.
BatchesKnown == \A p \in Producers : ppc[p] = "batch" => p \in Batchers

LEMMA BatchesStep == TypeOK /\ BatchesKnown /\ [Next]_vars => BatchesKnown'
<1> SUFFICES ASSUME TypeOK, BatchesKnown, [Next]_vars PROVE BatchesKnown'
  OBVIOUS
<1>1. ppc \in [Producers -> {"idle", "signal", "batch", "clear"}]
  BY DEF TypeOK
<1>2. ASSUME ppc' = ppc PROVE BatchesKnown'
  BY <1>2 DEF BatchesKnown
<1>3. ASSUME NEW p \in Producers, NEW there,
             ppc' = [ppc EXCEPT ![p] = there], there = "batch" => p \in Batchers
      PROVE  BatchesKnown'
  BY <1>1, <1>3 DEF BatchesKnown
<1>4. ASSUME NEW w \in Workers,
             WorkerStep(w) \/ InitFails(w) \/ TimesOut(w) \/ WakesForNothing(w)
      PROVE  ppc' = ppc
  BY <1>4 DEF WorkerStep, TakeOwn, TakeQueued, Finish, GoIdle, WaitAgain, Exit,
              InitFails, TimesOut, WakesForNothing, callVars
<1>5. ASSUME NEW p \in Producers, BatchBegin(p) PROVE BatchesKnown'
  BY <1>3, <1>5 DEF BatchBegin, Goes
<1>6. ASSUME NEW p \in Producers, Enqueue(p) PROVE ppc' = ppc
  BY <1>6 DEF Enqueue, callVars
<1>7. ASSUME NEW p \in Producers, Deliver(p) \/ ProducerStep(p)
      PROVE  \E there \in {"signal", "clear", "idle"} :
                ppc' = [ppc EXCEPT ![p] = there]
  BY <1>7 DEF Deliver, ProducerStep, DeliverSignal, BatchAdd, BatchClear, Goes
<1>8. ASSUME NEW p \in Producers, Deliver(p) \/ ProducerStep(p)
      PROVE  BatchesKnown'
  BY <1>3, <1>7, <1>8
<1>9. ASSUME Stop \/ StopEnds \/ UNCHANGED vars PROVE ppc' = ppc
  BY <1>9 DEF Stop, StopEnds, vars, callVars
<1> QED BY <1>2, <1>4, <1>5, <1>6, <1>8, <1>9 DEF Next

\* Every step of the pool keeps the invariant.
LEMMA PoolStep == PoolInv /\ BatchesKnown /\ [Next]_vars => PoolInv'
<1> SUFFICES ASSUME PoolInv, BatchesKnown, [Next]_vars PROVE PoolInv'
  OBVIOUS
<1>1. ASSUME NEW w \in Workers, WorkerStep(w) PROVE PoolInv'
  BY <1>1, TakeOwnStep, TakeQueuedStep, FinishStep, GoIdleStep, WaitAgainStep,
     ExitStep DEF WorkerStep
<1>2. ASSUME NEW w \in Workers, InitFails(w) PROVE PoolInv'
  BY <1>2, InitFailsStep
<1>3. ASSUME NEW w \in Workers, TimesOut(w) \/ WakesForNothing(w) PROVE PoolInv'
  BY <1>3, WakeStep
<1>4. ASSUME NEW p \in Producers, Deliver(p) \/ Enqueue(p) PROVE PoolInv'
  BY <1>4, DeliverStep, EnqueueStep
<1>5. ASSUME NEW p \in Producers, BatchBegin(p) PROVE PoolInv'
  BY <1>5, QuietStep
<1>6. ASSUME NEW p \in Producers, ProducerStep(p) PROVE PoolInv'
  <2>1. ASSUME BatchAdd(p) PROVE p \in Batchers
    BY <2>1 DEF BatchesKnown, BatchAdd, Goes
  <2> QED BY <1>6, <2>1, DeliverSignalStep, BatchStep, QuietStep
             DEF ProducerStep
<1>7. ASSUME Stop \/ StopEnds PROVE PoolInv'
  BY <1>7, StopStep, QuietStep
<1>8. CASE UNCHANGED vars
  BY <1>8, PoolStutter
<1> QED BY <1>1, <1>2, <1>3, <1>4, <1>5, <1>6, <1>7, <1>8 DEF Next

\* What the runs check of a state follows from the invariant.
LEMMA PoolInvImplies == PoolInv => BooksTrue /\ NoStrandedJob
<1> SUFFICES ASSUME PoolInv PROVE BooksTrue /\ NoStrandedJob
  OBVIOUS
<1>1. BooksTrue
  <2>1. TypeOK /\ ThreadsKnown /\ ListTrue /\ idlers \in Seq(Workers)
    BY DEF PoolInv, TypeOK
  <2>2. \A w \in Workers : Contains(idlers, w) <=> w \in Range(idlers)
    BY <2>1, RangeIs
  <2> QED BY <2>1, <2>2 DEF BooksTrue, ThreadsKnown, Alive, ListTrue, Resting
<1>2. ASSUME NEW w \in Workers, own[w] # None PROVE WillLook(w)
  <2>1. /\ wpc[w] \notin {"new", "starting", "gone"}
        /\ wpc[w] = "waiting" => SignalComing(w)
    BY <1>2 DEF PoolInv, OwnersKnown
  <2>2. wpc[w] \in WorkerPlaces
    BY DEF PoolInv, TypeOK
  <2> QED BY <2>1, <2>2 DEF WillLook, WorkerPlaces
<1>3. ASSUME queue # << >>
      PROVE  (\E w \in Workers : WillLook(w)) \/ (count = 0 /\ failed # {})
  <2>1. ASSUME NEW w \in Workers, Looks(w) PROVE WillLook(w)
    BY <1>2, <2>1 DEF Looks, WillLook, AtLoop
  <2>2. ASSUME NEW w \in Alive, wpc[w] = "starting"
        PROVE  w \in Workers /\ WillLook(w)
    BY <2>2 DEF Alive, WillLook, AtLoop
  <2>3. CASE Alive = {}
    <3>1. count = 0
      BY <2>3, FS_EmptySet DEF PoolInv, ThreadsKnown
    <3> QED BY <1>3, <2>1, <2>3, <3>1 DEF PoolInv, QueueSeen
  <2>4. CASE Alive # {}
    BY <1>3, <2>1, <2>2, <2>4 DEF PoolInv, QueueSeen
  <2> QED BY <2>3, <2>4
<1> QED BY <1>1, <1>2, <1>3 DEF NoStrandedJob

-----------------------------------------------------------------------------
(* The theorems *)

\* The invariant holds in every state of the pool.
THEOREM PoolInductive == Spec => []PoolInv
<1>1. Init => PoolInv /\ BatchesKnown
  BY PoolInit DEF Init, BatchesKnown
<1>2. PoolInv /\ BatchesKnown /\ [Next]_vars => (PoolInv /\ BatchesKnown)'
  BY PoolStep, BatchesStep DEF PoolInv
<1> QED BY <1>1, <1>2, PTL DEF Spec

\* The count of threads and the list of idle ones agree with where the threads
\* are.
THEOREM PoolBooksTrue == Spec => []BooksTrue
BY PoolInductive, PoolInvImplies, PTL

\* In a pool that nobody adds batches to, acl_pthread_pool_idle returns the
\* length of the list at all times: it is batches alone that make it wrong.
THEOREM PoolIdleCounted == Spec => [](Batchers = {} => IdleCounted)
<1>1. PoolInv => (Batchers = {} => IdleCounted)
  BY DEF PoolInv, ListTrue, Counts, IdleCounted
<1> QED BY <1>1, PoolInductive, PTL

\* No job waits for nobody.
THEOREM PoolStrandsNoJob == Spec => []NoStrandedJob
BY PoolInductive, PoolInvImplies, PTL

\* When acl_pthread_pool_stop returns, the pool is drained.
THEOREM PoolDrains == Spec => StopDrains
<1>1. PoolInv /\ [Next]_vars =>
         [stopper # "done" /\ stopper' = "done" =>
             /\ \A w \in Workers : wpc[w] \in {"new", "gone"}
             /\ finished \cup lost \cup Range(queue) = 1..added
             /\ queue # << >> => failed # {}]_vars
  <2> SUFFICES ASSUME PoolInv, Next, stopper # "done", stopper' = "done"
               PROVE  /\ \A w \in Workers : wpc[w] \in {"new", "gone"}
                      /\ finished \cup lost \cup Range(queue) = 1..added
                      /\ queue # << >> => failed # {}
    OBVIOUS
  <2>1. count = 0
    <3>1. ASSUME NEW w \in Workers, Exit(w) PROVE FALSE
      BY <3>1 DEF Exit, StopperSignaled
    <3>2. stopper' # stopper
      OBVIOUS
    <3>3. \A w \in Workers : ~ WorkerStep(w)
      BY <3>1, <3>2 DEF WorkerStep, TakeOwn, TakeQueued, Finish, GoIdle,
                        WaitAgain, stopVars
    <3>4. \A w \in Workers :
             ~ InitFails(w) /\ ~ TimesOut(w) /\ ~ WakesForNothing(w)
      BY <3>2 DEF InitFails, TimesOut, WakesForNothing, stopVars
    <3>5. \A p \in Producers : ~ ProducerStep(p)
      <4>1. \A p \in Producers : BatchAdd(p) => stopper' = stopper
        BY BatchIs DEF Batch, stopVars
      <4> QED BY <3>2, <4>1 DEF ProducerStep, DeliverSignal, BatchClear, stopVars
    <3>6. \A p \in Producers : ~ Deliver(p) /\ ~ Enqueue(p) /\ ~ BatchBegin(p)
      BY <3>2 DEF Deliver, Enqueue, BatchBegin, stopVars
    <3>7. Stop \/ StopEnds
      BY <3>3, <3>4, <3>5, <3>6 DEF Next
    <3> QED BY <3>7 DEF Stop, StopEnds
  <2>2. Alive = {}
    BY <2>1, Types, FS_EmptySet DEF PoolInv, ThreadsKnown
  <2>3. \A w \in Workers : wpc[w] \in {"new", "gone"}
    BY <2>2 DEF Alive
  <2>4. \A w \in Workers : own[w] = None /\ running[w] = None
    BY <2>3 DEF PoolInv, OwnersKnown, JobsKnown, JobsOnce
  <2>5. Held(own) = {} /\ Held(running) = {}
    BY <2>4 DEF Held
  <2>6. finished \cup lost \cup Range(queue) = 1..added
    BY <2>5 DEF PoolInv, JobsKnown, Added
  <2>7. \A w \in Workers : ~ Looks(w)
    BY <2>3, <2>4 DEF Looks, Awake
  <2>8. queue # << >> => failed # {}
    BY <2>2, <2>7 DEF PoolInv, QueueSeen
  <2> QED BY <2>3, <2>6, <2>8
<1> QED BY <1>1, PoolInductive, PTL DEF Spec, StopDrains

-----------------------------------------------------------------------------
(* The pool implements JobPool *)

\* The function of the refinement mapping.
Books == [j \in Jobs |-> JobState(j)]

\* Where each job is, in terms of the books.
JobsWhere ==
    \A j \in Jobs :
        JobState(j) = IF j > added THEN "new"
                      ELSE IF j \in Held(running) THEN "running"
                      ELSE IF j \in finished THEN "done" ELSE "queued"

LEMMA JobStates == PoolInv => JobsWhere
<1> SUFFICES ASSUME PoolInv, NEW j \in Jobs
             PROVE  JobState(j) = IF j > added THEN "new"
                                  ELSE IF j \in Held(running) THEN "running"
                                  ELSE IF j \in finished THEN "done"
                                  ELSE "queued"
  BY DEF JobsWhere
<1>1. j \in Held(running) <=> \E w \in Workers : running[w] = j
  BY Types DEF PoolInv, Held
<1>2. Range(running) = {running[w] : w \in Workers}
  BY DEF PoolInv, TypeOK, Range
<1>3. j \in Held(running) => j <= added /\ j \notin finished
  BY BoundsAssumption
     DEF PoolInv, JobsKnown, JobsApart, Added, TypeOK, BoundsAssumption
<1>4. j \in finished \ Range(running) <=> j \in finished /\ j \notin Held(running)
  BY <1>1, <1>2
<1>5. CASE j > added
  <2>1. j \notin finished
    BY <1>5, BoundsAssumption
       DEF PoolInv, JobsKnown, Added, TypeOK, BoundsAssumption
  <2>2. j \notin Held(running)
    BY <1>5, BoundsAssumption
       DEF PoolInv, JobsKnown, Added, TypeOK, BoundsAssumption
  <2> QED BY <1>1, <1>5, <2>1, <2>2 DEF JobState
<1>6. CASE ~ (j > added) /\ j \in Held(running)
  BY <1>1, <1>2, <1>6 DEF JobState
<1>7. CASE ~ (j > added) /\ j \notin Held(running)
  BY <1>1, <1>4, <1>7 DEF JobState
<1> QED BY <1>5, <1>6, <1>7

\* The same of the next state.
LEMMA JobStatesNext == PoolInv' => JobsWhere'
BY JobStates, PTL

\* The jobs that run are no more than the threads that may.
LEMMA RunningFew ==
    ASSUME PoolInv, NEW w \in Alive, wpc[w] # "running"
    PROVE  Cardinality(Held(running)) < Parallelism
<1> DEFINE R == {v \in Workers : running[v] # None}
<1>1. /\ IsFiniteSet(Alive) /\ Alive \subseteq Workers
      /\ count = Cardinality(Alive) /\ count \in 0..Parallelism
      /\ running \in [Workers -> Jobs \cup {None}] /\ Parallelism \in Nat
  BY Types, ParallelismAssumption
     DEF PoolInv, ThreadsKnown, TypeOK, ParallelismAssumption
<1>2. R \subseteq Alive \ {w}
  BY DEF PoolInv, JobsKnown, JobsOnce, Alive
<1>3. /\ IsFiniteSet(Alive \ {w})
      /\ Cardinality(Alive \ {w}) = Cardinality(Alive) - 1
  BY <1>1, FS_RemoveElement
<1>4. /\ IsFiniteSet(R) /\ Cardinality(R) <= Cardinality(Alive \ {w})
      /\ Cardinality(R) \in Nat
  BY <1>2, <1>3, FS_Subset, FS_CardinalityType
<1>5. Cardinality({running[v] : v \in R}) = Cardinality(R)
  <2>1. R \subseteq DOMAIN running
    BY <1>1
  <2>2. \A u, v \in R : running[u] = running[v] => u = v
    BY DEF PoolInv, JobsKnown, JobsOnce, Once
  <2> HIDE DEF R
  <2> QED BY <1>4, <2>1, <2>2, ImageSize
<1>6. Held(running) = {running[v] : v \in R}
  BY DEF Held
<1> HIDE DEF R
<1> QED BY <1>1, <1>3, <1>4, <1>5, <1>6

\* The step adds jobs, and starts and ends none.
LEMMA AddsJobs ==
    ASSUME PoolInv, PoolInv', NEW n \in Nat, n > 0, added' = added + n,
           running' = running, finished' = finished
    PROVE  Abstract!Next
<1> DEFINE S == added + 1..added + n
<1>1. JobsWhere /\ JobsWhere'
  BY JobStates, JobStatesNext
<1>2. added \in Nat /\ added + n <= MaxJobs /\ MaxJobs \in Nat
  BY BoundsAssumption DEF PoolInv, TypeOK, BoundsAssumption
<1>3. S \subseteq Jobs /\ S # {}
  <2>1. added + 1 \in S
    BY <1>2
  <2>2. \A i \in S : i \in Jobs
    BY <1>2 DEF Jobs
  <2> QED BY <2>1, <2>2
<1>4. Held(running)' = Held(running)
  BY DEF Held
<1>5. \A j \in Held(running) \cup finished : j \notin S
  <2>1. \A j \in Held(running) \cup finished : j \in 1..added
    BY DEF PoolInv, JobsKnown, Added
  <2>2. \A j \in 1..added : j \notin S
    BY <1>2
  <2> QED BY <2>1, <2>2
<1>6. \A j \in Jobs : /\ j \in S <=> j > added /\ ~ (j > added + n)
                      /\ j > added + n => j > added
  BY <1>2 DEF Jobs
<1> HIDE DEF S
<1>7. \A j \in S : JobState(j) = "new"
  BY <1>1, <1>3, <1>6 DEF JobsWhere
<1>8. \A j \in Jobs : JobState(j)' = IF j \in S THEN "queued" ELSE JobState(j)
  BY <1>1, <1>4, <1>5, <1>6 DEF JobsWhere
<1>9. Abstract!With(S, "new", "queued")
  BY <1>3, <1>7, <1>8 DEF Abstract!With
<1> QED BY <1>3, <1>9 DEF Abstract!Next, Abstract!Add

\* The step adds, starts and ends no job.
LEMMA MovesNoJob ==
    ASSUME PoolInv, PoolInv', added' = added, running' = running,
           finished' = finished
    PROVE  UNCHANGED Books
<1>1. JobsWhere /\ JobsWhere'
  BY JobStates, JobStatesNext
<1>2. Held(running)' = Held(running)
  BY DEF Held
<1>3. \A j \in Jobs : JobState(j)' = JobState(j)
  BY <1>1, <1>2 DEF JobsWhere
<1> QED BY <1>3 DEF Books

\* A worker takes a job from those that wait.
LEMMA StartsJob ==
    ASSUME PoolInv, PoolInv', NEW w \in Workers, NEW j \in Jobs,
           wpc[w] \in AtLoop, j \in Range(queue) \cup Held(own),
           running' = [running EXCEPT ![w] = j],
           added' = added, finished' = finished
    PROVE  Abstract!Next
<1>1. JobsWhere /\ JobsWhere'
  BY JobStates, JobStatesNext
<1>2. /\ w \in Alive /\ wpc[w] # "running" /\ running[w] = None
      /\ running \in [Workers -> Jobs \cup {None}] /\ None \notin Jobs
  BY Types DEF PoolInv, TypeOK, AtLoop, Awake, Alive, JobsKnown, JobsOnce
<1>3. Held(running') = Held(running) \cup {j}
  BY <1>2 DEF Held
<1>4. Held(running)' = Held(running) \cup {j}
  BY <1>3 DEF Held
<1>5. j \notin Held(running) /\ j \notin finished /\ ~ (j > added)
  <2>1. j \in 1..added /\ added \in Nat
    BY BoundsAssumption DEF PoolInv, JobsKnown, Added, TypeOK, BoundsAssumption
  <2>2. j \notin Held(running) /\ j \notin finished
    BY DEF PoolInv, JobsKnown, JobsApart
  <2> QED BY <2>1, <2>2
<1>6. JobState(j) = "queued"
  BY <1>1, <1>5 DEF JobsWhere
<1>7. \A i \in Jobs : JobState(i)' = IF i \in {j} THEN "running" ELSE JobState(i)
  BY <1>1, <1>4, <1>5 DEF JobsWhere
<1>8. Abstract!With({j}, "queued", "running")
  BY <1>6, <1>7 DEF Abstract!With
<1>9. {i \in Jobs : Books[i] = "running"} = Held(running)
  <2>1. \A i \in Held(running) : i \in Jobs /\ ~ (i > added)
    <3>1. \A i \in Held(running) : i \in 1..added /\ i \in Jobs
      BY <1>2 DEF Held, PoolInv, JobsKnown, Added
    <3> QED BY <3>1, BoundsAssumption DEF PoolInv, TypeOK, BoundsAssumption
  <2>2. \A i \in Jobs : JobState(i) = "running" <=> i \in Held(running)
    BY <1>1, <2>1 DEF JobsWhere
  <2> QED BY <2>1, <2>2 DEF Books
<1>10. Cardinality({i \in Jobs : Books[i] = "running"}) < Parallelism
  BY <1>2, <1>9, RunningFew
<1>11. Abstract!Start(j)
  <2>1. \A S : Abstract!Cardinality(S) = Cardinality(S)
    BY DEF Abstract!Cardinality, Cardinality
  <2> QED BY <1>8, <1>10, <2>1 DEF Abstract!Start, Books
<1> QED BY <1>11 DEF Abstract!Next

\* A worker has run its job.
LEMMA EndsJob ==
    ASSUME PoolInv, PoolInv', NEW w \in Workers, Finish(w)
    PROVE  Abstract!Next
<1>1. JobsWhere /\ JobsWhere'
  BY JobStates, JobStatesNext
<1>2. /\ wpc[w] = "running" /\ added' = added
      /\ finished' = finished \cup {running[w]}
      /\ running' = [running EXCEPT ![w] = None]
  BY DEF Finish, At
<1>3. PICK j : j = running[w]
  OBVIOUS
<1>4. /\ j \in Jobs /\ j # None /\ j \in Held(running)
      /\ running \in [Workers -> Jobs \cup {None}]
  BY <1>2, <1>3 DEF PoolInv, TypeOK, JobsKnown, JobsOnce, Held
<1>5. \A v \in Workers \ {w} : running[v] # j
  BY <1>3, <1>4 DEF PoolInv, JobsKnown, JobsOnce, Once
<1>6. Held(running') = Held(running) \ {j}
  BY <1>2, <1>3, <1>4, <1>5 DEF Held
<1>7. Held(running)' = Held(running) \ {j}
  BY <1>6 DEF Held
<1>8. ~ (j > added)
  <2>1. j \in 1..added /\ added \in Nat
    BY <1>4, BoundsAssumption
       DEF PoolInv, JobsKnown, Added, TypeOK, BoundsAssumption
  <2> QED BY <2>1
<1>9. JobState(j) = "running"
  BY <1>1, <1>4, <1>8 DEF JobsWhere
<1>10. \A i \in Jobs : JobState(i)' = IF i \in {j} THEN "done" ELSE JobState(i)
  BY <1>1, <1>2, <1>3, <1>7, <1>8 DEF JobsWhere
<1>11. Abstract!With({j}, "running", "done")
  BY <1>4, <1>9, <1>10 DEF Abstract!With
<1> QED BY <1>4, <1>11 DEF Abstract!Next, Abstract!Finish

\* Each step of the pool is one of JobPool, or none.
LEMMA PoolRefines ==
    PoolInv /\ PoolInv' /\ [Next]_vars => [Abstract!Next]_Books
<1> SUFFICES ASSUME PoolInv, PoolInv', [Next]_vars
             PROVE  Abstract!Next \/ UNCHANGED Books
  OBVIOUS
<1>1. ASSUME NEW w \in Workers, TakeOwn(w) PROVE Abstract!Next
  <2>1. own[w] \in Jobs /\ own[w] \in Range(queue) \cup Held(own)
    BY <1>1 DEF TakeOwn, PoolInv, TypeOK, Held
  <2> QED BY <1>1, <2>1, StartsJob DEF TakeOwn, At
<1>2. ASSUME NEW w \in Workers, TakeQueued(w) PROVE Abstract!Next
  <2>1. Head(queue) \in Jobs /\ Head(queue) \in Range(queue) \cup Held(own)
    BY <1>2, RangeIs DEF TakeQueued, PoolInv, TypeOK
  <2> QED BY <1>2, <2>1, StartsJob DEF TakeQueued, At
<1>3. ASSUME NEW w \in Workers, Finish(w) PROVE Abstract!Next
  BY <1>3, EndsJob
<1>4. ASSUME NEW w \in Workers,
             \/ GoIdle(w) \/ WaitAgain(w) \/ Exit(w) \/ InitFails(w)
             \/ TimesOut(w) \/ WakesForNothing(w)
      PROVE  UNCHANGED Books
  BY <1>4, MovesNoJob
     DEF GoIdle, WaitAgain, Exit, InitFails, TimesOut, WakesForNothing, jobVars
<1>5. ASSUME NEW p \in Producers, Deliver(p) \/ Enqueue(p) PROVE Abstract!Next
  <2>1. /\ added' = added + 1 /\ running' = running /\ finished' = finished
    BY <1>5 DEF Deliver, Enqueue
  <2> QED BY <2>1, AddsJobs
<1>6. ASSUME NEW p \in Producers, BatchAdd(p) PROVE Abstract!Next
  <2>1. PICK n \in Nat :
           /\ n > 0 /\ added' = added + n
           /\ running' = running /\ finished' = finished
    BY <1>6, BatchIs DEF Batch
  <2> QED BY <2>1, AddsJobs
<1>7. ASSUME NEW p \in Producers,
             BatchBegin(p) \/ DeliverSignal(p) \/ BatchClear(p)
      PROVE  UNCHANGED Books
  BY <1>7, MovesNoJob DEF BatchBegin, DeliverSignal, BatchClear, jobVars
<1>8. ASSUME Stop \/ StopEnds \/ UNCHANGED vars PROVE UNCHANGED Books
  BY <1>8, MovesNoJob DEF Stop, StopEnds, vars, jobVars
<1> QED BY <1>1, <1>2, <1>3, <1>4, <1>5, <1>6, <1>7, <1>8
        DEF Next, WorkerStep, ProducerStep

\* The pool implements JobPool: each job is run at most once, and not before it
\* is added, and no more than parallelism jobs run at a time.
THEOREM PoolImplements == Spec => ImplementsJobPool
<1>1. Init => Abstract!Init
  <2>1. Init => added = 0 /\ JobsWhere
    BY PoolInit, JobStates DEF Init
  <2>2. \A j \in Jobs : j > 0
    BY BoundsAssumption DEF Jobs, BoundsAssumption
  <2> QED BY <2>1, <2>2 DEF Abstract!Init, JobsWhere
<1>2. PoolInv /\ PoolInv' /\ [Next]_vars => [Abstract!Next]_Books
  BY PoolRefines
<1> QED BY <1>1, <1>2, PoolInductive, PTL
        DEF Spec, ImplementsJobPool, Abstract!Spec, Books
=============================================================================
