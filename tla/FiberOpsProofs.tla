---------------------------- MODULE FiberOpsProofs ----------------------------
(***************************************************************************)
(* What the operators of FiberOps do to a thread: the lemmas that the      *)
(* proofs about the primitives share.  A ring is seen through the set of   *)
(* its fibers and through its injectivity; the arithmetic of RemoveFirst   *)
(* stays in the first lemmas.                                              *)
(***************************************************************************)
EXTENDS FiberOps, SequenceTheorems, FiniteSetTheorems, TLAPS


-----------------------------------------------------------------------------
(* Sequences without repetition *)

\* What the range and the domain of a sequence are, in terms of its length.
LEMMA RangeIs ==
    ASSUME NEW S, NEW s \in Seq(S)
    PROVE  /\ Range(s) = {s[i] : i \in 1..Len(s)}
           /\ DOMAIN s = 1..Len(s)
           /\ Len(s) \in Nat
           /\ \A i \in 1..Len(s) : s[i] \in S
BY DEF Range

\* The entry that RemoveFirst removes is the one at its only position.
LEMMA RemoveFirstAt ==
    ASSUME NEW S, NEW s \in Seq(S), IsInjective(s),
           NEW k \in 1..Len(s)
    PROVE  RemoveFirst(s, s[k]) = RemoveAt(s, k)
<1> DEFINE I == {i \in 1..Len(s) : s[i] = s[k]}
<1>1. I = {k}
  BY DEF IsInjective
<1>2. Min(I) = k
  BY <1>1, k \in Int, SMT DEF Min
<1>3. \E i \in 1..Len(s) : s[i] = s[k]
  OBVIOUS
<1> QED BY <1>1, <1>2, <1>3 DEF RemoveFirst, SelectInSeq

\* RemoveAt closes the gap: the entries behind k move up by one.
LEMMA RemoveAtIs ==
    ASSUME NEW S, NEW s \in Seq(S), NEW k \in 1..Len(s)
    PROVE  /\ RemoveAt(s, k) \in Seq(S)
           /\ Len(RemoveAt(s, k)) = Len(s) - 1
           /\ \A i \in 1..(Len(s) - 1) :
                 RemoveAt(s, k)[i] = IF i < k THEN s[i] ELSE s[i + 1]
<1> DEFINE a == SubSeq(s, 1, k - 1)
           b == SubSeq(s, k + 1, Len(s))
<1>1. /\ a \in Seq(S) /\ Len(a) = k - 1
      /\ \A i \in 1..(k - 1) : a[i] = s[i]
  OBVIOUS
<1>2. /\ b \in Seq(S) /\ Len(b) = Len(s) - k
      /\ \A i \in 1..(Len(s) - k) : b[i] = s[k + i]
  OBVIOUS
<1>3. RemoveAt(s, k) = a \o b
  BY DEF RemoveAt
<1> HIDE DEF a, b
<1>4. /\ a \o b \in Seq(S) /\ Len(a \o b) = Len(a) + Len(b)
      /\ \A i \in 1..(Len(a) + Len(b)) :
            (a \o b)[i] = IF i <= Len(a) THEN a[i] ELSE b[i - Len(a)]
  BY <1>1, <1>2, ConcatProperties, Zenon
<1>5. ASSUME NEW i \in 1..(Len(s) - 1)
      PROVE  (a \o b)[i] = IF i < k THEN s[i] ELSE s[i + 1]
  <2>1. i \in 1..(Len(a) + Len(b)) /\ (i <= Len(a) <=> i < k)
    BY <1>1, <1>2
  <2>2. CASE i < k
    <3>1. (a \o b)[i] = a[i]
      BY <1>4, <2>1, <2>2, Zenon
    <3> QED BY <1>1, <2>2, <3>1
  <2>3. CASE ~ (i < k)
    <3>1. (a \o b)[i] = b[i - Len(a)]
      BY <1>4, <2>1, <2>3, Zenon
    <3>2. i - Len(a) \in 1..(Len(s) - k) /\ k + (i - Len(a)) = i + 1
      BY <1>1, <2>3
    <3>3. b[i - Len(a)] = s[i + 1]
      BY <1>2, <3>2
    <3> QED BY <2>3, <3>1, <3>3
  <2> QED BY <2>2, <2>3
<1> QED BY <1>1, <1>2, <1>3, <1>4, <1>5

\* ring_detach: the ring loses that entry, and its other entries stay distinct.
LEMMA RemoveFirstProperties ==
    ASSUME NEW S, NEW s \in Seq(S), IsInjective(s), NEW e
    PROVE  /\ RemoveFirst(s, e) \in Seq(S)
           /\ IsInjective(RemoveFirst(s, e))
           /\ Range(RemoveFirst(s, e)) = Range(s) \ {e}
<1>1. CASE e \notin Range(s)
  <2>1. RemoveFirst(s, e) = s
    BY <1>1, RangeIs DEF RemoveFirst
  <2> QED BY <1>1, <2>1
<1>2. CASE e \in Range(s)
  <2>1. PICK k \in 1..Len(s) : s[k] = e
    BY <1>2, RangeIs
  <2> DEFINE u == RemoveAt(s, k)
  <2>2. RemoveFirst(s, e) = u
    BY <2>1, RemoveFirstAt
  <2>3. /\ u \in Seq(S) /\ Len(u) = Len(s) - 1
        /\ \A i \in 1..(Len(s) - 1) : u[i] = IF i < k THEN s[i] ELSE s[i + 1]
    BY RemoveAtIs
  <2>4. /\ DOMAIN u = 1..Len(u) /\ Range(u) = {u[i] : i \in 1..Len(u)}
        /\ DOMAIN s = 1..Len(s) /\ Range(s) = {s[i] : i \in 1..Len(s)}
        /\ Len(s) \in Nat
    BY <2>3, RangeIs
  <2> HIDE DEF u
  <2>5. IsInjective(u)
    <3> SUFFICES ASSUME NEW i \in 1..Len(u), NEW j \in 1..Len(u), u[i] = u[j]
                 PROVE  i = j
      BY <2>4 DEF IsInjective
    <3> DEFINE old(n) == IF n < k THEN n ELSE n + 1
    <3>1. /\ old(i) \in 1..Len(s) /\ old(j) \in 1..Len(s)
          /\ u[i] = s[old(i)] /\ u[j] = s[old(j)]
      BY <2>3, <2>4
    <3>2. old(i) = old(j)
      BY <2>4, <3>1, Zenon DEF IsInjective
    <3> QED BY <2>3, <2>4, <3>2
  <2>6. Range(u) \subseteq Range(s) \ {e}
    BY <2>1, <2>3, <2>4 DEF IsInjective
  <2>7. ASSUME NEW x \in Range(s), x # e PROVE x \in Range(u)
    <3>1. PICK j \in 1..Len(s) : s[j] = x
      BY <2>4
    <3>2. CASE j < k
      BY <2>3, <2>4, <3>1, <3>2
    <3>3. CASE j > k
      <4>1. j - 1 \in 1..Len(u) /\ u[j - 1] = x
        BY <2>3, <2>4, <3>1, <3>3
      <4> QED BY <2>4, <4>1
    <3> QED BY <2>1, <2>7, <2>4, <3>1, <3>2, <3>3
  <2> QED BY <2>2, <2>3, <2>5, <2>6, <2>7
<1> QED BY <1>1, <1>2

\* ring_prepend of an entry that is not in the ring adds just that one.
LEMMA AppendedProperties ==
    ASSUME NEW S, NEW s \in Seq(S), IsInjective(s), NEW e \in S,
           e \notin Range(s)
    PROVE  /\ Append(s, e) \in Seq(S)
           /\ IsInjective(Append(s, e))
           /\ Range(Append(s, e)) = Range(s) \cup {e}
<1> DEFINE u == Append(s, e)
<1>1. /\ u \in Seq(S) /\ Len(u) = Len(s) + 1 /\ u[Len(u)] = e
      /\ \A i \in 1..Len(s) : u[i] = s[i]
  OBVIOUS
<1> HIDE DEF u
<1>2. /\ DOMAIN u = 1..Len(u) /\ Range(u) = {u[i] : i \in 1..Len(u)}
      /\ DOMAIN s = 1..Len(s) /\ Range(s) = {s[i] : i \in 1..Len(s)}
      /\ Len(s) \in Nat
  BY <1>1, RangeIs
<1>3. IsInjective(u)
  BY <1>1, <1>2 DEF IsInjective
<1>4. Range(u) = Range(s) \cup {e}
  <2>1. Range(u) \subseteq Range(s) \cup {e}
    BY <1>1, <1>2
  <2>2. Range(s) \subseteq Range(u)
    BY <1>1, <1>2
  <2>3. e \in Range(u)
    BY <1>1, <1>2
  <2> QED BY <2>1, <2>2, <2>3
<1> QED BY <1>1, <1>3, <1>4 DEF u

\* ring_pop_head: the head leaves, the others stay.
LEMMA HeadTailRange ==
    ASSUME NEW S, NEW s \in Seq(S), IsInjective(s), s # << >>
    PROVE  /\ Head(s) \in Range(s) /\ Head(s) \in S
           /\ Tail(s) \in Seq(S)
           /\ IsInjective(Tail(s))
           /\ Range(Tail(s)) = Range(s) \ {Head(s)}
<1> DEFINE u == Tail(s)
<1>1. /\ u \in Seq(S) /\ Len(u) = Len(s) - 1 /\ Len(s) > 0 /\ Head(s) = s[1]
      /\ \A i \in 1..Len(u) : u[i] = s[i + 1]
  OBVIOUS
<1> HIDE DEF u
<1>2. /\ DOMAIN u = 1..Len(u) /\ Range(u) = {u[i] : i \in 1..Len(u)}
      /\ DOMAIN s = 1..Len(s) /\ Range(s) = {s[i] : i \in 1..Len(s)}
      /\ Len(s) \in Nat /\ \A i \in 1..Len(s) : s[i] \in S
  BY <1>1, RangeIs
<1>3. IsInjective(u)
  <2>1. \A i \in 1..Len(u) : i \in Nat /\ i + 1 \in 1..Len(s)
    <3>1. PICK m \in Nat : m = Len(s)
      BY <1>2
    <3>2. Len(u) = m - 1
      BY <1>1, <3>1
    <3> QED BY <3>1, <3>2
  <2>2. \A i, j \in 1..Len(u) : u[i] = u[j] => i + 1 = j + 1
    BY <1>1, <1>2, <2>1 DEF IsInjective
  <2>3. \A i, j \in 1..Len(u) : u[i] = u[j] => i = j
    BY <2>1, <2>2
  <2> QED BY <1>2, <2>3 DEF IsInjective
<1>4. Head(s) \in Range(s) /\ Head(s) \in S
  BY <1>1, <1>2
<1>5. Range(u) \subseteq Range(s) \ {Head(s)}
  BY <1>1, <1>2 DEF IsInjective
<1>6. ASSUME NEW x \in Range(s), x # Head(s) PROVE x \in Range(u)
  <2>1. PICK j \in 1..Len(s) : s[j] = x
    BY <1>2
  <2>2. j - 1 \in 1..Len(u) /\ u[j - 1] = x
    BY <1>1, <1>2, <1>6, <2>1
  <2> QED BY <1>2, <2>2
<1> QED BY <1>1, <1>3, <1>4, <1>5, <1>6 DEF u

\* ring_detach of an entry that is not in the ring does nothing.
LEMMA RemoveFirstAbsent ==
    ASSUME NEW S, NEW s \in Seq(S), NEW e, e \notin Range(s)
    PROVE  RemoveFirst(s, e) = s
BY RangeIs DEF RemoveFirst

\* ring_detach of the head of the ring pops it.
LEMMA RemoveFirstHead ==
    ASSUME NEW S, NEW s \in Seq(S), IsInjective(s), s # << >>
    PROVE  RemoveFirst(s, Head(s)) = Tail(s)
<1>1. 1 \in 1..Len(s) /\ Head(s) = s[1] /\ Len(s) \in Nat
  OBVIOUS
<1> DEFINE u == RemoveAt(s, 1)
<1>2. RemoveFirst(s, Head(s)) = u
  BY <1>1, RemoveFirstAt
<1>3. /\ u \in Seq(S) /\ Len(u) = Len(s) - 1
      /\ \A i \in 1..(Len(s) - 1) : u[i] = IF i < 1 THEN s[i] ELSE s[i + 1]
  BY <1>1, RemoveAtIs
<1>4. /\ Tail(s) \in Seq(S) /\ Len(Tail(s)) = Len(s) - 1
      /\ \A i \in 1..(Len(s) - 1) : Tail(s)[i] = s[i + 1]
  BY <1>1
<1> HIDE DEF u
<1>5. \A i \in 1..Len(u) : u[i] = Tail(s)[i]
  BY <1>1, <1>3, <1>4
<1>6. u = Tail(s)
  BY <1>3, <1>4, <1>5, SeqEqual
<1> QED BY <1>2, <1>6

\* A set of natural numbers has a smallest one, and a largest if it is bounded.
LEMMA SmallestIs ==
    ASSUME NEW I, I \subseteq Nat, I # {}
    PROVE  \E m \in I : \A k \in I : m <= k
<1> DEFINE R == OpToRel(<, Nat)
<1>1. ASSUME NEW x \in Nat, NEW y \in Nat, << x, y >> \notin R PROVE y <= x
  BY <1>1 DEF OpToRel
<1>2. IsWellFoundedOn(R, Nat)
  BY NatLessThanWellFounded
<1> HIDE DEF R
<1>3. PICK m \in I : \A k \in I : ~ (<< k, m >> \in R)
  BY <1>2, WFMin
<1>4. ASSUME NEW k \in I PROVE m <= k
  <2>1. k \in Nat /\ m \in Nat
    OBVIOUS
  <2>2. << k, m >> \notin R
    BY <1>3
  <2> QED BY <1>1, <2>1, <2>2
<1> QED BY <1>4

LEMMA LargestIs ==
    ASSUME NEW n \in Nat, NEW I, I \subseteq 1..n, I # {}
    PROVE  \E m \in I : \A k \in I : k <= m
<1> DEFINE J == {n - i : i \in I}
<1>1. J \subseteq Nat /\ J # {}
  <2>1. \A i \in I : n - i \in Nat
    OBVIOUS
  <2> QED BY <2>1
<1>2. PICK j \in J : \A k \in J : j <= k
  BY <1>1, SmallestIs
<1>3. PICK m \in I : j = n - m
  OBVIOUS
<1>4. ASSUME NEW k \in I PROVE k <= m
  <2>1. n - k \in J
    OBVIOUS
  <2>2. n - m <= n - k /\ m \in Int /\ k \in Int
    BY <1>2, <1>3, <2>1
  <2> QED BY <2>2
<1> QED BY <1>4

\* RemoveFirst of a sequence that may have its entries twice.
LEMMA RemoveFirstTyped ==
    ASSUME NEW S, NEW s \in Seq(S), NEW e
    PROVE  RemoveFirst(s, e) \in Seq(S)
<1> DEFINE I == {i \in 1..Len(s) : s[i] = e}
<1>1. CASE I = {}
  BY <1>1 DEF RemoveFirst
<1>2. CASE I # {}
  <2>1. PICK m \in I : \A k \in I : m <= k
    <3>1. I \subseteq Nat
      OBVIOUS
    <3> HIDE DEF I
    <3> QED BY <1>2, <3>1, SmallestIs
  <2>2. Min(I) \in I
    BY <2>1 DEF Min
  <2>3. RemoveFirst(s, e) = RemoveAt(s, Min(I))
    BY <1>2 DEF RemoveFirst, SelectInSeq
  <2> QED BY <2>2, <2>3, RemoveAtIs
<1> QED BY <1>1, <1>2

-----------------------------------------------------------------------------
(* Threads *)

Linked(t, r) == Range(t.ring[r])

\* A thread whose rings share no entry.  The running fiber may still be linked,
\* as it is between the FIBER_READY and the switch of acl_fiber_yield.
Sound(t) ==
    /\ t \in Threads
    /\ \A r \in Rings : IsInjective(t.ring[r])
    /\ \A r, s \in Rings : r # s => Linked(t, r) \cap Linked(t, s) = {}
    /\ \A g \in Fibers : t.status[g] # "exiting"

Unlinked(t, g) == \A r \in Rings : g \notin Linked(t, r)

\* The fibers that the thread will run without any further event.
Awake(t) == {t.running} \cup Linked(t, "ready")

SameBut(t, u, field) ==
    /\ field # "status"  => u.status = t.status
    /\ field # "flag"    => u.flag = t.flag
    /\ field # "running" => u.running = t.running

\* The ring of a thread and its set of fibers.
LEMMA LinkedFacts ==
    ASSUME NEW t \in Threads, NEW r \in Rings
    PROVE  /\ DOMAIN t.ring = Rings
           /\ t.ring[r] \in Seq(Fibers)
           /\ Linked(t, r) \subseteq Fibers
           /\ Empty(t, r) <=> Linked(t, r) = {}
           /\ \A g : In(t, r, g) <=> g \in Linked(t, r)
<1>1. DOMAIN t.ring = Rings /\ t.ring[r] \in Seq(Fibers)
  BY DEF Threads
<1> DEFINE s == t.ring[r]
<1>2. /\ Linked(t, r) = {s[i] : i \in 1..Len(s)}
      /\ \A i \in 1..Len(s) : s[i] \in Fibers
  BY <1>1, RangeIs DEF Linked
<1>3. s = << >> <=> Len(s) = 0
  BY <1>1
<1>4. Len(s) \in Nat
  BY <1>1
<1>5. Linked(t, r) \subseteq Fibers
  BY <1>2
<1>6. Linked(t, r) = {} <=> Len(s) = 0
  <2> HIDE DEF s
  <2>1. Len(s) # 0 => s[1] \in Linked(t, r)
    BY <1>2, <1>4
  <2> QED BY <1>2, <2>1
<1>7. Empty(t, r) <=> s = << >>
  BY DEF Empty
<1>8. \A g : In(t, r, g) <=> g \in Linked(t, r)
  BY DEF In, Linked
<1> QED BY <1>1, <1>3, <1>5, <1>6, <1>7, <1>8

\* RingDetach takes a fiber out of every ring and changes nothing else.
LEMMA DetachLemma ==
    ASSUME NEW t, Sound(t), NEW g \in Fibers
    PROVE  LET u == RingDetach(t, g)
           IN  /\ Sound(u) /\ SameBut(t, u, "ring")
               /\ \A r \in Rings : Linked(u, r) = Linked(t, r) \ {g}
<1> DEFINE u == RingDetach(t, g)
<1>1. t \in Threads /\ DOMAIN t.ring = Rings
  BY DEF Sound, Threads
<1>2. u.ring = [r \in Rings |-> RemoveFirst(t.ring[r], g)]
  BY <1>1 DEF RingDetach, Threads
<1>3. u.status = t.status /\ u.flag = t.flag /\ u.running = t.running
  BY <1>1 DEF RingDetach, Threads
<1>4. ASSUME NEW r \in Rings
      PROVE  /\ u.ring[r] \in Seq(Fibers) /\ IsInjective(u.ring[r])
             /\ Linked(u, r) = Linked(t, r) \ {g}
  <2>1. t.ring[r] \in Seq(Fibers) /\ IsInjective(t.ring[r])
    BY <1>1 DEF Sound, Threads
  <2>2. u.ring[r] = RemoveFirst(t.ring[r], g)
    BY <1>2
  <2> QED BY <2>1, <2>2, RemoveFirstProperties DEF Linked
<1>5. u \in Threads
  <2>1. u = [ring |-> u.ring, status |-> u.status, flag |-> u.flag,
             running |-> u.running]
    BY <1>1 DEF RingDetach, Threads
  <2>2. u.ring \in [Rings -> Seq(Fibers)]
    BY <1>2, <1>4
  <2> HIDE DEF u
  <2> QED BY <1>1, <1>3, <2>1, <2>2 DEF Threads
<1> HIDE DEF u
<1>6. Sound(u)
  BY <1>3, <1>4, <1>5 DEF Sound
<1> QED BY <1>3, <1>4, <1>6 DEF SameBut, u

\* RingPrepend of an unlinked fiber keeps the rings disjoint.
LEMMA PrependLemma ==
    ASSUME NEW t, Sound(t), NEW g \in Fibers, Unlinked(t, g), NEW q \in Rings
    PROVE  LET u == RingPrepend(t, q, g)
           IN  /\ Sound(u) /\ SameBut(t, u, "ring")
               /\ Linked(u, q) = Linked(t, q) \cup {g}
               /\ \A r \in Rings \ {q} : Linked(u, r) = Linked(t, r)
<1> DEFINE u == RingPrepend(t, q, g)
<1>1. t \in Threads /\ DOMAIN t.ring = Rings
  BY DEF Sound, Threads
<1> DEFINE rings == [t.ring EXCEPT ![q] = Append(t.ring[q], g)]
<1>0. u = [t EXCEPT !.ring = rings]
  BY Zenon DEF RingPrepend
<1>2. u.ring = rings
  BY <1>0, <1>1 DEF Threads
<1>3. u.status = t.status /\ u.flag = t.flag /\ u.running = t.running
  BY <1>0, <1>1 DEF Threads
<1>4. /\ u.ring[q] \in Seq(Fibers) /\ IsInjective(u.ring[q])
      /\ Linked(u, q) = Linked(t, q) \cup {g}
  <2>1. /\ t.ring[q] \in Seq(Fibers) /\ IsInjective(t.ring[q])
        /\ g \notin Range(t.ring[q])
    BY <1>1 DEF Sound, Threads, Unlinked, Linked
  <2>2. u.ring[q] = Append(t.ring[q], g)
    BY <1>1, <1>2
  <2> QED BY <2>1, <2>2, AppendedProperties DEF Linked
<1>5. ASSUME NEW r \in Rings \ {q}
      PROVE  /\ u.ring[r] \in Seq(Fibers) /\ IsInjective(u.ring[r])
             /\ Linked(u, r) = Linked(t, r)
  <2>1. t.ring[r] \in Seq(Fibers) /\ IsInjective(t.ring[r])
    BY <1>1 DEF Sound, Threads
  <2>2. u.ring[r] = t.ring[r]
    BY <1>1, <1>2
  <2> QED BY <2>1, <2>2 DEF Linked
<1>6. u \in Threads
  <2>1. u = [ring |-> u.ring, status |-> u.status, flag |-> u.flag,
             running |-> u.running]
    BY <1>0, <1>1 DEF Threads
  <2>2. rings = [r \in Rings |-> rings[r]]
    BY <1>1
  <2> HIDE DEF u, rings
  <2>3. \A r \in Rings : rings[r] \in Seq(Fibers)
    BY <1>2, <1>4, <1>5
  <2>4. u.ring \in [Rings -> Seq(Fibers)]
    BY <1>2, <2>2, <2>3
  <2> QED BY <1>1, <1>3, <2>1, <2>4 DEF Threads
<1> HIDE DEF u
<1>7. Sound(u)
  BY <1>3, <1>4, <1>5, <1>6 DEF Sound, Unlinked
<1> QED BY <1>3, <1>4, <1>5, <1>7 DEF SameBut, u

\* A new status or flag of a fiber changes nothing else.
LEMMA StatusLemma ==
    ASSUME NEW t, Sound(t), NEW g \in Fibers, NEW x \in Status \ {"exiting"}
    PROVE  LET u == [t EXCEPT !.status[g] = x]
           IN  /\ Sound(u) /\ SameBut(t, u, "status")
               /\ u.ring = t.ring
               /\ u.status = [t.status EXCEPT ![g] = x]
<1> DEFINE u == [t EXCEPT !.status[g] = x]
<1>1. t \in Threads
  BY DEF Sound
<1>0. u = [t EXCEPT !.status = [t.status EXCEPT ![g] = x]]
  BY Zenon
<1> HIDE DEF u
<1>2. /\ u.ring = t.ring /\ u.flag = t.flag /\ u.running = t.running
      /\ u.status = [t.status EXCEPT ![g] = x]
  BY <1>0, <1>1 DEF Threads
<1>3. /\ u.status \in [Fibers -> Status]
      /\ \A h \in Fibers : u.status[h] # "exiting"
  BY <1>1, <1>2 DEF Threads, Sound
<1>4. u = [ring |-> u.ring, status |-> u.status, flag |-> u.flag,
           running |-> u.running]
  BY <1>0, <1>1 DEF Threads
<1>5. Sound(u)
  BY <1>1, <1>2, <1>3, <1>4 DEF Sound, Linked, Threads
<1> QED BY <1>2, <1>5 DEF SameBut, u

\* Setting or clearing a flag leaves the rings and statuses alone.
LEMMA FlagLemma ==
    ASSUME NEW t, Sound(t), NEW g \in Fibers, NEW x \in Flags,
           NEW u, u = SetFlag(t, g, x) \/ u = ClearFlag(t, g, x)
    PROVE  Sound(u) /\ SameBut(t, u, "flag") /\ u.ring = t.ring
<1>1. t \in Threads
  BY DEF Sound
<1>2. u.ring = t.ring /\ u.status = t.status /\ u.running = t.running
  BY <1>1 DEF Threads, SetFlag, ClearFlag
<1>3. u.flag \in [Fibers -> SUBSET Flags]
  BY <1>1 DEF Threads, SetFlag, ClearFlag
<1>4. u = [ring |-> u.ring, status |-> u.status, flag |-> u.flag,
           running |-> u.running]
  BY <1>1 DEF Threads, SetFlag, ClearFlag
<1>5. Sound(u)
  BY <1>1, <1>2, <1>3, <1>4 DEF Sound, Linked, Threads
<1> QED BY <1>2, <1>5 DEF SameBut

\* FiberReady moves a fiber from wherever it is linked to the ready ring.
LEMMA ReadyLemma ==
    ASSUME NEW t, Sound(t), NEW g \in Fibers
    PROVE  LET u == FiberReady(t, g)
           IN  /\ Sound(u) /\ u.flag = t.flag /\ u.running = t.running
               /\ u.status = [t.status EXCEPT ![g] = "ready"]
               /\ Linked(u, "ready") = Linked(t, "ready") \cup {g}
               /\ \A r \in Rings \ {"ready"} : Linked(u, r) = Linked(t, r) \ {g}
<1> DEFINE d == RingDetach(t, g)
           p == RingPrepend(d, "ready", g)
           u == [p EXCEPT !.status[g] = "ready"]
<1>1. FiberReady(t, g) = u
  BY DEF FiberReady, Sound
<1>2. /\ Sound(d) /\ SameBut(t, d, "ring")
      /\ \A r \in Rings : Linked(d, r) = Linked(t, r) \ {g}
  BY DetachLemma
<1>3. Unlinked(d, g) /\ "ready" \in Rings
  BY <1>2, RingsAssumption DEF Unlinked, RingsAssumption
<1> HIDE DEF d
<1>4. /\ Sound(p) /\ SameBut(d, p, "ring")
      /\ Linked(p, "ready") = Linked(d, "ready") \cup {g}
      /\ \A r \in Rings \ {"ready"} : Linked(p, r) = Linked(d, r)
  BY <1>2, <1>3, PrependLemma
<1> HIDE DEF p
<1>5. /\ Sound(u) /\ SameBut(p, u, "status") /\ u.ring = p.ring
      /\ u.status = [p.status EXCEPT ![g] = "ready"]
  BY <1>4, StatusLemma DEF Status
<1> HIDE DEF u
<1> QED BY <1>1, <1>2, <1>3, <1>4, <1>5 DEF SameBut, Linked

\* The head of the ready ring leaves it and runs.
LEMMA RunFirstLemma ==
    ASSUME NEW t, Sound(t), ~ Empty(t, "ready")
    PROVE  LET u == RunFirst(t)
           IN  /\ Sound(u) /\ u.flag = t.flag
               /\ u.running \in Linked(t, "ready") /\ u.running \in Fibers
               /\ u.status = [t.status EXCEPT ![u.running] = "running"]
               /\ Linked(u, "ready") = Linked(t, "ready") \ {u.running}
               /\ \A r \in Rings \ {"ready"} : Linked(u, r) = Linked(t, r)
<1> DEFINE to == Head(t.ring["ready"])
           rings == [t.ring EXCEPT !["ready"] = Tail(t.ring["ready"])]
           u == RunFirst(t)
<1>1. t \in Threads /\ DOMAIN t.ring = Rings /\ "ready" \in Rings
  BY RingsAssumption DEF Sound, Threads, RingsAssumption
<1>2. /\ to \in Linked(t, "ready") /\ to \in Fibers
      /\ Tail(t.ring["ready"]) \in Seq(Fibers)
      /\ IsInjective(Tail(t.ring["ready"]))
      /\ Range(Tail(t.ring["ready"])) = Linked(t, "ready") \ {to}
  <2>1. /\ t.ring["ready"] \in Seq(Fibers) /\ IsInjective(t.ring["ready"])
        /\ t.ring["ready"] # << >>
    BY <1>1 DEF Sound, Threads, Empty
  <2> QED BY <2>1, HeadTailRange DEF Linked
<1>3. u = [ring |-> rings, status |-> [t.status EXCEPT ![to] = "running"],
           flag |-> t.flag, running |-> to]
  <2>1. u = [t EXCEPT !.ring = rings,
                      !.status = [t.status EXCEPT ![to] = "running"],
                      !.running = to]
    BY Zenon DEF RunFirst
  <2> HIDE DEF u, rings, to
  <2> QED BY <1>1, <2>1 DEF Threads
<1> HIDE DEF u, to
<1>4. /\ u.ring = rings /\ u.flag = t.flag /\ u.running = to
      /\ u.status = [t.status EXCEPT ![to] = "running"]
  BY <1>3
<1>5. /\ rings["ready"] = Tail(t.ring["ready"])
      /\ \A r \in Rings \ {"ready"} : rings[r] = t.ring[r]
      /\ rings = [r \in Rings |-> rings[r]]
  BY <1>1
<1> HIDE DEF rings
<1>6. \A r \in Rings : rings[r] \in Seq(Fibers) /\ IsInjective(rings[r])
  BY <1>1, <1>2, <1>5 DEF Sound, Threads
<1>7. /\ Linked(u, "ready") = Linked(t, "ready") \ {to}
      /\ \A r \in Rings \ {"ready"} : Linked(u, r) = Linked(t, r)
  BY <1>2, <1>4, <1>5 DEF Linked
<1>8. u \in Threads
  <2>1. rings \in [Rings -> Seq(Fibers)]
    BY <1>5, <1>6
  <2>2. u.status \in [Fibers -> Status]
    BY <1>1, <1>2, <1>4 DEF Threads, Status
  <2> QED BY <1>1, <1>2, <1>3, <1>4, <2>1, <2>2 DEF Threads
<1>9. Sound(u)
  <2>1. \A r \in Rings : IsInjective(u.ring[r])
    BY <1>4, <1>6
  <2>2. \A g \in Fibers : u.status[g] # "exiting"
    BY <1>1, <1>4 DEF Sound, Threads
  <2>3. \A r, q \in Rings : r # q => Linked(u, r) \cap Linked(u, q) = {}
    BY <1>7 DEF Sound
  <2> QED BY <1>8, <2>1, <2>2, <2>3 DEF Sound
<1> QED BY <1>2, <1>4, <1>7, <1>9 DEF u

\* acl_fiber_switch: the processor goes to a ready fiber or to the event fiber.
LEMMA SwitchLemma ==
    ASSUME NEW t, Sound(t), t.running \in Fibers
    PROVE  LET u == Switch(t)
           IN  /\ Sound(u) /\ u.flag = t.flag
               /\ u.running \in Linked(t, "ready") \cup {None}
               /\ u.running = None => Linked(t, "ready") = {}
               /\ u.running # None => u.status[u.running] = "running"
               /\ Linked(u, "ready") = Linked(t, "ready") \ {u.running}
               /\ \A r \in Rings \ {"ready"} : Linked(u, r) = Linked(t, r)
               /\ u.running # t.running => u.status[t.running] = "suspend"
               /\ \A g \in Fibers \ {t.running, u.running} :
                     u.status[g] = t.status[g]
<1> DEFINE left == [t EXCEPT !.status[t.running] = "suspend"]
           u == Switch(t)
<1>1. t \in Threads /\ "ready" \in Rings
  BY RingsAssumption DEF Sound, RingsAssumption
<1>2. /\ Sound(left) /\ SameBut(t, left, "status") /\ left.ring = t.ring
      /\ left.status = [t.status EXCEPT ![t.running] = "suspend"]
  BY StatusLemma DEF Status
<1>3. u = IF Empty(t, "ready") THEN [left EXCEPT !.running = None]
          ELSE RunFirst(left)
  BY DEF Switch, Sound
<1>4. left.status \in [Fibers -> Status] /\ t.status \in [Fibers -> Status]
  BY <1>1, <1>2 DEF Sound, Threads
<1> HIDE DEF left, u
<1>5. CASE Empty(t, "ready")
  <2>1. Linked(t, "ready") = {}
    BY <1>1, <1>5, LinkedFacts
  <2>2. left \in Threads
    BY <1>2 DEF Sound
  <2>3. /\ u = [ring |-> t.ring, status |-> left.status, flag |-> t.flag,
                running |-> None]
    BY <1>2, <1>3, <1>5, <2>2 DEF Threads, SameBut
  <2>4. Sound(u)
    BY <1>1, <1>2, <1>4, <2>3 DEF Sound, Threads, Linked
  <2> QED BY <1>2, <1>4, <2>1, <2>3, <2>4 DEF Linked, u
<1>6. CASE ~ Empty(t, "ready")
  <2>1. u = RunFirst(left) /\ ~ Empty(left, "ready")
    BY <1>2, <1>3, <1>6 DEF Empty
  <2>2. \A r : Linked(left, r) = Linked(t, r)
    BY <1>2 DEF Linked
  <2>3. /\ Sound(u) /\ u.flag = t.flag
        /\ u.running \in Linked(t, "ready") /\ u.running \in Fibers
        /\ u.status = [left.status EXCEPT ![u.running] = "running"]
        /\ Linked(u, "ready") = Linked(t, "ready") \ {u.running}
        /\ \A r \in Rings \ {"ready"} : Linked(u, r) = Linked(t, r)
    BY <1>2, <2>1, <2>2, RunFirstLemma DEF SameBut
  <2>4. /\ u.status[u.running] = "running"
        /\ \A g \in Fibers \ {u.running} : u.status[g] = left.status[g]
        /\ left.status[t.running] = "suspend"
        /\ \A g \in Fibers \ {t.running} : left.status[g] = t.status[g]
    BY <1>2, <1>4, <2>3
  <2>5. u.running # None
    BY <2>3, NoneAssumption DEF NoneAssumption
  <2> QED BY <2>3, <2>4, <2>5 DEF u
<1> QED BY <1>5, <1>6

-----------------------------------------------------------------------------
(* A thread between two actions *)

\* Nothing is linked twice, and the running fiber is known as such.
Whole(t) ==
    /\ Sound(t)
    /\ Unlinked(t, t.running)
    /\ t.running # None => t.status[t.running] = "running"

\* The fibers that the thread has: they run, or are linked.
Present(t) ==
    {g \in Fibers : g = t.running \/ \E r \in Rings : g \in Linked(t, r)}

\* acl_fiber_yield keeps the set of fibers that run or are ready.
LEMMA YieldLemma ==
    ASSUME NEW t, Whole(t), t.running \in Fibers
    PROVE  LET u == FiberYield(t)
           IN  /\ Whole(u) /\ u.flag = t.flag /\ u.running \in Fibers
               /\ Awake(u) = Awake(t) /\ Present(t) \subseteq Present(u)
               /\ \A r \in Rings \ {"ready"} : Linked(u, r) = Linked(t, r)
               /\ \A g \in Fibers \ Awake(t) : u.status[g] = t.status[g]
<1> DEFINE g == t.running
           n == [t EXCEPT !.status[g] = "none"]
           m == FiberReady(n, g)
           u == FiberYield(t)
<1>0. "ready" \in Rings /\ t \in Threads
  BY RingsAssumption DEF Whole, Sound, RingsAssumption
<1>1. CASE Empty(t, "ready")
  BY <1>1 DEF FiberYield
<1>2. CASE ~ Empty(t, "ready")
  <2>1. u = Switch(m)
    BY <1>2 DEF FiberYield
  <2>2. /\ Sound(n) /\ SameBut(t, n, "status") /\ n.ring = t.ring
        /\ n.status = [t.status EXCEPT ![g] = "none"]
    BY StatusLemma DEF Whole, Status
  <2>3. \A r : Linked(n, r) = Linked(t, r)
    BY <2>2 DEF Linked
  <2> HIDE DEF n
  <2>4. /\ Sound(m) /\ m.flag = n.flag /\ m.running = n.running
        /\ m.status = [n.status EXCEPT ![g] = "ready"]
        /\ Linked(m, "ready") = Linked(n, "ready") \cup {g}
        /\ \A r \in Rings \ {"ready"} : Linked(m, r) = Linked(n, r) \ {g}
    BY <2>2, ReadyLemma
  <2> HIDE DEF m, u
  <2>5. /\ m.flag = t.flag /\ m.running = g
        /\ Linked(m, "ready") = Linked(t, "ready") \cup {g}
        /\ \A r \in Rings \ {"ready"} : Linked(m, r) = Linked(t, r) \ {g}
    BY <2>2, <2>3, <2>4 DEF SameBut
  <2>6. \A r \in Rings : Linked(t, r) \ {g} = Linked(t, r)
    BY DEF Whole, Unlinked
  <2>7. \A h \in Fibers \ {g} : m.status[h] = t.status[h]
    BY <1>0, <2>2, <2>4 DEF Threads, Sound
  <2>8. /\ Sound(u) /\ u.flag = m.flag
        /\ u.running \in Linked(m, "ready") \cup {None}
        /\ u.running = None => Linked(m, "ready") = {}
        /\ u.running # None => u.status[u.running] = "running"
        /\ Linked(u, "ready") = Linked(m, "ready") \ {u.running}
        /\ \A r \in Rings \ {"ready"} : Linked(u, r) = Linked(m, r)
        /\ \A h \in Fibers \ {m.running, u.running} : u.status[h] = m.status[h]
    <3>1. m.running \in Fibers
      BY <2>5
    <3>2. Sound(m)
      BY <2>4
    <3> HIDE DEF g
    <3> QED BY <2>1, <3>1, <3>2, SwitchLemma
  <2>9. \A r \in Rings \ {"ready"} : Linked(u, r) = Linked(t, r)
    BY <2>5, <2>6, <2>8
  <2>10. u.running \in Linked(t, "ready") \cup {g} /\ u.running \in Fibers
    BY <1>0, <2>5, <2>8, LinkedFacts
  <2>11. Awake(u) = Awake(t)
    BY <2>5, <2>8, <2>10 DEF Awake
  <2>12. Unlinked(u, u.running)
    BY <1>0, <2>5, <2>8, <2>9, <2>10 DEF Whole, Sound, Unlinked
  <2>13. Present(t) \subseteq Present(u)
    BY <1>0, <2>5, <2>8, <2>9, <2>10 DEF Present
  <2>14. \A h \in Fibers \ Awake(t) : u.status[h] = t.status[h]
    BY <2>5, <2>7, <2>8, <2>10 DEF Awake
  <2>15. Whole(u)
    BY <2>8, <2>12 DEF Whole
  <2> QED BY <2>5, <2>8, <2>9, <2>10, <2>11, <2>13, <2>14, <2>15 DEF u
<1> QED BY <1>1, <1>2

\* The flags play no part in the integrity of the thread.
LEMMA FlagWhole ==
    ASSUME NEW t, Whole(t), NEW g \in Fibers, NEW x \in Flags,
           NEW u, u = SetFlag(t, g, x) \/ u = ClearFlag(t, g, x)
    PROVE  /\ Whole(u) /\ u.running = t.running /\ u.status = t.status
           /\ \A r : Linked(u, r) = Linked(t, r)
           /\ Awake(u) = Awake(t) /\ Present(u) = Present(t)
           /\ \A h \in Fibers \ {g} : u.flag[h] = t.flag[h]
           /\ u.flag[g] = (t.flag[g] \cup {x}) \/ u.flag[g] = (t.flag[g] \ {x})
<1>1. Sound(u) /\ SameBut(t, u, "flag") /\ u.ring = t.ring
  BY FlagLemma DEF Whole
<1>2. \A r : Linked(u, r) = Linked(t, r)
  BY <1>1 DEF Linked
<1>3. /\ \A h \in Fibers \ {g} : u.flag[h] = t.flag[h]
      /\ u.flag[g] = (t.flag[g] \cup {x}) \/ u.flag[g] = (t.flag[g] \ {x})
  BY DEF Whole, Sound, Threads, SetFlag, ClearFlag
<1> QED BY <1>1, <1>2, <1>3
        DEF Whole, Unlinked, SameBut, Awake, Present

\* FIBER_READY of a fiber that does not run, linked or already detached.
LEMMA WakeLemma ==
    ASSUME NEW t, Whole(t), NEW g \in Fibers, g # t.running,
           NEW u, u = FiberReady(t, g) \/ u = FiberReady(RingDetach(t, g), g)
    PROVE  /\ Whole(u) /\ u.running = t.running /\ u.flag = t.flag
           /\ u.status = [t.status EXCEPT ![g] = "ready"]
           /\ Linked(u, "ready") = Linked(t, "ready") \cup {g}
           /\ \A r \in Rings \ {"ready"} : Linked(u, r) = Linked(t, r) \ {g}
           /\ Awake(u) = Awake(t) \cup {g}
           /\ Present(u) = Present(t) \cup {g}
<1>0. "ready" \in Rings /\ t \in Threads /\ Sound(t)
  BY RingsAssumption DEF Whole, Sound, RingsAssumption
<1>1. /\ Sound(u) /\ u.running = t.running /\ u.flag = t.flag
      /\ u.status = [t.status EXCEPT ![g] = "ready"]
      /\ Linked(u, "ready") = Linked(t, "ready") \cup {g}
      /\ \A r \in Rings \ {"ready"} : Linked(u, r) = Linked(t, r) \ {g}
  <2>1. CASE u = FiberReady(t, g)
    BY <1>0, <2>1, ReadyLemma
  <2>2. CASE u = FiberReady(RingDetach(t, g), g)
    <3> DEFINE d == RingDetach(t, g)
    <3>1. /\ Sound(d) /\ SameBut(t, d, "ring")
          /\ \A r \in Rings : Linked(d, r) = Linked(t, r) \ {g}
      BY <1>0, DetachLemma
    <3> HIDE DEF d
    <3>2. /\ Sound(u) /\ u.flag = d.flag /\ u.running = d.running
          /\ u.status = [d.status EXCEPT ![g] = "ready"]
          /\ Linked(u, "ready") = Linked(d, "ready") \cup {g}
          /\ \A r \in Rings \ {"ready"} : Linked(u, r) = Linked(d, r) \ {g}
      BY <2>2, <3>1, ReadyLemma DEF d
    <3> QED BY <1>0, <3>1, <3>2 DEF SameBut
  <2> QED BY <2>1, <2>2
<1>2. Unlinked(u, u.running)
  BY <1>1 DEF Whole, Unlinked
<1>3. Awake(u) = Awake(t) \cup {g} /\ Present(u) = Present(t) \cup {g}
  BY <1>0, <1>1 DEF Awake, Present
<1>4. u.running # None => u.status[u.running] = "running"
  BY <1>0, <1>1 DEF Whole, Threads
<1> QED BY <1>1, <1>2, <1>3, <1>4 DEF Whole

\* An unlock makes the fiber g of ring r ready, and yields.
LEMMA HandOverLemma ==
    ASSUME NEW t, Whole(t), t.running \in Fibers,
           NEW r \in Rings \ {"ready"}, NEW g \in Linked(t, r),
           NEW m, m = FiberReady(t, g) \/ m = FiberReady(RingDetach(t, g), g),
           NEW u, u = FiberYield(m)
    PROVE  /\ g \in Fibers
           /\ Whole(u) /\ u.running \in Fibers /\ u.flag = t.flag
           /\ Awake(u) = Awake(t) \cup {g} /\ Present(t) \subseteq Present(u)
           /\ Linked(u, r) = Linked(t, r) \ {g}
           /\ \A q \in Rings \ {"ready", r} : Linked(u, q) = Linked(t, q)
           /\ \A h \in Fibers \ (Awake(t) \cup {g}) : u.status[h] = t.status[h]
<1>1. /\ t \in Threads /\ g \in Fibers /\ g # t.running
      /\ \A q \in Rings \ {r} : g \notin Linked(t, q)
  <2>1. t \in Threads
    BY DEF Whole, Sound
  <2> QED BY <2>1, LinkedFacts DEF Whole, Sound, Unlinked
<1>2. /\ Whole(m) /\ m.running = t.running /\ m.flag = t.flag
      /\ m.status = [t.status EXCEPT ![g] = "ready"]
      /\ \A q \in Rings \ {"ready"} : Linked(m, q) = Linked(t, q) \ {g}
      /\ Awake(m) = Awake(t) \cup {g} /\ Present(m) = Present(t) \cup {g}
  BY <1>1, WakeLemma
<1>3. /\ Whole(u) /\ u.flag = m.flag /\ u.running \in Fibers
      /\ Awake(u) = Awake(m) /\ Present(m) \subseteq Present(u)
      /\ \A q \in Rings \ {"ready"} : Linked(u, q) = Linked(m, q)
      /\ \A h \in Fibers \ Awake(m) : u.status[h] = m.status[h]
  BY <1>2, YieldLemma
<1>4. \A h \in Fibers \ {g} : m.status[h] = t.status[h]
  BY <1>1, <1>2 DEF Threads
<1>5. \A q \in Rings \ {"ready", r} : Linked(u, q) = Linked(t, q)
  <2>1. \A q \in Rings \ {"ready", r} : g \notin Linked(t, q)
    BY <1>1
  <2>2. \A q \in Rings \ {"ready"} : Linked(u, q) = Linked(t, q) \ {g}
    BY <1>2, <1>3
  <2> QED BY <2>1, <2>2
<1>6. \A h \in Fibers \ (Awake(t) \cup {g}) : u.status[h] = t.status[h]
  BY <1>2, <1>3, <1>4
<1>7. Linked(u, r) = Linked(t, r) \ {g}
  BY <1>2, <1>3
<1>8. Awake(u) = Awake(t) \cup {g} /\ Present(t) \subseteq Present(u)
  BY <1>2, <1>3
<1> QED BY <1>1, <1>2, <1>3, <1>5, <1>6, <1>7, <1>8

\* Detaching the running fiber, as a call does when it is back from its switch,
\* changes no ring.
LEMMA DetachRunningLemma ==
    ASSUME NEW t, Whole(t), t.running \in Fibers,
           NEW u, u = RingDetach(t, t.running)
    PROVE  /\ Whole(u) /\ SameBut(t, u, "ring")
           /\ \A r \in Rings : Linked(u, r) = Linked(t, r)
           /\ Awake(u) = Awake(t) /\ Present(u) = Present(t)
<1>1. "ready" \in Rings
  BY RingsAssumption DEF RingsAssumption
<1>2. /\ Sound(u) /\ SameBut(t, u, "ring")
      /\ \A r \in Rings : Linked(u, r) = Linked(t, r) \ {t.running}
  BY DetachLemma DEF Whole
<1>3. \A r \in Rings : Linked(u, r) = Linked(t, r)
  BY <1>2 DEF Whole, Unlinked
<1> QED BY <1>1, <1>2, <1>3 DEF Whole, Unlinked, SameBut, Awake, Present

\* The running fiber, which is not ready, is switched away.
LEMMA SwitchAwayLemma ==
    ASSUME NEW p, Sound(p), p.running \in Fibers,
           p.running \notin Linked(p, "ready"), NEW u, u = Switch(p)
    PROVE  /\ Whole(u) /\ u.flag = p.flag
           /\ \A r \in Rings \ {"ready"} : Linked(u, r) = Linked(p, r)
           /\ Awake(p) \ {p.running} \subseteq Awake(u)
           /\ Awake(u) \subseteq Awake(p) \cup {None}
           /\ Present(p) \ {p.running} \subseteq Present(u)
           /\ p.running \notin Awake(u)
           /\ u.status[p.running] = "suspend"
           /\ \A h \in Fibers \ Awake(p) : u.status[h] = p.status[h]
<1> DEFINE g == p.running
<1>0. "ready" \in Rings /\ p \in Threads
  BY RingsAssumption DEF Sound, RingsAssumption
<1>1. /\ Sound(u) /\ u.flag = p.flag
      /\ u.running \in Linked(p, "ready") \cup {None}
      /\ u.running = None => Linked(p, "ready") = {}
      /\ u.running # None => u.status[u.running] = "running"
      /\ Linked(u, "ready") = Linked(p, "ready") \ {u.running}
      /\ \A r \in Rings \ {"ready"} : Linked(u, r) = Linked(p, r)
      /\ u.running # p.running => u.status[p.running] = "suspend"
      /\ \A h \in Fibers \ {p.running, u.running} : u.status[h] = p.status[h]
  <2> HIDE DEF g
  <2> QED BY SwitchLemma
<1>2. u.running # g
  BY <1>1, NoneAssumption DEF NoneAssumption
<1>3. /\ Awake(p) \ {g} \subseteq Awake(u) /\ g \notin Awake(u)
      /\ Awake(u) \subseteq Awake(p) \cup {None}
  BY <1>1, <1>2 DEF Awake
<1>4. \A h \in Fibers \ Awake(p) : u.status[h] = p.status[h]
  <2>1. \A h \in Fibers \ Awake(p) : h # u.running
    BY <1>1, NoneAssumption DEF Awake, NoneAssumption
  <2> QED BY <1>1, <2>1 DEF Awake
<1>5. Unlinked(u, u.running)
  <2>1. CASE u.running = None
    <3>1. \A r \in Rings : Linked(u, r) \subseteq Fibers
      BY <1>1, LinkedFacts DEF Sound
    <3> QED BY <2>1, <3>1, NoneAssumption DEF Unlinked, NoneAssumption
  <2>2. CASE u.running \in Linked(p, "ready")
    <3>1. \A r \in Rings \ {"ready"} : u.running \notin Linked(p, r)
      BY <1>0, <2>2 DEF Sound
    <3> QED BY <1>1, <3>1 DEF Unlinked
  <2> QED BY <1>1, <2>1, <2>2
<1>6. Present(p) \ {g} \subseteq Present(u)
  BY <1>0, <1>1 DEF Present
<1>7. Whole(u)
  BY <1>1, <1>5 DEF Whole
<1> QED BY <1>1, <1>2, <1>3, <1>4, <1>6, <1>7

\* The running fiber joins ring q and is switched away.
LEMMA SuspendLemma ==
    ASSUME NEW t, Whole(t), t.running \in Fibers, NEW q \in Rings \ {"ready"},
           NEW p, \/ p = RingPrepend(t, q, t.running)
                  \/ p = RingPrepend(RingDetach(t, t.running), q, t.running),
           NEW u, u = Switch(p)
    PROVE  /\ Whole(u) /\ u.flag = t.flag
           /\ Linked(u, q) = Linked(t, q) \cup {t.running}
           /\ \A r \in Rings \ {"ready", q} : Linked(u, r) = Linked(t, r)
           /\ Awake(t) \ {t.running} \subseteq Awake(u)
           /\ Awake(u) \subseteq Awake(t) \cup {None}
           /\ Present(t) \subseteq Present(u)
           /\ t.running \notin Awake(u)
           /\ u.status[t.running] = "suspend"
           /\ \A h \in Fibers \ Awake(t) : u.status[h] = t.status[h]
<1> DEFINE g == t.running
<1>0. "ready" \in Rings /\ t \in Threads /\ Sound(t) /\ Unlinked(t, g)
  BY RingsAssumption DEF Whole, Sound, RingsAssumption
<1>1. /\ Sound(p) /\ SameBut(t, p, "ring")
      /\ Linked(p, q) = Linked(t, q) \cup {g}
      /\ \A r \in Rings \ {q} : Linked(p, r) = Linked(t, r)
  <2>1. CASE p = RingPrepend(t, q, g)
    BY <1>0, <2>1, PrependLemma
  <2>2. CASE p = RingPrepend(RingDetach(t, g), q, g)
    <3> DEFINE d == RingDetach(t, g)
    <3>1. /\ Sound(d) /\ SameBut(t, d, "ring")
          /\ \A r \in Rings : Linked(d, r) = Linked(t, r) \ {g}
      BY <1>0, DetachLemma
    <3> HIDE DEF d
    <3>2. Unlinked(d, g) /\ \A r \in Rings : Linked(d, r) = Linked(t, r)
      BY <1>0, <3>1 DEF Unlinked
    <3>3. /\ Sound(p) /\ SameBut(d, p, "ring")
          /\ Linked(p, q) = Linked(d, q) \cup {g}
          /\ \A r \in Rings \ {q} : Linked(p, r) = Linked(d, r)
      BY <2>2, <3>1, <3>2, PrependLemma DEF d
    <3> QED BY <3>1, <3>2, <3>3 DEF SameBut
  <2> QED BY <2>1, <2>2
<1>2. p.running = g /\ p.flag = t.flag /\ p.status = t.status
  BY <1>1 DEF SameBut
<1>3. /\ Linked(p, "ready") = Linked(t, "ready") /\ g \notin Linked(t, "ready")
      /\ Awake(p) = Awake(t)
  BY <1>0, <1>1, <1>2 DEF Unlinked, Awake
<1>4. /\ Whole(u) /\ u.flag = p.flag
      /\ \A r \in Rings \ {"ready"} : Linked(u, r) = Linked(p, r)
      /\ Awake(p) \ {p.running} \subseteq Awake(u)
      /\ Awake(u) \subseteq Awake(p) \cup {None}
      /\ Present(p) \ {p.running} \subseteq Present(u)
      /\ p.running \notin Awake(u)
      /\ u.status[p.running] = "suspend"
      /\ \A h \in Fibers \ Awake(p) : u.status[h] = p.status[h]
  <2>1. Sound(p) /\ p.running \in Fibers /\ p.running \notin Linked(p, "ready")
    BY <1>1, <1>2, <1>3
  <2> HIDE DEF g
  <2> QED BY <2>1, SwitchAwayLemma
<1>5. /\ \A r \in Rings \ {"ready", q} : Linked(u, r) = Linked(t, r)
      /\ Linked(u, q) = Linked(t, q) \cup {g}
  BY <1>1, <1>4
<1>6. Present(t) \subseteq Present(u)
  <2>1. Present(t) \subseteq Present(p)
    BY <1>0, <1>1, <1>2 DEF Present
  <2>2. g \in Present(u)
    BY <1>5 DEF Present
  <2> QED BY <1>2, <1>4, <2>1, <2>2
<1> QED BY <1>2, <1>3, <1>4, <1>5, <1>6

\* The event fiber's turn to yield brings back the first ready fiber.
LEMMA DispatchLemma ==
    ASSUME NEW t, Whole(t), t.running = None, ~ Empty(t, "ready"),
           NEW u, u = RunFirst(t)
    PROVE  /\ Whole(u) /\ u.flag = t.flag
           /\ Awake(t) \ {None} \subseteq Awake(u)
           /\ Awake(u) \subseteq Awake(t) /\ Present(t) \subseteq Present(u)
           /\ \A r \in Rings \ {"ready"} : Linked(u, r) = Linked(t, r)
           /\ \A h \in Fibers \ Awake(t) : u.status[h] = t.status[h]
<1>0. "ready" \in Rings /\ t \in Threads /\ Sound(t)
  BY RingsAssumption DEF Whole, Sound, RingsAssumption
<1>1. /\ Sound(u) /\ u.flag = t.flag
      /\ u.running \in Linked(t, "ready") /\ u.running \in Fibers
      /\ u.status = [t.status EXCEPT ![u.running] = "running"]
      /\ Linked(u, "ready") = Linked(t, "ready") \ {u.running}
      /\ \A r \in Rings \ {"ready"} : Linked(u, r) = Linked(t, r)
  BY <1>0, RunFirstLemma
<1>2. Unlinked(u, u.running)
  BY <1>0, <1>1 DEF Sound, Unlinked
<1>3. Present(t) \subseteq Present(u)
  BY <1>0, <1>1, NoneAssumption DEF Present, NoneAssumption
<1>4. u.status[u.running] = "running"
  BY <1>0, <1>1 DEF Threads
<1>5. \A h \in Fibers \ Awake(t) : u.status[h] = t.status[h]
  BY <1>0, <1>1 DEF Awake, Threads
<1> QED BY <1>1, <1>2, <1>3, <1>4, <1>5 DEF Whole, Awake

-----------------------------------------------------------------------------
(* A ring other than the ready one, looked at as a sequence: the operators *)
(* leave it alone, append to it, or remove a fiber.                        *)

\* ring_detach removes the fiber from whatever ring it is in.
LEMMA DetachRing ==
    ASSUME NEW t \in Threads, NEW g, NEW r \in Rings
    PROVE  RingDetach(t, g).ring[r] = RemoveFirst(t.ring[r], g)
BY DEF RingDetach, Threads

\* ring_prepend touches only the ring that it is given.
LEMMA PrependRing ==
    ASSUME NEW t \in Threads, NEW q \in Rings, NEW g, NEW r \in Rings
    PROVE  RingPrepend(t, q, g).ring[r] =
               IF r = q THEN Append(t.ring[r], g) ELSE t.ring[r]
BY DEF RingPrepend, Threads

\* FIBER_READY takes the fiber out of its ring.
LEMMA ReadyRing ==
    ASSUME NEW t, Sound(t), NEW g \in Fibers, NEW r \in Rings \ {"ready"}
    PROVE  FiberReady(t, g).ring[r] = RemoveFirst(t.ring[r], g)
<1> DEFINE d == RingDetach(t, g)
           p == RingPrepend(d, "ready", g)
<1>1. "ready" \in Rings /\ t \in Threads /\ d \in Threads
  BY DetachLemma, RingsAssumption DEF Sound, RingsAssumption
<1>2. d.ring[r] = RemoveFirst(t.ring[r], g)
  BY <1>1, DetachRing
<1>3. p.ring[r] = d.ring[r]
  BY <1>1, PrependRing
<1>4. FiberReady(t, g) = [p EXCEPT !.status[g] = "ready"]
  BY DEF FiberReady, Sound
<1>5. [p EXCEPT !.status[g] = "ready"].ring = p.ring
  BY <1>1 DEF RingPrepend, Threads
<1> QED BY <1>2, <1>3, <1>4, <1>5

\* A switch pops the ready ring only.
LEMMA SwitchRing ==
    ASSUME NEW t \in Threads, NEW r \in Rings \ {"ready"}
    PROVE  RunFirst(t).ring[r] = t.ring[r] /\ Switch(t).ring[r] = t.ring[r]
<1>1. "ready" \in Rings
  BY RingsAssumption DEF RingsAssumption
<1>2. ASSUME NEW x \in Threads
      PROVE  RunFirst(x).ring[r] = x.ring[r]
  BY <1>1 DEF RunFirst, Threads
<1>3. RunFirst(t).ring[r] = t.ring[r]
  BY <1>2
<1> DEFINE from == t.running
           s == [t EXCEPT !.status[from] = "suspend"]
<1>4. s.ring = t.ring /\ s \in Threads
  BY DEF Threads, Status
<1>5. RunFirst(s).ring[r] = t.ring[r]
  BY <1>2, <1>4
<1>6. [s EXCEPT !.running = None].ring = t.ring
  BY <1>4 DEF Threads
<1>7. [t EXCEPT !.running = None].ring = t.ring
  BY DEF Threads
<1> QED BY <1>3, <1>5, <1>6, <1>7 DEF Switch

\* A fiber that yields is in no such ring, so its FIBER_READY disturbs none.
LEMMA YieldRing ==
    ASSUME NEW t, Whole(t), t.running \in Fibers, NEW r \in Rings \ {"ready"}
    PROVE  FiberYield(t).ring[r] = t.ring[r]
<1> DEFINE g == t.running
           n == [t EXCEPT !.status[g] = "none"]
           m == FiberReady(n, g)
<1>1. t \in Threads /\ Sound(t) /\ g \notin Linked(t, r)
  BY DEF Whole, Sound, Unlinked
<1>2. Sound(n) /\ n.ring = t.ring
  BY <1>1, StatusLemma DEF Status
<1> HIDE DEF n
<1>3. m.ring[r] = RemoveFirst(t.ring[r], g)
  BY <1>2, ReadyRing
<1>4. RemoveFirst(t.ring[r], g) = t.ring[r]
  <2>1. t.ring[r] \in Seq(Fibers) /\ g \notin Range(t.ring[r])
    BY <1>1 DEF Threads, Linked
  <2> QED BY <2>1, RemoveFirstAbsent
<1>5. m \in Threads
  BY <1>2, ReadyLemma DEF Sound
<1> HIDE DEF m
<1>6. Switch(m).ring[r] = m.ring[r]
  BY <1>5, SwitchRing
<1>7. FiberYield(t) = IF Empty(t, "ready") THEN t ELSE Switch(m)
  BY DEF FiberYield, m, n
<1> QED BY <1>3, <1>4, <1>6, <1>7

\* What a step of the thread t to u leaves of the rings of the primitives: a
\* fiber that goes is awake, and one that stays is undisturbed.
Kept(t, u) ==
    \A r \in Rings \ {"ready", "timer"} :
        /\ Linked(u, r) \subseteq Linked(t, r)
        /\ \A g \in Linked(t, r) : g \in Linked(u, r) \/ g \in Awake(u)
        /\ \A g \in Linked(u, r) : u.status[g] = t.status[g]

\* A fiber in a ring other than the ready one neither runs nor is ready.
LEMMA NotAwake ==
    ASSUME NEW t, Whole(t), NEW r \in Rings \ {"ready"}
    PROVE  Linked(t, r) \subseteq Fibers \ Awake(t)
<1>1. "ready" \in Rings /\ t \in Threads
  BY RingsAssumption DEF Whole, Sound, RingsAssumption
<1>2. Linked(t, r) \subseteq Fibers
  BY <1>1, LinkedFacts
<1> QED BY <1>1, <1>2 DEF Whole, Sound, Unlinked, Awake

\* Rings that stay as they are, with the status of the fibers that sleep.
LEMMA KeptLemma ==
    ASSUME NEW t, Whole(t), NEW u,
           \A r \in Rings \ {"ready", "timer"} : Linked(u, r) = Linked(t, r),
           \A g \in Fibers \ Awake(t) : u.status[g] = t.status[g]
    PROVE  Kept(t, u)
BY NotAwake DEF Kept

\* A kill makes a sleeping fiber ready, and takes it out of its ring.
LEMMA SignalLemma ==
    ASSUME NEW t, Whole(t), NEW g \in Fibers,
           NEW u, u = FiberSignal(t, g)
    PROVE  /\ Whole(u) /\ u.running = t.running
           /\ Awake(t) \subseteq Awake(u) /\ Awake(u) \subseteq Awake(t) \cup {g}
           /\ Present(t) \subseteq Present(u)
           /\ Kept(t, u)
           /\ \A r \in Rings \ {"ready"} : Linked(u, r) \subseteq Linked(t, r)
           /\ \A h \in Fibers \ {g} : u.flag[h] = t.flag[h]
           /\ u.flag[g] = t.flag[g] \cup {"canceled"}
           /\ \A h \in Fibers \ {g} : u.status[h] = t.status[h]
           /\ t.status[g] # "suspend" => u = SetFlag(t, g, "canceled")
<1> DEFINE s == SetFlag(t, g, "canceled")
<1>1. /\ Whole(s) /\ s.running = t.running /\ s.status = t.status
      /\ \A r : Linked(s, r) = Linked(t, r)
      /\ Awake(s) = Awake(t) /\ Present(s) = Present(t)
  BY FlagWhole DEF Flags
<1>2. u = IF s.status[g] = "suspend" THEN FiberReady(s, g) ELSE s
  BY DEF FiberSignal
<1>3. /\ \A h \in Fibers \ {g} : s.flag[h] = t.flag[h]
      /\ s.flag[g] = t.flag[g] \cup {"canceled"}
  BY DEF SetFlag, Whole, Sound, Threads
<1> HIDE DEF s
<1>4. CASE s.status[g] # "suspend"
  <2>1. u = s
    BY <1>2, <1>4
  <2>2. Kept(t, u)
    BY <1>1, <2>1, KeptLemma
  <2> QED BY <1>1, <1>3, <2>1, <2>2 DEF s
<1>5. CASE s.status[g] = "suspend"
  <2>1. u = FiberReady(s, g) /\ g # s.running
    BY <1>1, <1>2, <1>5, NoneAssumption DEF Whole, NoneAssumption
  <2>2. /\ Whole(u) /\ u.running = s.running /\ u.flag = s.flag
        /\ u.status = [s.status EXCEPT ![g] = "ready"]
        /\ \A r \in Rings \ {"ready"} : Linked(u, r) = Linked(s, r) \ {g}
        /\ Awake(u) = Awake(s) \cup {g} /\ Present(u) = Present(s) \cup {g}
    BY <1>1, <2>1, WakeLemma
  <2>3. /\ \A r \in Rings \ {"ready"} : Linked(u, r) = Linked(t, r) \ {g}
        /\ u.status = [t.status EXCEPT ![g] = "ready"]
        /\ Awake(u) = Awake(t) \cup {g}
    BY <1>1, <2>2
  <2>4. t.status \in [Fibers -> Status]
    BY DEF Whole, Sound, Threads
  <2>5. \A h \in Fibers \ {g} : u.status[h] = t.status[h]
    BY <2>3, <2>4
  <2>6. Kept(t, u)
    BY <2>3, <2>5, NotAwake DEF Kept
  <2> QED BY <1>1, <1>3, <1>5, <2>2, <2>3, <2>5, <2>6
<1> QED BY <1>4, <1>5

\* The timer takes a fiber out of its node and makes it ready.
LEMMA TimerWakeLemma ==
    ASSUME NEW t, Whole(t), NEW g \in Linked(t, "timer"),
           NEW u, u = TimerWake(t, g)
    PROVE  /\ Whole(u) /\ u.running = t.running
           /\ Awake(u) = Awake(t) \cup {g} /\ Present(t) \subseteq Present(u)
           /\ Kept(t, u)
           /\ \A h \in Fibers \ {g} : u.flag[h] = t.flag[h]
           /\ u.flag[g] = t.flag[g] \cup {"timer"}
<1> DEFINE s == SetFlag(t, g, "timer")
<1>1. /\ "timer" \in Rings \ {"ready"} /\ t \in Threads
      /\ g \in Fibers /\ g # t.running
      /\ \A r \in Rings \ {"timer"} : g \notin Linked(t, r)
  <2>1. "timer" \in Rings \ {"ready"} /\ t \in Threads
    BY RingsAssumption DEF RingsAssumption, Whole, Sound
  <2> QED BY <2>1, LinkedFacts DEF Whole, Sound, Unlinked
<1>2. /\ Whole(s) /\ s.running = t.running /\ s.status = t.status
      /\ \A r : Linked(s, r) = Linked(t, r)
      /\ Awake(s) = Awake(t) /\ Present(s) = Present(t)
  BY <1>1, FlagWhole DEF Flags
<1>3. /\ \A h \in Fibers \ {g} : s.flag[h] = t.flag[h]
      /\ s.flag[g] = t.flag[g] \cup {"timer"}
  BY <1>1 DEF SetFlag, Threads
<1>4. u = FiberReady(RingDetach(s, g), g)
  BY DEF TimerWake
<1> HIDE DEF s
<1>5. /\ Whole(u) /\ u.running = s.running /\ u.flag = s.flag
      /\ u.status = [s.status EXCEPT ![g] = "ready"]
      /\ \A r \in Rings \ {"ready"} : Linked(u, r) = Linked(s, r) \ {g}
      /\ Awake(u) = Awake(s) \cup {g} /\ Present(u) = Present(s) \cup {g}
  BY <1>1, <1>2, <1>4, WakeLemma
<1>6. \A r \in Rings \ {"ready", "timer"} : Linked(u, r) = Linked(t, r)
  BY <1>1, <1>2, <1>5
<1>7. \A r \in Rings \ {"ready", "timer"} : \A h \in Linked(u, r) :
         u.status[h] = t.status[h]
  <2>1. \A h \in Fibers \ {g} : u.status[h] = t.status[h]
    BY <1>1, <1>2, <1>5 DEF Threads
  <2> QED BY <1>1, <1>6, <2>1, NotAwake
<1>8. Kept(t, u)
  BY <1>6, <1>7 DEF Kept
<1> QED BY <1>2, <1>3, <1>5, <1>8

-----------------------------------------------------------------------------
(* The threads that components start from *)

\* The sequences of SetToSeqs have each member once.
LEMMA SetToSeqsIs ==
    ASSUME NEW S, IsFiniteSet(S), NEW order \in SetToSeqs(S)
    PROVE  /\ order \in Seq(S) /\ IsInjective(order) /\ Range(order) = S
           /\ DOMAIN order = 1..Len(order)
<1> DEFINE n == Cardinality(S)
<1>1. n \in Nat
  BY FS_CardinalityType
<1>2. /\ order \in [1..n -> S]
      /\ \A i, j \in 1..n : i # j => order[i] # order[j]
  BY DEF SetToSeqs
<1>3. order \in Seq(S) /\ IsInjective(order) /\ DOMAIN order = 1..n
  BY <1>1, <1>2 DEF IsInjective
<1>4. order \in Surjection(1..n, S)
  <2>1. order \in Injection(1..n, S)
    BY <1>2, <1>3 DEF Injection
  <2>2. Cardinality(1..n) = n
    BY <1>1, FS_Interval
  <2> QED BY <2>1, <2>2, FS_Injection
<1>5. Range(order) = S
  BY <1>2, <1>3, <1>4 DEF Surjection, Range
<1> QED BY <1>3, <1>5

\* A thread whose fibers are all in the ready ring, and none runs.
LEMMA FreshLemma ==
    ASSUME NEW S, S \subseteq Fibers, NEW order \in Seq(S), IsInjective(order),
           Range(order) = S, NEW t, t \in Threads,
           t.ring = FreshThread(order).ring, t.running = None,
           \A g \in Fibers : t.status[g] # "exiting"
    PROVE  /\ Whole(t) /\ Present(t) = S /\ Awake(t) = S \cup {None}
           /\ \A r \in Rings \ {"ready"} : Linked(t, r) = {}
<1>1. /\ t.ring = [r \in Rings |-> IF r = "ready" THEN order ELSE << >>]
      /\ "ready" \in Rings
  BY RingsAssumption DEF FreshThread, RingsAssumption
<1>2. IsInjective(<< >>) /\ Range(<< >>) = {}
  BY DEF IsInjective, Range
<1>3. /\ Linked(t, "ready") = S
      /\ \A r \in Rings \ {"ready"} : Linked(t, r) = {}
      /\ \A r \in Rings : IsInjective(t.ring[r])
  BY <1>1, <1>2 DEF Linked
<1>4. Sound(t)
  BY <1>3 DEF Sound
<1>5. Whole(t)
  BY <1>3, <1>4, NoneAssumption DEF Whole, Unlinked, NoneAssumption
<1>6. Present(t) = S
  BY <1>1, <1>3, NoneAssumption DEF Present, NoneAssumption
<1> QED BY <1>3, <1>5, <1>6 DEF Awake

\* It is a thread.
LEMMA FreshIs ==
    ASSUME NEW order \in Seq(Fibers)
    PROVE  FreshThread(order) \in Threads
<1>1. << >> \in Seq(Fibers)
  OBVIOUS
<1>2. [r \in Rings |-> IF r = "ready" THEN order ELSE << >>] \in [Rings -> Seq(Fibers)]
  BY <1>1
<1> QED BY <1>2 DEF FreshThread, Threads, Status

-----------------------------------------------------------------------------
(* A thread whose running fiber may be in the timer already, as it is in a    *)
(* wait of the condition that has not switched yet                            *)

Firm(t) ==
    /\ Sound(t)
    /\ t.running \notin Linked(t, "ready")
    /\ t.running # None => t.status[t.running] = "running"

\* The status of the ready fibers of S tells so; that of a fiber which has
\* yielded does not.
Listed(t, S) == \A g \in S \cap Linked(t, "ready") : t.status[g] = "ready"

\* From t to u nothing happens to f, except that it may get the processor.
Alike(t, u, f) ==
    /\ f \in Awake(u) <=> f \in Awake(t)
    /\ f \notin Awake(t) => u.status[f] = t.status[f]
    /\ f \in Linked(u, "timer") <=> f \in Linked(t, "timer")
    /\ u.flag[f] = t.flag[f]
    /\ t.running = f => u.running = f

LEMMA WholeIsFirm ==
    ASSUME NEW t, Whole(t)
    PROVE  Firm(t)
BY RingsAssumption DEF Whole, Firm, Unlinked, RingsAssumption

\* It is whole if the timer does not have the running fiber.
LEMMA FirmIsWhole ==
    ASSUME NEW t, Firm(t), Rings = {"ready", "timer"},
           t.running \notin Linked(t, "timer")
    PROVE  Whole(t)
BY DEF Whole, Firm, Unlinked

LEMMA FirmFlag ==
    ASSUME NEW t, Firm(t), NEW g \in Fibers, NEW x \in Flags,
           NEW u, u = SetFlag(t, g, x) \/ u = ClearFlag(t, g, x)
    PROVE  /\ Firm(u) /\ u.running = t.running /\ u.status = t.status
           /\ \A S : Listed(t, S) => Listed(u, S)
           /\ \A r : Linked(u, r) = Linked(t, r)
           /\ Awake(u) = Awake(t)
           /\ \A h \in Fibers \ {g} : Alike(t, u, h)
           /\ u = SetFlag(t, g, x) => u.flag[g] = t.flag[g] \cup {x}
           /\ u = ClearFlag(t, g, x) => u.flag[g] = t.flag[g] \ {x}
<1>1. Sound(u) /\ SameBut(t, u, "flag") /\ u.ring = t.ring
  BY FlagLemma DEF Firm
<1>2. \A r : Linked(u, r) = Linked(t, r)
  BY <1>1 DEF Linked
<1>3. /\ \A h \in Fibers \ {g} : u.flag[h] = t.flag[h]
      /\ u = SetFlag(t, g, x) => u.flag[g] = t.flag[g] \cup {x}
      /\ u = ClearFlag(t, g, x) => u.flag[g] = t.flag[g] \ {x}
  BY DEF Firm, Sound, Threads, SetFlag, ClearFlag
<1>4. /\ Firm(u) /\ u.running = t.running /\ u.status = t.status
      /\ Awake(u) = Awake(t)
      /\ \A S : Listed(t, S) => Listed(u, S)
  BY <1>1, <1>2 DEF Firm, SameBut, Awake, Listed
<1> QED BY <1>2, <1>3, <1>4 DEF Alike

LEMMA FirmWake ==
    ASSUME NEW t, Firm(t), NEW g \in Fibers, g # t.running,
           NEW u, u = FiberReady(t, g)
    PROVE  /\ Firm(u) /\ u.running = t.running /\ u.flag = t.flag
           /\ \A S : Listed(t, S) => Listed(u, S)
           /\ Awake(u) = Awake(t) \cup {g}
           /\ Linked(u, "timer") = Linked(t, "timer") \ {g}
           /\ \A h \in Fibers \ {g} : Alike(t, u, h)
<1>0. {"ready", "timer"} \subseteq Rings
  BY RingsAssumption DEF RingsAssumption
<1>1. /\ Sound(u) /\ u.flag = t.flag /\ u.running = t.running
      /\ u.status = [t.status EXCEPT ![g] = "ready"]
      /\ Linked(u, "ready") = Linked(t, "ready") \cup {g}
      /\ \A r \in Rings \ {"ready"} : Linked(u, r) = Linked(t, r) \ {g}
  BY ReadyLemma DEF Firm
<1>2. /\ u.status[g] = "ready"
      /\ \A h \in Fibers \ {g} : u.status[h] = t.status[h]
      /\ t.running # None => u.status[t.running] = t.status[t.running]
  BY <1>1 DEF Firm, Sound, Threads
<1>3. Linked(u, "timer") = Linked(t, "timer") \ {g}
  BY <1>0, <1>1
<1>4. Awake(u) = Awake(t) \cup {g}
  BY <1>1 DEF Awake
<1>5. \A S : Listed(t, S) => Listed(u, S)
  <2>1. Linked(t, "ready") \subseteq Fibers
    BY <1>0, LinkedFacts DEF Firm, Sound
  <2> QED BY <1>1, <1>2, <2>1 DEF Listed
<1> QED BY <1>1, <1>2, <1>3, <1>4, <1>5 DEF Firm, Alike

LEMMA FirmDispatch ==
    ASSUME NEW t, Firm(t), t.running = None, ~ Empty(t, "ready"),
           NEW u, u = RunFirst(t)
    PROVE  /\ Firm(u)
           /\ \A S : Listed(t, S) => Listed(u, S)
           /\ Linked(u, "timer") = Linked(t, "timer")
           /\ \A h \in Fibers : Alike(t, u, h)
<1>0. {"ready", "timer"} \subseteq Rings /\ None \notin Fibers
  BY RingsAssumption, NoneAssumption DEF RingsAssumption, NoneAssumption
<1>1. /\ Sound(u) /\ u.flag = t.flag
      /\ u.running \in Linked(t, "ready") /\ u.running \in Fibers
      /\ u.status = [t.status EXCEPT ![u.running] = "running"]
      /\ Linked(u, "ready") = Linked(t, "ready") \ {u.running}
      /\ \A r \in Rings \ {"ready"} : Linked(u, r) = Linked(t, r)
  BY RunFirstLemma DEF Firm
<1>2. /\ u.status[u.running] = "running"
      /\ \A h \in Fibers \ {u.running} : u.status[h] = t.status[h]
  BY <1>1 DEF Firm, Sound, Threads
<1>3. Linked(u, "timer") = Linked(t, "timer")
  BY <1>0, <1>1
<1>4. \A h \in Fibers : h \in Awake(u) <=> h \in Awake(t)
  BY <1>0, <1>1 DEF Awake
<1>5. \A S : Listed(t, S) => Listed(u, S)
  <2>1. Linked(t, "ready") \subseteq Fibers
    BY <1>0, LinkedFacts DEF Firm, Sound
  <2> QED BY <1>1, <1>2, <2>1 DEF Listed
<1>6. \A h \in Fibers : h \notin Awake(t) => h # u.running
  BY <1>1 DEF Awake
<1> QED BY <1>0, <1>1, <1>2, <1>3, <1>4, <1>5, <1>6 DEF Firm, Alike

LEMMA FirmSwitch ==
    ASSUME NEW t, Firm(t), t.running \in Fibers, NEW u, u = Switch(t)
    PROVE  /\ Firm(u)
           /\ \A S : Listed(t, S) => Listed(u, S)
           /\ u.flag = t.flag /\ Linked(u, "timer") = Linked(t, "timer")
           /\ t.running \notin Awake(u) /\ u.status[t.running] = "suspend"
           /\ \A h \in Fibers \ {t.running} : Alike(t, u, h)
<1>0. {"ready", "timer"} \subseteq Rings /\ None \notin Fibers
  BY RingsAssumption, NoneAssumption DEF RingsAssumption, NoneAssumption
<1>1. /\ Whole(u) /\ u.flag = t.flag
      /\ \A r \in Rings \ {"ready"} : Linked(u, r) = Linked(t, r)
      /\ Awake(t) \ {t.running} \subseteq Awake(u)
      /\ Awake(u) \subseteq Awake(t) \cup {None}
      /\ t.running \notin Awake(u) /\ u.status[t.running] = "suspend"
      /\ \A h \in Fibers \ Awake(t) : u.status[h] = t.status[h]
  BY SwitchAwayLemma DEF Firm
<1>2. Linked(u, "timer") = Linked(t, "timer")
  BY <1>0, <1>1
<1>3. \A S : Listed(t, S) => Listed(u, S)
  <2>1. /\ Linked(u, "ready") = Linked(t, "ready") \ {u.running}
        /\ \A h \in Fibers \ {t.running, u.running} : u.status[h] = t.status[h]
    BY SwitchLemma DEF Firm
  <2>2. Linked(t, "ready") \subseteq Fibers
    BY <1>0, LinkedFacts DEF Firm, Sound
  <2> QED BY <2>1, <2>2 DEF Listed, Firm
<1>4. Firm(u)
  BY <1>1, WholeIsFirm
<1> QED BY <1>0, <1>1, <1>2, <1>3, <1>4 DEF Alike

\* The running fiber yields.
LEMMA FirmYield ==
    ASSUME NEW t, Whole(t), t.running \in Fibers, NEW u, u = FiberYield(t)
    PROVE  /\ Firm(u)
           /\ \A S : t.running \notin S /\ Listed(t, S) => Listed(u, S)
           /\ u.flag = t.flag /\ Linked(u, "timer") = Linked(t, "timer")
           /\ Awake(u) = Awake(t)
           /\ \A h \in Fibers \ {t.running} : Alike(t, u, h)
<1>0. "timer" \in Rings \ {"ready"} /\ "ready" \in Rings
  BY RingsAssumption DEF RingsAssumption
<1>1. /\ Whole(u) /\ u.flag = t.flag /\ Awake(u) = Awake(t)
      /\ \A r \in Rings \ {"ready"} : Linked(u, r) = Linked(t, r)
      /\ \A h \in Fibers \ Awake(t) : u.status[h] = t.status[h]
  BY YieldLemma
<1>2. Firm(u) /\ Linked(u, "timer") = Linked(t, "timer")
  BY <1>0, <1>1, WholeIsFirm
<1>3. \A S : t.running \notin S /\ Listed(t, S) => Listed(u, S)
  <2>1. CASE Empty(t, "ready")
    BY <2>1 DEF FiberYield
  <2>2. CASE ~ Empty(t, "ready")
    <3>1. PICK n : n = [t EXCEPT !.status[t.running] = "none"]
      OBVIOUS
    <3>2. PICK m : m = FiberReady(n, t.running)
      OBVIOUS
    <3>3. u = Switch(m)
      BY <2>2, <3>1, <3>2 DEF FiberYield
    <3>4. /\ Sound(n) /\ n.ring = t.ring /\ n.running = t.running
          /\ n.status = [t.status EXCEPT ![t.running] = "none"]
      BY <3>1, StatusLemma DEF Whole, Status, SameBut
    <3>5. /\ Sound(m) /\ m.running = t.running
          /\ m.status = [n.status EXCEPT ![t.running] = "ready"]
          /\ Linked(m, "ready") = Linked(t, "ready") \cup {t.running}
      <4>1. Linked(n, "ready") = Linked(t, "ready")
        BY <3>4 DEF Linked
      <4> QED BY <3>2, <3>4, <4>1, ReadyLemma
    <3>6. /\ Sound(u) /\ u.flag = m.flag
          /\ u.running \in Linked(m, "ready") \cup {None}
          /\ u.running = None => Linked(m, "ready") = {}
          /\ u.running # None => u.status[u.running] = "running"
          /\ Linked(u, "ready") = Linked(m, "ready") \ {u.running}
          /\ \A r \in Rings \ {"ready"} : Linked(u, r) = Linked(m, r)
          /\ \A h \in Fibers \ {m.running, u.running} :
                u.status[h] = m.status[h]
      <4>1. Sound(m) /\ m.running \in Fibers
        BY <3>5
      <4> QED BY <3>3, <4>1, SwitchLemma
    <3>7. \A h \in Fibers \ {t.running, u.running} : u.status[h] = t.status[h]
      BY <3>4, <3>5, <3>6 DEF Whole, Sound, Threads
    <3>8. Linked(t, "ready") \subseteq Fibers
      BY <1>0, LinkedFacts DEF Whole, Sound
    <3> QED BY <3>5, <3>6, <3>7, <3>8 DEF Listed
  <2> QED BY <2>1, <2>2
<1>4. \A h \in Fibers \ {t.running} : Alike(t, u, h)
  BY <1>1, <1>2 DEF Alike
<1> QED BY <1>1, <1>2, <1>3, <1>4

LEMMA FirmSignal ==
    ASSUME NEW t, Firm(t), NEW g \in Fibers, NEW u, u = FiberSignal(t, g)
    PROVE  /\ Firm(u) /\ u.running = t.running
           /\ \A S : Listed(t, S) => Listed(u, S)
           /\ Linked(u, "timer") \subseteq Linked(t, "timer")
           /\ u.flag[g] = t.flag[g] \cup {"canceled"}
           /\ \A h \in Fibers \ {g} : Alike(t, u, h)
           /\ IF t.status[g] = "suspend"
              THEN /\ Awake(u) = Awake(t) \cup {g}
                   /\ Linked(u, "timer") = Linked(t, "timer") \ {g}
              ELSE /\ Awake(u) = Awake(t) /\ u.status = t.status
                   /\ Linked(u, "timer") = Linked(t, "timer")
<1>0. PICK s : s = SetFlag(t, g, "canceled")
  OBVIOUS
<1>1. /\ Firm(s) /\ s.running = t.running /\ s.status = t.status
      /\ \A S : Listed(t, S) => Listed(s, S)
      /\ \A r : Linked(s, r) = Linked(t, r)
      /\ Awake(s) = Awake(t)
      /\ \A h \in Fibers \ {g} : Alike(t, s, h)
      /\ s.flag[g] = t.flag[g] \cup {"canceled"}
  BY <1>0, FirmFlag DEF Flags
<1>2. u = IF s.status[g] = "suspend" THEN FiberReady(s, g) ELSE s
  BY <1>0 DEF FiberSignal
<1>3. CASE t.status[g] = "suspend"
  <2>1. g # s.running
    BY <1>1, <1>3, NoneAssumption DEF Firm, NoneAssumption
  <2>2. u = FiberReady(s, g)
    BY <1>1, <1>2, <1>3
  <2>3. /\ Firm(u) /\ u.running = s.running /\ u.flag = s.flag
        /\ \A S : Listed(s, S) => Listed(u, S)
        /\ Awake(u) = Awake(s) \cup {g}
        /\ Linked(u, "timer") = Linked(s, "timer") \ {g}
        /\ \A h \in Fibers \ {g} : Alike(s, u, h)
    BY <1>1, <2>1, <2>2, FirmWake
  <2>4. \A h \in Fibers \ {g} : Alike(t, u, h)
    BY <1>1, <2>3 DEF Alike
  <2> QED BY <1>1, <1>3, <2>3, <2>4
<1>4. CASE t.status[g] # "suspend"
  BY <1>1, <1>2, <1>4
<1> QED BY <1>3, <1>4

\* The running fiber joins the timer, and goes on for now.
LEMMA FirmTimerAdd ==
    ASSUME NEW t, Firm(t), t.running \in Fibers,
           NEW u, u = FiberTimerAdd(t, t.running)
    PROVE  /\ Firm(u) /\ u.running = t.running
           /\ \A S : Listed(t, S) => Listed(u, S)
           /\ u.flag = t.flag /\ u.status = t.status /\ Awake(u) = Awake(t)
           /\ Linked(u, "timer") = Linked(t, "timer") \cup {t.running}
           /\ \A h \in Fibers \ {t.running} : Alike(t, u, h)
<1> DEFINE g == t.running
<1>d. PICK d : d = RingDetach(t, g)
  OBVIOUS
<1>0. {"ready", "timer"} \subseteq Rings /\ Sound(t)
  BY RingsAssumption DEF RingsAssumption, Firm
<1>1. /\ Sound(d) /\ SameBut(t, d, "ring")
      /\ \A r \in Rings : Linked(d, r) = Linked(t, r) \ {g}
  BY <1>d, <1>0, DetachLemma
<1>2. u = RingPrepend(d, "timer", g) /\ Unlinked(d, g)
  BY <1>d, <1>1 DEF FiberTimerAdd, Unlinked
<1>3. /\ Sound(u) /\ SameBut(d, u, "ring")
      /\ Linked(u, "timer") = Linked(d, "timer") \cup {g}
      /\ \A r \in Rings \ {"timer"} : Linked(u, r) = Linked(d, r)
  BY <1>0, <1>1, <1>2, PrependLemma
<1>4. /\ Linked(u, "ready") = Linked(t, "ready")
      /\ Linked(u, "timer") = Linked(t, "timer") \cup {t.running}
      /\ u.flag = t.flag /\ u.status = t.status /\ u.running = t.running
  BY <1>0, <1>1, <1>3 DEF Firm, SameBut
<1>5. /\ Firm(u) /\ Awake(u) = Awake(t)
      /\ \A S : Listed(t, S) => Listed(u, S)
  BY <1>3, <1>4 DEF Firm, Awake, Listed
<1> QED BY <1>4, <1>5 DEF Alike

\* The timer wakes a fiber that does not run.
LEMMA FirmTimerWake ==
    ASSUME NEW t, Firm(t), NEW g \in Fibers, g # t.running,
           NEW u, u = TimerWake(t, g)
    PROVE  /\ Firm(u) /\ u.running = t.running
           /\ \A S : Listed(t, S) => Listed(u, S)
           /\ Awake(u) = Awake(t) \cup {g}
           /\ Linked(u, "timer") = Linked(t, "timer") \ {g}
           /\ u.flag[g] = t.flag[g] \cup {"timer"}
           /\ \A h \in Fibers \ {g} : Alike(t, u, h)
<1>r. {"ready", "timer"} \subseteq Rings
  BY RingsAssumption DEF RingsAssumption
<1>0. PICK s, d : s = SetFlag(t, g, "timer") /\ d = RingDetach(s, g)
  OBVIOUS
<1>1. /\ Firm(s) /\ s.running = t.running /\ s.status = t.status
      /\ \A S : Listed(t, S) => Listed(s, S)
      /\ \A r : Linked(s, r) = Linked(t, r)
      /\ Awake(s) = Awake(t)
      /\ \A h \in Fibers \ {g} : Alike(t, s, h)
      /\ s.flag[g] = t.flag[g] \cup {"timer"}
  BY <1>0, FirmFlag DEF Flags
<1>2. u = FiberReady(d, g)
  BY <1>0 DEF TimerWake
<1>3. /\ Sound(d) /\ SameBut(s, d, "ring")
      /\ \A r \in Rings : Linked(d, r) = Linked(s, r) \ {g}
  BY <1>0, <1>1, DetachLemma DEF Firm
<1>4. /\ d.running = t.running /\ d.flag = s.flag /\ d.status = t.status
      /\ Linked(d, "ready") = Linked(t, "ready") \ {g}
      /\ Linked(d, "timer") = Linked(t, "timer") \ {g}
  BY <1>r, <1>1, <1>3 DEF SameBut
<1>5. /\ Firm(d)
      /\ \A S : Listed(t, S) => Listed(d, S)
      /\ \A h \in Fibers \ {g} : Alike(t, d, h)
  BY <1>1, <1>3, <1>4 DEF Firm, Listed, Alike, Awake
<1>6. /\ Firm(u) /\ u.running = d.running /\ u.flag = d.flag
      /\ \A S : Listed(d, S) => Listed(u, S)
      /\ Awake(u) = Awake(d) \cup {g}
      /\ Linked(u, "timer") = Linked(d, "timer") \ {g}
      /\ \A h \in Fibers \ {g} : Alike(d, u, h)
  BY <1>2, <1>4, <1>5, FirmWake
<1>7. Awake(u) = Awake(t) \cup {g}
  BY <1>4, <1>6 DEF Awake
<1>8. \A h \in Fibers \ {g} : Alike(t, u, h)
  BY <1>5, <1>6 DEF Alike
<1> QED BY <1>1, <1>4, <1>5, <1>6, <1>7, <1>8

-----------------------------------------------------------------------------
(* The operators and the type of a thread, whatever its rings are *)

\* FIBER_READY, a switch and a yield keep the type of any thread.
LEMMA TypesKept ==
    ASSUME NEW t \in Threads
    PROVE  /\ \A g \in Fibers : FiberReady(t, g) \in Threads
           /\ \A g \in Fibers, x \in Flags : SetFlag(t, g, x) \in Threads
           /\ ~ Empty(t, "ready") => RunFirst(t) \in Threads
           /\ t.running \in Fibers => Switch(t) \in Threads
           /\ t.running \in Fibers => FiberYield(t) \in Threads
<1>0. "ready" \in Rings
  BY RingsAssumption DEF RingsAssumption
<1>1. ASSUME NEW u \in Threads, NEW g \in Fibers
      PROVE  FiberReady(u, g) \in Threads
  <2> DEFINE d == RingDetach(u, g)
             p == RingPrepend(d, "ready", g)
  <2>1. DOMAIN u.ring = Rings /\ \A r \in Rings : u.ring[r] \in Seq(Fibers)
    BY DEF Threads
  <2>2. \A r \in Rings : RemoveFirst(u.ring[r], g) \in Seq(Fibers)
    BY <2>1, RemoveFirstTyped
  <2> DEFINE ring == [r \in DOMAIN u.ring |-> RemoveFirst(u.ring[r], g)]
  <2>3. ring \in [Rings -> Seq(Fibers)]
    BY <2>1, <2>2
  <2> HIDE DEF ring
  <2>4. [u EXCEPT !.ring = ring] \in Threads
    BY <2>3 DEF Threads
  <2>5. d \in Threads
    BY <2>4 DEF RingDetach, ring
  <2> HIDE DEF d
  <2> DEFINE a == [d.ring EXCEPT !["ready"] = Append(@, g)]
  <2>6. d.ring \in [Rings -> Seq(Fibers)]
    BY <2>5 DEF Threads
  <2>7. a \in [Rings -> Seq(Fibers)]
    BY <1>0, <2>6
  <2> HIDE DEF a
  <2>8. [d EXCEPT !.ring = a] \in Threads
    BY <2>5, <2>7 DEF Threads
  <2>9. p \in Threads
    BY <2>8 DEF RingPrepend, a
  <2> HIDE DEF p
  <2>10. [p EXCEPT !.status[g] = "ready"] \in Threads
    BY <2>9 DEF Threads, Status
  <2> QED BY <2>10 DEF FiberReady, p, d
<1>2. \A g \in Fibers, x \in Flags : SetFlag(t, g, x) \in Threads
  BY DEF SetFlag, Threads
<1>3. ASSUME NEW u \in Threads, ~ Empty(u, "ready")
      PROVE  RunFirst(u) \in Threads
  <2>1. /\ u.ring["ready"] \in Seq(Fibers) /\ u.ring["ready"] # << >>
    BY <1>0, <1>3 DEF Threads, Empty
  <2>2. Head(u.ring["ready"]) \in Fibers /\ Tail(u.ring["ready"]) \in Seq(Fibers)
    BY <2>1
  <2> QED BY <2>2 DEF RunFirst, Threads, Status
<1>4. ASSUME NEW u \in Threads, u.running \in Fibers
      PROVE  Switch(u) \in Threads
  <2> DEFINE left == [u EXCEPT !.status[u.running] = "suspend"]
  <2>1. left \in Threads /\ (Empty(left, "ready") <=> Empty(u, "ready"))
    BY DEF Threads, Status, Empty
  <2> HIDE DEF left
  <2>2. /\ [left EXCEPT !.running = None] \in Threads
        /\ [u EXCEPT !.running = None] \in Threads
    BY <2>1 DEF Threads
  <2>3. ~ Empty(u, "ready") => RunFirst(left) \in Threads /\ RunFirst(u) \in Threads
    BY <1>3, <2>1
  <2> QED BY <2>2, <2>3 DEF Switch, left
<1>5. t.running \in Fibers => FiberYield(t) \in Threads
  <2> SUFFICES ASSUME t.running \in Fibers PROVE FiberYield(t) \in Threads
    OBVIOUS
  <2> DEFINE n == [t EXCEPT !.status[t.running] = "none"]
             m == FiberReady(n, t.running)
  <2>1. n \in Threads /\ n.running = t.running
    BY DEF Threads, Status
  <2>2. m \in Threads
    BY <1>1, <2>1
  <2>3. m.running = n.running
    BY <2>1 DEF FiberReady, RingPrepend, RingDetach, Threads
  <2> HIDE DEF m, n
  <2>4. Switch(m) \in Threads
    BY <1>4, <2>1, <2>2, <2>3
  <2> QED BY <2>4 DEF FiberYield, m, n
<1> QED BY <1>1, <1>2, <1>3, <1>4, <1>5

\* So do the timer's operators, and the clearing of a flag.
LEMMA TimerTypesKept ==
    ASSUME NEW t \in Threads, NEW g \in Fibers
    PROVE  /\ FiberTimerAdd(t, g) \in Threads
           /\ TimerWake(t, g) \in Threads
           /\ \A x \in Flags : ClearFlag(t, g, x) \in Threads
<1>0. "timer" \in Rings /\ "timer" \in Flags
  BY RingsAssumption DEF RingsAssumption, Flags
<1>1. ASSUME NEW u \in Threads
      PROVE  RingDetach(u, g) \in Threads
  <2>1. DOMAIN u.ring = Rings /\ \A r \in Rings : u.ring[r] \in Seq(Fibers)
    BY DEF Threads
  <2>2. \A r \in Rings : RemoveFirst(u.ring[r], g) \in Seq(Fibers)
    BY <2>1, RemoveFirstTyped
  <2> DEFINE ring == [r \in DOMAIN u.ring |-> RemoveFirst(u.ring[r], g)]
  <2>3. ring \in [Rings -> Seq(Fibers)]
    BY <2>1, <2>2
  <2> HIDE DEF ring
  <2>4. [u EXCEPT !.ring = ring] \in Threads
    BY <2>3 DEF Threads
  <2> QED BY <2>4 DEF RingDetach, ring
<1>2. FiberTimerAdd(t, g) \in Threads
  <2> DEFINE d == RingDetach(t, g)
             a == [d.ring EXCEPT !["timer"] = Append(@, g)]
  <2>1. d \in Threads
    BY <1>1
  <2> HIDE DEF d
  <2>2. d.ring \in [Rings -> Seq(Fibers)]
    BY <2>1 DEF Threads
  <2>3. a \in [Rings -> Seq(Fibers)]
    BY <1>0, <2>2
  <2> HIDE DEF a
  <2>4. [d EXCEPT !.ring = a] \in Threads
    BY <2>1, <2>3 DEF Threads
  <2> QED BY <2>4 DEF FiberTimerAdd, RingPrepend, a, d
<1>3. TimerWake(t, g) \in Threads
  BY <1>0, <1>1, TypesKept DEF TimerWake
<1>4. \A x \in Flags : ClearFlag(t, g, x) \in Threads
  BY DEF ClearFlag, Threads
<1> QED BY <1>2, <1>3, <1>4

-----------------------------------------------------------------------------
(* The steps of a thread outside of the primitive under study, as FiberThread *)
(* has them: its fibers are at p, and t and p become u and q                  *)

Outside == {"run", "delay"}

\* What a step from t to u does to a fiber that is in a call of the primitive:
\* only a kill or a timer wakes it, and it keeps its flags.
Undisturbed(t, u, g) ==
    /\ g \in Awake(t) => g \in Awake(u)
    /\ g \in Awake(u) =>
          g \in Awake(t) \/ g \in Linked(t, "timer") \/ Canceled(u, g)
    /\ t.flag[g] \subseteq u.flag[g]
    /\ "timer" \in u.flag[g] => "timer" \in t.flag[g] \/ g \in Linked(t, "timer")

Yields(t, p, u, q, g) == t.running = g /\ u = FiberYield(t) /\ q = p

Delays(t, p, u, q, g) ==
    /\ t.running = g /\ p[g] = "run"
    /\ u = Switch(FiberTimerAdd(t, g)) /\ q = [p EXCEPT ![g] = "delay"]

DelayReturns(t, p, u, q, g) ==
    LET c == ClearFlag(t, g, "timer") IN
    /\ t.running = g /\ p[g] = "delay"
    /\ u = IF Canceled(c, g) THEN FiberTimerDel(c, g) ELSE c
    /\ q = [p EXCEPT ![g] = "run"]

Clears(t, p, u, q, g) ==
    u = ClearFlag(t, g, "canceled") /\ q = p /\ p[g] = "run"

Kills(t, p, u, q, h) == u = FiberSignal(t, h) /\ q = p

TimerEnds(t, p, u, q, g) == In(t, "timer", g) /\ u = TimerWake(t, g) /\ q = p

Dispatches(t, p, u, q) ==
    t.running = None /\ ~ Empty(t, "ready") /\ u = RunFirst(t) /\ q = p

Moves(t, p, u, q) ==
    \/ \E g \in Fibers :
          \/ Yields(t, p, u, q, g) \/ Delays(t, p, u, q, g)
          \/ DelayReturns(t, p, u, q, g) \/ Clears(t, p, u, q, g)
          \/ Kills(t, p, u, q, g) \/ TimerEnds(t, p, u, q, g)
    \/ Dispatches(t, p, u, q)

\* Such a step keeps the thread sound, and leaves the primitive's waiters where
\* they are, or makes them ready.
LEMMA MovesLemma ==
    ASSUME NEW S, "run" \in S, "delay" \in S, NEW t, Whole(t),
           NEW p \in [Fibers -> S], NEW u, NEW q, Moves(t, p, u, q)
    PROVE  /\ Whole(u) /\ q \in [Fibers -> S]
           /\ Present(t) \subseteq Present(u)
           /\ Kept(t, u)
           /\ \A g \in Fibers : \/ q[g] = p[g]
                                \/ p[g] \in Outside /\ q[g] \in Outside
           /\ \A g \in Fibers : p[g] \notin Outside
                                   => Undisturbed(t, u, g)
<1> DEFINE P == /\ Whole(u) /\ q \in [Fibers -> S]
                /\ Present(t) \subseteq Present(u)
                /\ Kept(t, u)
                /\ \A g \in Fibers : \/ q[g] = p[g]
                                     \/ p[g] \in Outside /\ q[g] \in Outside
                /\ \A g \in Fibers : p[g] \notin Outside
                                        => Undisturbed(t, u, g)
<1>1. ASSUME NEW g \in Fibers, Yields(t, p, u, q, g) PROVE P
  <2>1. t.running = g /\ u = FiberYield(t) /\ q = p
    BY <1>1 DEF Yields
  <2>2. /\ Whole(u) /\ Awake(u) = Awake(t) /\ u.flag = t.flag
        /\ Present(t) \subseteq Present(u)
        /\ \A r \in Rings \ {"ready"} : Linked(u, r) = Linked(t, r)
        /\ \A h \in Fibers \ Awake(t) : u.status[h] = t.status[h]
    BY <2>1, YieldLemma
  <2>3. Kept(t, u)
    BY <2>2, KeptLemma
  <2> QED BY <2>1, <2>2, <2>3 DEF Undisturbed
<1>2. ASSUME NEW g \in Fibers, Delays(t, p, u, q, g) PROVE P
  <2>1. /\ t.running = g /\ p[g] = "run"
        /\ u = Switch(FiberTimerAdd(t, g))
        /\ q = [p EXCEPT ![g] = "delay"]
    BY <1>2 DEF Delays
  <2>2. "timer" \in Rings \ {"ready"}
    BY RingsAssumption DEF RingsAssumption
  <2>3. /\ Whole(u) /\ Awake(t) \ {g} \subseteq Awake(u)
        /\ Awake(u) \subseteq Awake(t) \cup {None}
        /\ u.flag = t.flag /\ Present(t) \subseteq Present(u)
        /\ \A r \in Rings \ {"ready", "timer"} :
              Linked(u, r) = Linked(t, r)
        /\ \A h \in Fibers \ Awake(t) : u.status[h] = t.status[h]
    BY <2>1, <2>2, SuspendLemma DEF FiberTimerAdd
  <2>4. Kept(t, u)
    BY <2>3, KeptLemma
  <2>5. ASSUME NEW h \in Fibers, p[h] \notin Outside
        PROVE  Undisturbed(t, u, h)
    BY <2>1, <2>3, <2>5, NoneAssumption
       DEF Undisturbed, Outside, NoneAssumption
  <2> QED BY <2>1, <2>2, <2>3, <2>4, <2>5 DEF Outside
<1>3. ASSUME NEW g \in Fibers, DelayReturns(t, p, u, q, g) PROVE P
  <2> DEFINE c == ClearFlag(t, g, "timer")
  <2>1. /\ t.running = g /\ p[g] = "delay"
        /\ u = IF Canceled(c, g) THEN FiberTimerDel(c, g) ELSE c
        /\ q = [p EXCEPT ![g] = "run"]
    BY <1>3 DEF DelayReturns
  <2>2. /\ Whole(c) /\ c.running = t.running /\ c.status = t.status
        /\ \A r : Linked(c, r) = Linked(t, r)
        /\ Awake(c) = Awake(t) /\ Present(c) = Present(t)
        /\ \A h \in Fibers \ {g} : c.flag[h] = t.flag[h]
    BY FlagWhole DEF Flags
  <2> HIDE DEF c
  <2>3. u = c
    <3>1. "timer" \in Rings /\ c \in Threads
      BY <2>2, RingsAssumption DEF RingsAssumption, Whole, Sound
    <3>2. ~ In(c, "timer", g)
      BY <2>1, <2>2, <3>1, LinkedFacts DEF Whole, Unlinked
    <3> QED BY <2>1, <3>2 DEF FiberTimerDel
  <2>4. Kept(t, u)
    BY <2>2, <2>3, KeptLemma
  <2>5. ASSUME NEW h \in Fibers, p[h] \notin Outside
        PROVE  Undisturbed(t, u, h)
    BY <2>1, <2>2, <2>3, <2>5 DEF Undisturbed, Outside
  <2> QED BY <2>1, <2>2, <2>3, <2>4, <2>5 DEF Outside
<1>4. ASSUME NEW g \in Fibers, Clears(t, p, u, q, g) PROVE P
  <2>1. u = ClearFlag(t, g, "canceled") /\ q = p /\ p[g] = "run"
    BY <1>4 DEF Clears
  <2>2. /\ Whole(u) /\ u.running = t.running /\ u.status = t.status
        /\ \A r : Linked(u, r) = Linked(t, r)
        /\ Awake(u) = Awake(t) /\ Present(u) = Present(t)
        /\ \A h \in Fibers \ {g} : u.flag[h] = t.flag[h]
    BY <2>1, FlagWhole DEF Flags
  <2>3. Kept(t, u)
    BY <2>2, KeptLemma
  <2>4. ASSUME NEW h \in Fibers, p[h] \notin Outside
        PROVE  Undisturbed(t, u, h)
    BY <2>1, <2>2, <2>4 DEF Undisturbed, Outside
  <2> QED BY <2>1, <2>2, <2>3, <2>4
<1>5. ASSUME NEW h \in Fibers, Kills(t, p, u, q, h) PROVE P
  <2>1. u = FiberSignal(t, h) /\ q = p
    BY <1>5 DEF Kills
  <2>2. /\ Whole(u) /\ Awake(t) \subseteq Awake(u)
        /\ Awake(u) \subseteq Awake(t) \cup {h}
        /\ Present(t) \subseteq Present(u) /\ Kept(t, u)
        /\ \A k \in Fibers \ {h} : u.flag[k] = t.flag[k]
        /\ u.flag[h] = t.flag[h] \cup {"canceled"}
    BY <2>1, SignalLemma
  <2>3. \A k \in Fibers : Undisturbed(t, u, k)
    BY <2>2 DEF Undisturbed, Canceled
  <2> QED BY <2>1, <2>2, <2>3
<1>6. ASSUME NEW g \in Fibers, TimerEnds(t, p, u, q, g) PROVE P
  <2>1. q = p /\ u = TimerWake(t, g) /\ In(t, "timer", g)
    BY <1>6 DEF TimerEnds
  <2>2. g \in Linked(t, "timer")
    BY <2>1 DEF In, Linked
  <2>3. /\ Whole(u) /\ Awake(u) = Awake(t) \cup {g}
        /\ Present(t) \subseteq Present(u) /\ Kept(t, u)
        /\ \A h \in Fibers \ {g} : u.flag[h] = t.flag[h]
        /\ u.flag[g] = t.flag[g] \cup {"timer"}
    BY <2>1, <2>2, TimerWakeLemma
  <2>4. \A h \in Fibers : Undisturbed(t, u, h)
    BY <2>2, <2>3 DEF Undisturbed
  <2> QED BY <2>1, <2>3, <2>4
<1>7. ASSUME Dispatches(t, p, u, q) PROVE P
  <2>1. /\ t.running = None /\ ~ Empty(t, "ready")
        /\ u = RunFirst(t) /\ q = p
    BY <1>7 DEF Dispatches
  <2>2. /\ Whole(u) /\ Awake(t) \ {None} \subseteq Awake(u)
        /\ Awake(u) \subseteq Awake(t) /\ u.flag = t.flag
        /\ Present(t) \subseteq Present(u)
        /\ \A r \in Rings \ {"ready"} : Linked(u, r) = Linked(t, r)
        /\ \A h \in Fibers \ Awake(t) : u.status[h] = t.status[h]
    BY <2>1, DispatchLemma
  <2>3. Kept(t, u)
    BY <2>2, KeptLemma
  <2>4. \A h \in Fibers : Undisturbed(t, u, h)
    BY <2>2, NoneAssumption DEF Undisturbed, NoneAssumption
  <2> QED BY <2>1, <2>2, <2>3, <2>4
<1> QED BY <1>1, <1>2, <1>3, <1>4, <1>5, <1>6, <1>7 DEF Moves

\* What it does to a ring of the primitive: nothing, or a kill takes one of the
\* fibers out.
LEMMA MovesRing ==
    ASSUME NEW t, Whole(t), NEW p, NEW u, NEW q, Moves(t, p, u, q),
           NEW r \in Rings \ {"ready", "timer"}
    PROVE  \/ u.ring[r] = t.ring[r]
           \/ \E g \in Fibers : /\ g \in Range(t.ring[r])
                               /\ u.ring[r] = RemoveFirst(t.ring[r], g)
<1> DEFINE P == \/ u.ring[r] = t.ring[r]
                \/ \E g \in Fibers :
                       /\ g \in Range(t.ring[r])
                       /\ u.ring[r] = RemoveFirst(t.ring[r], g)
<1>0. /\ Whole(t) /\ Sound(t) /\ t \in Threads
      /\ r \in Rings \ {"ready"} /\ "timer" \in Rings
      /\ t.ring[r] \in Seq(Fibers)
  BY RingsAssumption DEF Whole, Sound, Threads, RingsAssumption
\* Detaching the running fiber, or a fiber in another ring, does nothing.
<1>1. ASSUME NEW g, g \notin Linked(t, r)
      PROVE  RemoveFirst(t.ring[r], g) = t.ring[r]
  BY <1>0, <1>1, RemoveFirstAbsent DEF Linked
<1>2. \A g \in Fibers : t.running = g => g \notin Linked(t, r)
  BY <1>0 DEF Whole, Unlinked
<1>3. ASSUME NEW g \in Fibers, NEW x \in Flags
      PROVE  /\ Sound(SetFlag(t, g, x)) /\ Sound(ClearFlag(t, g, x))
             /\ SetFlag(t, g, x).ring = t.ring
             /\ ClearFlag(t, g, x).ring = t.ring
  BY <1>0, FlagLemma
<1>4. ASSUME NEW g \in Fibers, Yields(t, p, u, q, g) PROVE P
  BY <1>0, <1>4, YieldRing DEF Yields
<1>5. ASSUME NEW g \in Fibers, Delays(t, p, u, q, g) PROVE P
  <2> DEFINE d == RingDetach(t, g)
             a == RingPrepend(d, "timer", g)
  <2>1. t.running = g /\ u = Switch(a)
    BY <1>5 DEF Delays, FiberTimerAdd
  <2>2. d.ring[r] = t.ring[r] /\ Sound(d) /\ Unlinked(d, g)
    BY <1>0, <1>1, <1>2, <2>1, DetachRing, DetachLemma DEF Unlinked
  <2> HIDE DEF d
  <2>3. a.ring[r] = d.ring[r] /\ a \in Threads
    BY <1>0, <2>2, PrependRing, PrependLemma DEF Sound
  <2> HIDE DEF a
  <2> QED BY <2>1, <2>2, <2>3, SwitchRing
<1>6. ASSUME NEW g \in Fibers, DelayReturns(t, p, u, q, g) PROVE P
  <2> DEFINE c == ClearFlag(t, g, "timer")
  <2>1. /\ t.running = g
        /\ u = IF Canceled(c, g) THEN FiberTimerDel(c, g) ELSE c
    BY <1>6 DEF DelayReturns
  <2>2. Sound(c) /\ c.ring = t.ring
    BY <1>3 DEF Flags
  <2> HIDE DEF c
  <2>3. RingDetach(c, g).ring[r] = t.ring[r]
    BY <1>0, <1>1, <1>2, <2>1, <2>2, DetachRing DEF Sound
  <2> QED BY <2>1, <2>2, <2>3 DEF FiberTimerDel
<1>7. ASSUME NEW g \in Fibers, Clears(t, p, u, q, g) PROVE P
  BY <1>3, <1>7 DEF Clears, Flags
<1>8. ASSUME NEW h \in Fibers, Kills(t, p, u, q, h) PROVE P
  <2> DEFINE s == SetFlag(t, h, "canceled")
  <2>1. u \in {FiberReady(s, h), s}
    BY <1>8 DEF Kills, FiberSignal
  <2>2. Sound(s) /\ s.ring = t.ring
    BY <1>3, <2>1 DEF Flags
  <2> HIDE DEF s
  <2>3. FiberReady(s, h).ring[r] = RemoveFirst(t.ring[r], h)
    BY <1>0, <2>1, <2>2, ReadyRing
  <2>4. CASE h \in Linked(t, r)
    BY <2>1, <2>2, <2>3, <2>4 DEF Linked
  <2>5. CASE h \notin Linked(t, r)
    BY <1>1, <2>1, <2>2, <2>3, <2>5
  <2> QED BY <2>4, <2>5
<1>9. ASSUME NEW g \in Fibers, TimerEnds(t, p, u, q, g) PROVE P
  <2> DEFINE s == SetFlag(t, g, "timer")
             d == RingDetach(s, g)
  <2>1. u = FiberReady(d, g) /\ In(t, "timer", g)
    BY <1>9 DEF TimerEnds, TimerWake
  <2>2. Sound(s) /\ s.ring = t.ring
    BY <1>3 DEF Flags
  <2>3. g \notin Linked(t, r)
    BY <1>0, <2>1 DEF In, Sound, Linked
  <2> HIDE DEF s
  <2>4. d.ring[r] = t.ring[r] /\ Sound(d)
    BY <1>0, <1>1, <2>2, <2>3, DetachRing, DetachLemma DEF Sound
  <2> HIDE DEF d
  <2>5. u.ring[r] = RemoveFirst(t.ring[r], g)
    BY <1>0, <2>1, <2>4, ReadyRing
  <2> QED BY <1>1, <2>3, <2>5
<1>10. ASSUME Dispatches(t, p, u, q) PROVE P
  BY <1>0, <1>10, SwitchRing DEF Dispatches
<1> QED BY <1>4, <1>5, <1>6, <1>7, <1>8, <1>9, <1>10 DEF Moves

\* Every fiber is in the ready ring when the thread starts.
LEMMA FreshStart ==
    ASSUME NEW order \in SetToSeqs(Fibers), NEW t, t = FreshThread(order)
    PROVE  /\ Whole(t) /\ Present(t) = Fibers /\ t.running = None
           /\ \A r \in Rings \ {"ready"} : Linked(t, r) = {}
<1>1. /\ order \in Seq(Fibers) /\ IsInjective(order) /\ Range(order) = Fibers
  BY SetToSeqsIs, FibersAssumption DEF FibersAssumption
<1>2. t \in Threads
  BY <1>1, FreshIs
<1>3. /\ t.ring = FreshThread(order).ring /\ t.running = None
      /\ \A g \in Fibers : t.status[g] # "exiting"
  BY DEF FreshThread
<1> QED BY <1>1, <1>2, <1>3, FreshLemma

\* A thread between two actions has its type, and its rings share no entry.
LEMMA WholeImplies ==
    ASSUME NEW t, Whole(t)
    PROVE  /\ t \in Threads /\ RingsIntact(t)
           /\ \A g \in Present(t) : Reachable(t, g)
<1>1. t \in Threads /\ DOMAIN t.ring = Rings
  BY DEF Whole, Sound, Threads
<1>2. RingsIntact(t)
  BY <1>1 DEF RingsIntact, Whole, Sound, Unlinked, Linked, In
<1>3. \A g \in Present(t) : Reachable(t, g)
  BY <1>1 DEF Reachable, Present, Linked, In
<1> QED BY <1>1, <1>2, <1>3
=============================================================================
