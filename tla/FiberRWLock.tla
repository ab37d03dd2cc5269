----------------------------- MODULE FiberRWLock -----------------------------
(***************************************************************************)
(* ACL_FIBER_RWLOCK (src/lib_fiber/c/src/sync/fiber_lock.c:126-284): the   *)
(* read/write lock of the fibers of one thread.  An unlock counts the      *)
(* fibers it wakes as readers, or names the one it wakes as the writer,    *)
(* before they run.  rlock and wlock return -1 to a fiber that is          *)
(* cancelled when it wakes, and take nothing back.                         *)
(***************************************************************************)
EXTENDS FiberThread, FiniteSets

ASSUME RWRings  == Rings = {"ready", "timer", "rwaiting", "wwaiting"}
ASSUME RWPlaces == Places = {"run", "delay", "rlock", "wlock"}

VARIABLES readers,   \* ACL_FIBER_RWLOCK::readers
          writer,    \* ACL_FIBER_RWLOCK::writer
          mode,      \* what each fiber was told it has: "none", "read", "write"
          harmed     \* history: a fiber has been cancelled in rlock or wlock

rwVars == << readers, writer, mode >>
codeVars == << thr, at, rwVars >>
vars == << codeVars, harmed >>

Init ==
    /\ ThreadInit
    /\ readers = 0
    /\ writer = None
    /\ mode = [f \in Fibers |-> "none"]
    /\ harmed = FALSE

\* The callers do not lock again what they have.
Calls(f) == Runs(f) /\ mode[f] = "none"

-----------------------------------------------------------------------------
(* __rlock *)

ReadFree == writer = None /\ Empty(thr, "wwaiting")

\* acl_fiber_rwlock_rlock, and acl_fiber_rwlock_tryrlock that succeeds; a try
\* that fails changes nothing.
RLock(f) ==
    /\ Calls(f)
    /\ ReadFree
    /\ readers' = readers + 1
    /\ mode' = [mode EXCEPT ![f] = "read"]
    /\ UNCHANGED << thr, at, writer >>

RLockBlock(f) ==
    /\ Calls(f)
    /\ ~ ReadFree
    /\ Suspend(f, "rlock", RingPrepend(thr, "rwaiting", f))
    /\ UNCHANGED rwVars

\* Mutant: as in __lock, only the one that the lock names is granted it.
Granted_Named(f, m) == [mode EXCEPT ![f] = IF writer = f THEN m ELSE "none"]

\* After the switch, in both: the reader or writer that is woken was granted
\* the lock by whoever woke it, unless it is cancelled.
Granted(f, m) == [mode EXCEPT ![f] = IF Canceled(thr, f) THEN "none" ELSE m]

RLockReturn(f) ==
    /\ Resumed(f, "rlock")
    /\ Resume(f, RingDetach(thr, f))
    /\ mode' = Granted(f, "read")
    /\ UNCHANGED << readers, writer >>

-----------------------------------------------------------------------------
(* __wlock *)

\* Mutant: the readers are not looked at.
WriteFree_Readers == writer = None

WriteFree == writer = None /\ readers = 0

WLock(f) ==
    /\ Calls(f)
    /\ WriteFree
    /\ writer' = f
    /\ mode' = [mode EXCEPT ![f] = "write"]
    /\ UNCHANGED << thr, at, readers >>

WLockBlock(f) ==
    /\ Calls(f)
    /\ ~ WriteFree
    /\ Suspend(f, "wlock", RingPrepend(thr, "wwaiting", f))
    /\ UNCHANGED rwVars

WLockReturn(f) ==
    /\ Resumed(f, "wlock")
    /\ Resume(f, RingDetach(thr, f))
    /\ mode' = Granted(f, "write")
    /\ UNCHANGED << readers, writer >>

-----------------------------------------------------------------------------
(* acl_fiber_rwlock_runlock and acl_fiber_rwlock_wunlock.  Their           *)
(* ring_detach of a ring's head does nothing: it is FIBER_READY that takes *)
(* the fiber out of the waiting ring.                                      *)

\* Mutant: the readers are counted before f has left.
LastReader_Before == readers = 0

LastReader == readers = 1

RUnlock(f) ==
    /\ Runs(f) /\ mode[f] = "read"
    /\ readers' = readers - 1
    /\ IF LastReader /\ ~ Empty(thr, "wwaiting")
       THEN /\ writer' = First(thr, "wwaiting")
            /\ thr' = FiberYield(FiberReady(thr, writer'))
       ELSE UNCHANGED << thr, writer >>
    /\ mode' = [mode EXCEPT ![f] = "none"]
    /\ UNCHANGED at

ReadersLetIn == thr.ring["rwaiting"]

\* Mutant: the waiting writers are left to the next reader.
WriterLetIn_Never == None

\* Whom wunlock wakes: all the waiting readers or, if there are none, the
\* first waiting writer.
WriterLetIn == IF ReadersLetIn = << >> THEN First(thr, "wwaiting") ELSE None

NewReaders == Len(ReadersLetIn)

\* FIBER_READY of the head of ring r, which is not exiting, until r is empty.
ReadyAll(t, r) ==
    [t EXCEPT !.ring   = [t.ring EXCEPT !["ready"] = @ \o t.ring[r],
                                        ![r]       = << >>],
              !.status = [g \in Fibers |->
                             IF In(t, r, g) THEN "ready" ELSE t.status[g]]]

WUnlock(f) ==
    /\ Runs(f) /\ mode[f] = "write"
    /\ \/ /\ ReadersLetIn # << >>
          /\ thr' = FiberYield(ReadyAll(thr, "rwaiting"))
       \/ /\ WriterLetIn # None
          /\ thr' = FiberYield(FiberReady(thr, WriterLetIn))
       \/ /\ ReadersLetIn = << >> /\ WriterLetIn = None
          /\ UNCHANGED thr
    /\ readers' = readers + NewReaders
    /\ writer' = WriterLetIn
    /\ mode' = [mode EXCEPT ![f] = "none"]
    /\ UNCHANGED at

-----------------------------------------------------------------------------
InCall(f) == at[f] \in {"rlock", "wlock"}

CancelledInCall == \E f \in Fibers : InCall(f) /\ Canceled(thr, f)

Next ==
    /\ \/ \E f \in Fibers :
             \/ RLock(f) \/ RLockBlock(f) \/ RLockReturn(f) \/ RUnlock(f)
             \/ WLock(f) \/ WLockBlock(f) \/ WLockReturn(f) \/ WUnlock(f)
       \/ ThreadStep /\ UNCHANGED rwVars
    /\ harmed' = (harmed \/ CancelledInCall')

Spec == Init /\ [][Next]_vars

-----------------------------------------------------------------------------
(* Safety, whoever is killed *)

Modes == {"none", "read", "write"}

\* The type invariant.
TypeOK ==
    /\ ThreadTypeOK
    /\ readers \in Nat
    /\ writer \in Fibers \cup {None}
    /\ mode \in [Fibers -> Modes]
    /\ harmed \in BOOLEAN

\* A fiber that was told it may write is alone, and is the writer of the lock;
\* one that was told it may read is counted.  So wunlock never reaches its
\* msg_fatal, "not locked" or "readers".
Exclusion ==
    /\ \A f \in Fibers :
          mode[f] = "write" => /\ \A g \in Fibers \ {f} : mode[g] = "none"
                               /\ writer = f /\ readers = 0
    /\ Cardinality({f \in Fibers : mode[f] = "read"}) <= readers

\* The state is well formed: the types; no fiber is lost or linked twice; and
\* a fiber is in a waiting ring only while it is suspended in that very call,
\* so that what an unlock grants it is what it asked for.
StateIntact ==
    /\ TypeOK
    /\ NoFiberLost
    /\ \A f \in Fibers :
          /\ In(thr, "rwaiting", f) =>
                at[f] = "rlock" /\ thr.status[f] = "suspend"
          /\ In(thr, "wwaiting", f) =>
                at[f] = "wlock" /\ thr.status[f] = "suspend"

\* Readers are let in past a waiting writer only all at once, by a writer that
\* leaves: those who come later queue behind the waiting writer.
WriterNotOvertaken ==
    [][~ Empty(thr, "wwaiting") /\ readers' > readers =>
          /\ writer = thr.running
          /\ Empty(thr, "rwaiting")']_vars

-----------------------------------------------------------------------------
(* Safety that a fiber cancelled while it waits may break *)

\* The fibers that an unlock has granted the lock to and that have not run.
Woken(place, ring) == {f \in Fibers : at[f] = place /\ ~ In(thr, ring, f)}

\* Nobody holds the lock without knowing: the readers counted and the writer
\* are fibers that were told so, or that have been woken and will be told when
\* they run.  A fiber for which rlock or wlock has failed holds nothing.
NothingLeaked ==
    /\ readers <= Cardinality({f \in Fibers : mode[f] = "read"})
                  + Cardinality(Woken("rlock", "rwaiting"))
    /\ writer # None =>
          mode[writer] = "write" \/ writer \in Woken("wlock", "wwaiting")

\* No rlock and no wlock leaks the lock before a fiber is cancelled in one.
LeakNeedsKill == harmed \/ NothingLeaked

\* Whoever waits has somebody to wait for, whose unlock will look at it: a
\* writer always has, a reader unless a fiber was cancelled in its call.
NoneStranded ==
    /\ ~ Empty(thr, "wwaiting") => writer # None \/ readers > 0
    /\ ~ Empty(thr, "rwaiting") =>
          writer # None \/ ~ Empty(thr, "wwaiting") \/ harmed

\* A lock that nobody holds or waits to write has no reader waiting for it.
FreeForReaders ==
    writer = None /\ readers = 0 /\ Empty(thr, "wwaiting")
        => Empty(thr, "rwaiting")

-----------------------------------------------------------------------------
(* Liveness, under the fairness explained in FiberLock. *)

LibraryStep ==
    \/ (Dispatch \/ \E f \in Fibers : DelayReturn(f)) /\ UNCHANGED rwVars
    \/ \E f \in Fibers : RLockReturn(f) \/ WLockReturn(f)

Fairness ==
    /\ WF_codeVars(LibraryStep)
    /\ \A f \in Fibers :
          /\ SF_codeVars(TimerExpires(f) /\ UNCHANGED rwVars)
          /\ SF_codeVars(Delay(f) /\ UNCHANGED rwVars)
          /\ SF_codeVars(RUnlock(f) \/ WUnlock(f))

FairSpec == Spec /\ Fairness

\* Every rlock and every wlock returns: neither the readers nor the writers
\* starve, whatever the mix of the others, unless a fiber was cancelled in its
\* call and has left the lock taken.
CallsReturn == \A f \in Fibers : InCall(f) ~> ~ InCall(f) \/ harmed
=============================================================================
