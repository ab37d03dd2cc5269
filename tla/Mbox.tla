-------------------------------- MODULE Mbox --------------------------------
(***************************************************************************)
(* MBOX (src/lib_fiber/c/src/common/mbox.c) and the YPIPE beneath it       *)
(* (ypipe.c): the mailbox by which threads wake the fibers of another      *)
(* thread.  Any number of senders take turns under a mutex; one fiber      *)
(* reads, without the mutex.  A sender writes the eventfd only when the    *)
(* reader has said, by leaving NULL in YPIPE::c, that it has found nothing.*)
(*                                                                         *)
(* Messages are the positions 1, 2, ... of the slots that yqueue hands     *)
(* out; slot pointers are positions too, and 0 is NULL.  The order of the  *)
(* steps is that of the loads, stores and compare-and-swaps of the code.   *)
(***************************************************************************)
EXTENDS Naturals, FiniteSets

CONSTANTS Senders,
          NoSender,
          Timeouts,   \* the kinds of timeout that the reader passes:
                      \* "forever" (< 0), "some" (> 0), "zero"
          MaxSend     \* bound: messages sent

ASSUME TimeoutsAssumption == Timeouts \subseteq {"forever", "some", "zero"}
ASSUME NoSenderAssumption == NoSender \notin Senders
ASSUME MaxSendAssumption  == MaxSend \in Nat

VARIABLES
    lock,      \* MBOX::lock: the sender that has it, or NoSender
    written,   \* slots that ypipe_write has filled; YPIPE::f is the next one
    w,         \* YPIPE::w: the first slot not flushed, for the senders
    c,         \* YPIPE::c: the first slot not flushed, or 0: the reader sleeps
    sig,       \* the counter of the eventfd
    spc,       \* where each sender is in mbox_send
    front,     \* yqueue_front: the slot that the reader reads next
    r,         \* YPIPE::r: the reader's copy of c
    rpc,       \* where the reader is in mbox_read
    again,     \* it is in its second ypipe_read, after the eventfd
    timeout,   \* the timeout of this call of mbox_read
    patient    \* history: every call so far has waited forever

senderVars == << lock, written, w, spc >>
readerVars == << front, r, rpc, again, timeout >>
codeVars == << senderVars, readerVars, c, sig >>
vars == << codeVars, patient >>

f == written + 1

\* ypipe_new: one slot, and w, f, r and c all point to it.
Init ==
    /\ lock = NoSender
    /\ written = 0
    /\ w = 1
    /\ c = 1
    /\ sig = 0
    /\ spc = [s \in Senders |-> "idle"]
    /\ front = 1
    /\ r = 1
    /\ rpc = "idle"
    /\ again = FALSE
    /\ timeout \in Timeouts
    /\ patient = (timeout = "forever")

-----------------------------------------------------------------------------
(* mbox_send *)

At(s, here, next) ==
    /\ spc[s] = here
    /\ spc' = [spc EXCEPT ![s] = next]

Lock(s) ==
    /\ At(s, "idle", "write")
    /\ written < MaxSend
    /\ lock = NoSender
    /\ lock' = s
    /\ UNCHANGED << written, w, c, sig, readerVars >>

\* ypipe_write
Write(s) ==
    /\ At(s, "write", "flush")
    /\ written' = written + 1
    /\ UNCHANGED << lock, w, c, sig, readerVars >>

\* ypipe_flush: the compare-and-swap succeeds unless the reader sleeps.
FlushAwake(s) ==
    /\ c = w
    /\ At(s, "flush", "unlock")
    /\ c' = f
    /\ w' = f
    /\ UNCHANGED << lock, written, sig, readerVars >>

\* Mutant: the reader is not signalled.
AfterFlush_Quiet == "unlock"

AfterFlush == "wake"

FlushAsleep(s) ==
    /\ c # w
    /\ At(s, "flush", "set")
    /\ UNCHANGED << lock, written, w, c, sig, readerVars >>

FlushSet(s) ==
    /\ At(s, "set", AfterFlush)
    /\ c' = f
    /\ w' = f
    /\ UNCHANGED << lock, written, sig, readerVars >>

\* pthread_mutex_unlock, before the eventfd is written.
Unlock(s) ==
    /\ \/ At(s, "unlock", "idle")
       \/ At(s, "wake", "signal")
    /\ lock' = NoSender
    /\ UNCHANGED << written, w, c, sig, readerVars >>

\* acl_fiber_write(out, &n, sizeof(n)), n = 1
Signal(s) ==
    /\ At(s, "signal", "idle")
    /\ sig' = sig + 1
    /\ UNCHANGED << lock, written, w, c, readerVars >>

Send(s) ==
    \/ Lock(s) \/ Write(s) \/ FlushAwake(s) \/ FlushAsleep(s) \/ FlushSet(s)
    \/ Unlock(s) \/ Signal(s)

-----------------------------------------------------------------------------
(* mbox_read *)

Call ==
    /\ rpc = "idle"
    /\ rpc' = "check"
    /\ again' = FALSE
    /\ timeout' \in Timeouts
    /\ UNCHANGED << front, r, c, sig, senderVars >>

\* Mutant: a slot that is filled is read, flushed or not.
Prefetched_Filled == r # 0 /\ front <= written

\* Slots before r were flushed when c was last read.
Prefetched == r # 0 /\ front # r

\* ypipe_check_read.
CheckHit ==
    /\ rpc = "check"
    /\ Prefetched
    /\ rpc' = "pop"
    /\ UNCHANGED << front, r, again, timeout, c, sig, senderVars >>

\* The source also asks that slot r hold a message.  No sender had flushed that
\* slot when r was read, so its load races with a sender's store or finds
\* whatever the slot was allocated with: the answer may be no at any time.
CheckMiss ==
    /\ rpc = "check"
    /\ rpc' = "swap"
    /\ UNCHANGED << front, r, again, timeout, c, sig, senderVars >>

\* What ypipe_read without a message leads to.
NoMessage == IF again \/ timeout = "zero" THEN "null" ELSE "wait"

\* Mutant: the reader goes to sleep whatever c is.
SwapLeaves_Null == 0

\* The compare-and-swap of c, from front to NULL, leaves:
SwapLeaves == IF c = front THEN 0 ELSE c

Swap ==
    /\ rpc = "swap"
    /\ r' = c
    /\ c' = SwapLeaves
    /\ rpc' = IF front = r' \/ r' = 0 THEN NoMessage ELSE "pop"
    /\ UNCHANGED << front, again, timeout, sig, senderVars >>

Pop ==
    /\ rpc = "pop"
    /\ front' = front + 1
    /\ rpc' = "idle"
    /\ UNCHANGED << r, again, timeout, c, sig, senderVars >>

\* The eventfd is read; without a timeout, until it has been written.
Wait ==
    /\ rpc = "wait"
    /\ sig > 0
    /\ sig' = 0
    /\ again' = TRUE
    /\ rpc' = "check"
    /\ UNCHANGED << front, r, timeout, c, senderVars >>

WaitTimesOut ==
    /\ rpc = "wait"
    /\ timeout = "some"
    /\ sig = 0
    /\ rpc' = "null"
    /\ UNCHANGED << front, r, again, timeout, c, sig, senderVars >>

\* mbox_read returns NULL.
ReturnNull ==
    /\ rpc = "null"
    /\ rpc' = "idle"
    /\ UNCHANGED << front, r, again, timeout, c, sig, senderVars >>

Read ==
    \/ Call \/ CheckHit \/ CheckMiss \/ Swap \/ Pop
    \/ Wait \/ WaitTimesOut \/ ReturnNull

-----------------------------------------------------------------------------
Next ==
    /\ \/ Read
       \/ \E s \in Senders : Send(s)
    /\ patient' = (patient /\ timeout' = "forever")

Spec == Init /\ [][Next]_vars

\* The fibers and threads on both sides keep running.
FairSpec ==
    /\ Spec
    /\ WF_codeVars(Read)
    /\ \A s \in Senders : WF_codeVars(Send(s))

-----------------------------------------------------------------------------
(* Properties *)

SenderPlaces == {"idle", "write", "flush", "set", "unlock", "wake", "signal"}
ReaderPlaces == {"idle", "check", "swap", "pop", "wait", "null"}

\* The type invariant; the mutex keeps the senders within their bound.
TypeOK ==
    /\ lock \in Senders \cup {NoSender}
    /\ written \in 0..MaxSend /\ w \in Nat /\ c \in Nat /\ sig \in Nat
    /\ spc \in [Senders -> SenderPlaces]
    /\ front \in Nat /\ r \in Nat
    /\ rpc \in ReaderPlaces
    /\ again \in BOOLEAN
    /\ timeout \in Timeouts
    /\ patient \in BOOLEAN

\* The reader takes a slot only after a sender has filled and flushed it, by
\* whichever of the two ways (r or c) it has learned of it.
NoUnwrittenRead == rpc = "pop" => front < w

\* Some sender has seen the reader asleep and will write the eventfd.
SignalComing == \E s \in Senders : spc[s] \in {"set", "wake", "signal"}

\* No lost wake-up: a reader that is about to block, or has, while a flushed
\* message is waiting finds the eventfd written, or a sender will write it.
NoLostWakeup == rpc = "wait" /\ front < w => sig > 0 \/ SignalComing

\* While all calls have waited forever, as those of sync_waiter.c do, none of
\* them returns without a message: no signal is ever left over.
ForeverGetsMessage == patient => rpc # "null"

\* Every message that is sent is read.
AllRead == \A n \in 1..MaxSend : written >= n ~> front > n
=============================================================================
