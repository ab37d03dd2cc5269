----------------------------- MODULE MboxProofs -----------------------------
(***************************************************************************)
(* Proofs about Mbox, for any number of senders and messages and any       *)
(* timeouts.  IInv is the inductive invariant: the mutex gives the senders *)
(* one YPIPE::w to write, c is w or NULL, the reader's r never passes w,   *)
(* and NULL is in c only while the reader has caught up with w.            *)
(***************************************************************************)
EXTENDS Mbox, TLAPS

InMutex == {"write", "flush", "set", "unlock", "wake"}

MutexInv ==
    \A s \in Senders :
        /\ spc[s] \in InMutex => lock = s
        /\ spc[s] = "write" => written < MaxSend

PipeInv ==
    /\ w <= written + 1
    /\ c \in {0, w}
    /\ 1 <= front /\ front <= w
    /\ r <= w
    /\ r # 0 => front <= r
    /\ rpc = "pop" => r # 0 /\ front < r
    /\ c = 0 => front = w

\* A reader in its wait has left NULL in c: whoever changed it will signal.
WakeupInv == rpc = "wait" /\ c # 0 => sig > 0 \/ SignalComing

IInv == TypeOK /\ MutexInv /\ PipeInv /\ WakeupInv

-----------------------------------------------------------------------------
\* The new pipe has one slot, and nothing in it.
LEMMA InitInv == Init => IInv
<1> SUFFICES ASSUME Init PROVE IInv
  OBVIOUS
<1> USE DEF Init
<1>1. again \in BOOLEAN /\ patient \in BOOLEAN
  BY Zenon
<1>2. TypeOK
  BY <1>1, MaxSendAssumption
     DEF MaxSendAssumption, TypeOK, SenderPlaces, ReaderPlaces
<1>3. MutexInv /\ PipeInv /\ WakeupInv
  BY DEF MutexInv, PipeInv, WakeupInv, InMutex
<1> QED BY <1>2, <1>3 DEF IInv

\* Every step of a sender, and every step of the reader, keeps the types.
LEMMA TypeStep == IInv /\ [Next]_vars => TypeOK'
<1> SUFFICES ASSUME IInv, [Next]_vars PROVE TypeOK'
  OBVIOUS
<1> USE MaxSendAssumption
    DEF MaxSendAssumption, IInv, TypeOK, SenderPlaces, ReaderPlaces,
        senderVars, readerVars
<1>0. patient' \in BOOLEAN
  BY Zenon DEF Next, vars
<1>1. ASSUME NEW s \in Senders, Send(s) PROVE TypeOK'
  <2>1. CASE Write(s)
    BY <1>0, <2>1 DEF Write, At, MutexInv
  <2>2. CASE Lock(s) \/ Unlock(s) \/ Signal(s)
    BY <1>0, <2>2 DEF Lock, Unlock, Signal, At
  <2>3. CASE FlushAwake(s) \/ FlushAsleep(s) \/ FlushSet(s)
    BY <1>0, <2>3 DEF FlushAwake, FlushAsleep, FlushSet, At, AfterFlush, f
  <2> QED BY <1>1, <2>1, <2>2, <2>3 DEF Send
<1>2. CASE Read
  <2>1. again' \in BOOLEAN /\ timeout' \in Timeouts
    BY <1>2, Zenon DEF Read, Call, CheckHit, CheckMiss, Swap, Pop, Wait,
                       WaitTimesOut, ReturnNull
  <2>2. CASE Swap
    BY <1>0, <2>1, <2>2 DEF Swap, SwapLeaves, NoMessage
  <2>3. CASE Call \/ CheckHit \/ CheckMiss \/ Pop
    BY <1>0, <2>1, <2>3 DEF Call, CheckHit, CheckMiss, Pop
  <2>4. CASE Wait \/ WaitTimesOut \/ ReturnNull
    BY <1>0, <2>1, <2>4 DEF Wait, WaitTimesOut, ReturnNull
  <2> QED BY <1>2, <2>2, <2>3, <2>4 DEF Read
<1>3. CASE UNCHANGED vars
  BY <1>0, <1>3 DEF vars, codeVars
<1> QED BY <1>1, <1>2, <1>3 DEF Next

\* Only the sender that has the mutex is between its lock and its unlock.
LEMMA MutexStep == IInv /\ [Next]_vars => MutexInv'
<1> SUFFICES ASSUME IInv, [Next]_vars PROVE MutexInv'
  OBVIOUS
<1> USE MaxSendAssumption, NoSenderAssumption
    DEF MaxSendAssumption, NoSenderAssumption, IInv, TypeOK, MutexInv, InMutex,
        SenderPlaces, senderVars, readerVars
<1>1. ASSUME NEW s \in Senders, Send(s) PROVE MutexInv'
  <2>1. CASE Lock(s)
    BY <2>1 DEF Lock, At
  <2>2. CASE Write(s)
    BY <2>2 DEF Write, At
  <2>3. CASE FlushAwake(s) \/ FlushAsleep(s) \/ FlushSet(s)
    BY <2>3 DEF FlushAwake, FlushAsleep, FlushSet, At, AfterFlush
  <2>4. CASE Unlock(s)
    BY <2>4 DEF Unlock, At
  <2>5. CASE Signal(s)
    BY <2>5 DEF Signal, At
  <2> QED BY <1>1, <2>1, <2>2, <2>3, <2>4, <2>5 DEF Send
<1>2. CASE Read
  BY <1>2 DEF Read, Call, CheckHit, CheckMiss, Swap, Pop, Wait, WaitTimesOut,
              ReturnNull
<1>3. CASE UNCHANGED vars
  BY <1>3 DEF vars, codeVars
<1> QED BY <1>1, <1>2, <1>3 DEF Next

\* The order of the slot pointers: front <= r <= w <= f, with c at w or NULL.
LEMMA PipeStep == IInv /\ [Next]_vars => PipeInv'
<1> SUFFICES ASSUME IInv, [Next]_vars PROVE PipeInv'
  OBVIOUS
<1> USE DEF IInv, TypeOK, PipeInv, senderVars, readerVars
<1>1. ASSUME NEW s \in Senders, Send(s) PROVE PipeInv'
  <2>1. CASE Lock(s) \/ Unlock(s) \/ Signal(s)
    BY <2>1 DEF Lock, Unlock, Signal
  <2>2. CASE Write(s)
    BY <2>2 DEF Write
  <2>3. CASE FlushAwake(s) \/ FlushSet(s)
    BY <2>3 DEF FlushAwake, FlushSet, f
  <2>4. CASE FlushAsleep(s)
    BY <2>4 DEF FlushAsleep
  <2> QED BY <1>1, <2>1, <2>2, <2>3, <2>4 DEF Send
<1>2. CASE Read
  <2>1. CASE Swap
    BY <2>1 DEF Swap, SwapLeaves, NoMessage
  <2>2. CASE CheckHit
    BY <2>2 DEF CheckHit, Prefetched
  <2>3. CASE Pop
    BY <2>3 DEF Pop
  <2>4. CASE Call \/ CheckMiss \/ Wait \/ WaitTimesOut \/ ReturnNull
    BY <2>4 DEF Call, CheckMiss, Wait, WaitTimesOut, ReturnNull
  <2> QED BY <1>2, <2>1, <2>2, <2>3, <2>4 DEF Read
<1>3. CASE UNCHANGED vars
  BY <1>3 DEF vars, codeVars
<1> QED BY <1>1, <1>2, <1>3 DEF Next

\* A reader that waits is signalled by whoever flushes past its NULL.
LEMMA WakeupStep == IInv /\ [Next]_vars => WakeupInv'
<1> SUFFICES ASSUME IInv, [Next]_vars PROVE WakeupInv'
  OBVIOUS
<1> USE DEF IInv, TypeOK, WakeupInv, SignalComing, senderVars, readerVars
<1>1. ASSUME NEW s \in Senders, Send(s) PROVE WakeupInv'
  <2>1. CASE Lock(s)
    BY <2>1 DEF Lock, At
  <2>2. CASE Write(s)
    BY <2>2 DEF Write, At
  <2>3. CASE FlushAwake(s)
    \* c was w, which is not NULL: the signal was already on its way.
    BY <2>3 DEF FlushAwake, At, PipeInv
  <2>4. CASE FlushAsleep(s)
    BY <2>4 DEF FlushAsleep, At
  <2>5. CASE FlushSet(s)
    BY <2>5 DEF FlushSet, At, AfterFlush
  <2>6. CASE Unlock(s)
    BY <2>6 DEF Unlock, At
  <2>7. CASE Signal(s)
    BY <2>7 DEF Signal, At
  <2> QED BY <1>1, <2>1, <2>2, <2>3, <2>4, <2>5, <2>6, <2>7 DEF Send
<1>2. CASE Read
  <2>1. CASE Swap
    BY <2>1 DEF Swap, SwapLeaves, NoMessage, PipeInv
  <2>2. CASE Call \/ CheckHit \/ CheckMiss \/ Pop \/ Wait \/ WaitTimesOut
             \/ ReturnNull
    BY <2>2 DEF Call, CheckHit, CheckMiss, Pop, Wait, WaitTimesOut, ReturnNull
  <2> QED BY <1>2, <2>1, <2>2 DEF Read
<1>3. CASE UNCHANGED vars
  BY <1>3 DEF vars, codeVars
<1> QED BY <1>1, <1>2, <1>3 DEF Next

\* The inductive invariant holds in every state that the mailbox reaches.
THEOREM Inductive == Spec => []IInv
<1>1. IInv /\ [Next]_vars => IInv'
  BY TypeStep, MutexStep, PipeStep, WakeupStep DEF IInv
<1> QED BY <1>1, InitInv, PTL DEF Spec

\* The type invariant; with MutexInv, the senders respect their bound.
THEOREM TypeCorrect == Spec => []TypeOK
BY Inductive, PTL DEF IInv

\* ypipe_read returns no slot that ypipe_flush has not published.
THEOREM NothingUnwritten == Spec => []NoUnwrittenRead
<1>1. IInv => NoUnwrittenRead
  BY DEF IInv, TypeOK, PipeInv, NoUnwrittenRead
<1> QED BY <1>1, Inductive, PTL

\* A reader that blocks on the eventfd with a message flushed is signalled.
THEOREM WakeupNotLost == Spec => []NoLostWakeup
<1>1. IInv => NoLostWakeup
  BY DEF IInv, TypeOK, PipeInv, WakeupInv, NoLostWakeup
<1> QED BY <1>1, Inductive, PTL

-----------------------------------------------------------------------------
(* When every call waits forever, a signal is written for the one reader   *)
(* that waits, and only once: what is counted here are the signals that    *)
(* are on their way or in the eventfd.                                     *)

Signalling == {"wake", "signal"}

ForeverInv ==
    /\ timeout = "forever"
    /\ rpc # "null"
    /\ c = 0 => rpc = "wait"
    /\ again /\ rpc \in {"check", "swap"} => c # 0 /\ front < w
    /\ sig > 0 => /\ sig = 1 /\ rpc = "wait" /\ c # 0 /\ front < w
                  /\ \A s \in Senders : spc[s] \notin Signalling
    /\ \A s \in Senders :
          /\ spc[s] \in {"flush", "set"} => w < written + 1
          /\ spc[s] = "set" => c = 0
          /\ spc[s] \in Signalling =>
                /\ rpc = "wait" /\ c # 0 /\ front < w
                /\ \A t \in Senders : spc[t] \in Signalling => t = s

\* With no timeout no signal is ever left over: see ForeverInv.
LEMMA ForeverStep ==
    ASSUME IInv, ForeverInv, [Next]_vars, timeout' = "forever"
    PROVE  ForeverInv'
<1> USE DEF IInv, TypeOK, PipeInv, ForeverInv, Signalling, SenderPlaces,
            senderVars, readerVars
<1>1. ASSUME NEW s \in Senders, Send(s) PROVE ForeverInv'
  <2>1. CASE Lock(s)
    BY <2>1 DEF Lock, At
  <2>2. CASE Write(s)
    BY <2>2 DEF Write, At
  <2>3. CASE FlushAwake(s)
    BY <2>3 DEF FlushAwake, At, f, MutexInv, InMutex
  <2>4. CASE FlushAsleep(s)
    BY <2>4 DEF FlushAsleep, At
  <2>5. CASE FlushSet(s)
    \* c was NULL: the reader waits and nobody else signals it.
    BY <2>5 DEF FlushSet, At, AfterFlush, f, MutexInv, InMutex
  <2>6. CASE Unlock(s)
    BY <2>6 DEF Unlock, At
  <2>7. CASE Signal(s)
    BY <2>7 DEF Signal, At
  <2> QED BY <1>1, <2>1, <2>2, <2>3, <2>4, <2>5, <2>6, <2>7 DEF Send
<1>2. CASE Read
  <2>1. CASE Swap
    <3>1. CASE again
      BY <2>1, <3>1 DEF Swap, SwapLeaves
    <3>2. CASE ~ again
      BY <2>1, <3>2 DEF Swap, SwapLeaves, NoMessage
    <3> QED BY <3>1, <3>2
  <2>2. CASE Wait
    BY <2>2 DEF Wait
  <2>3. CASE Call
    BY <2>3 DEF Call
  <2>4. CASE CheckHit \/ CheckMiss
    BY <2>4 DEF CheckHit, CheckMiss
  <2>5. CASE Pop \/ WaitTimesOut \/ ReturnNull
    BY <2>5 DEF Pop, WaitTimesOut, ReturnNull
  <2> QED BY <1>2, <2>1, <2>2, <2>3, <2>4, <2>5 DEF Read
<1>3. CASE UNCHANGED vars
  BY <1>3 DEF vars, codeVars
<1> QED BY <1>1, <1>2, <1>3 DEF Next

\* mbox_read with no timeout returns a message: the second ypipe_read, after
\* the eventfd, never comes back empty.
THEOREM ForeverGets == Spec => []ForeverGetsMessage
<1> DEFINE I == patient => ForeverInv
<1>1. Init => I
  <2>1. Init /\ patient => timeout = "forever"
    BY Zenon DEF Init
  <2> QED BY <2>1 DEF Init, ForeverInv, Signalling
<1>2. IInv /\ I /\ [Next]_vars => I'
  <2>1. ASSUME Next, patient' PROVE patient /\ timeout' = "forever"
    BY <2>1 DEF Next
  <2>2. ASSUME IInv, I, Next PROVE I'
    BY <2>1, <2>2, ForeverStep
  <2>3. ASSUME IInv, I, UNCHANGED vars PROVE I'
    <3>1. ForeverInv => timeout' = "forever"
      BY <2>3 DEF ForeverInv, vars, codeVars, readerVars
    <3>2. patient' = patient
      BY <2>3 DEF vars
    <3> QED BY <2>3, <3>1, <3>2, ForeverStep
  <2> QED BY <2>2, <2>3
<1>3. I => ForeverGetsMessage
  BY DEF ForeverInv, ForeverGetsMessage
<1> QED BY <1>1, <1>2, <1>3, Inductive, PTL DEF Spec
=============================================================================
