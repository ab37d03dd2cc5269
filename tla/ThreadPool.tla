----------------------------- MODULE ThreadPool -----------------------------
(***************************************************************************)
(* The thread pool of lib_acl (src/lib_acl/src/thread/acl_pthread_pool.c): *)
(* producers add jobs, singly or in batches, worker threads are created on *)
(* demand, wait idle on condition variables of their own, leave when they  *)
(* have been idle for long, and are drained by acl_pthread_pool_stop.      *)
(*                                                                         *)
(* What is done under worker_mutex is one action, from the lock to the     *)
(* unlock or to the wait that releases it.  What the code does before it   *)
(* has the mutex, or after it has released it, is an action of its own.    *)
(*                                                                         *)
(* Threads and jobs are numbered as they come.  A thread stands for its    *)
(* thread_worker as well, so a pointer to a thread that has ended is a     *)
(* pointer to freed memory.                                                *)
(***************************************************************************)
EXTENDS SequencesExt, Integers

CONSTANTS MaxThreads,   \* bound: threads ever created
          MaxJobs,      \* bound: jobs ever added
          MaxBatch,     \* bound: jobs in a batch
          Producers,    \* the threads that add jobs
          Batchers,     \* those that add batches
          None,         \* the null pointer
          Parallelism,  \* acl_pthread_pool_t::parallelism
          Timed,        \* an idle timeout is configured
          Failures      \* what may fail: "create" a thread, "init" it

ASSUME BoundsAssumption ==
    MaxThreads \in Nat /\ MaxJobs \in Nat /\ MaxBatch \in Nat
ASSUME NoneAssumption == None \notin Nat
ASSUME ProducersAssumption ==
    /\ IsFiniteSet(Producers) /\ Batchers \subseteq Producers
    /\ \A p, q \in Batchers : p = q  \* thr_iter is for one thread
ASSUME ParallelismAssumption == Parallelism \in Nat \ {0}
ASSUME ConfigAssumption ==
    Timed \in BOOLEAN /\ Failures \subseteq {"create", "init"}

Workers == 1..MaxThreads
Jobs    == 1..MaxJobs

VARIABLES
    queue,    \* the pool's job_first: jobs for whoever comes
    own,      \* each worker's job_first: the job given to it, or None
    running,  \* the job that each worker runs, or None
    added,    \* how many jobs were added
    finished, \* the jobs that have been run
    lost,     \* the jobs that were written to freed memory
    idlers,   \* the list thr_first of idle workers
    idle,     \* the pool's counter of idle workers
    next,     \* each worker's next pointer, from when it left the list
    wpc,      \* where each worker is
    born,     \* how many threads were created
    count,    \* the pool's counter of threads
    failed,   \* history: what has failed
    iter,     \* thr_iter, where a batch begins
    ppc,      \* where each producer is
    target,   \* the worker that it is about to signal
    quit,     \* the pool's quit
    stopper   \* where acl_pthread_pool_stop is

jobVars    == << queue, own, running, added, finished, lost >>
listVars   == << idlers, idle, next >>
threadVars == << wpc, born, count, failed >>
callVars   == << iter, ppc, target >>
stopVars   == << quit, stopper >>
vars == << jobVars, listVars, threadVars, callVars, stopVars >>

Init ==
    /\ queue = << >> /\ idlers = << >>
    /\ own = [w \in Workers |-> None] /\ running = own /\ next = own
    /\ added = 0 /\ finished = {} /\ lost = {} /\ idle = 0
    /\ wpc = [w \in Workers |-> "new"]
    /\ born = 0 /\ count = 0 /\ failed = {}
    /\ iter = None
    /\ ppc = [p \in Producers |-> "idle"]
    /\ target = [p \in Producers |-> None]
    /\ quit = FALSE /\ stopper = "no"

\* thr->next of worker w; in the list it is up to date.
Succ(w) ==
    IF Contains(idlers, w)
    THEN LET i == CHOOSE k \in DOMAIN idlers : idlers[k] = w
         IN  IF i < Len(idlers) THEN idlers[i + 1] ELSE None
    ELSE next[w]

\* Worker v comes before w in the list.
Before(v, w) ==
    \E i, j \in DOMAIN idlers : i < j /\ idlers[i] = v /\ idlers[j] = w

\* Mutant: the list is as it was.
Unlink_Nobody(S) == UNCHANGED << idlers, next >>

\* Workers S leave the list of idle workers, with their next pointers; the
\* others stay in their order.
Unlink(S) ==
    /\ \E left \in SetToSeqs(Range(idlers) \ S) :
          /\ \A i, j \in DOMAIN left : i < j => Before(left[i], left[j])
          /\ idlers' = left
    /\ next' = [w \in Workers |-> IF w \in S THEN Succ(w) ELSE next[w]]

\* The condition variables of workers S are signalled.
Signaled(S) ==
    [w \in Workers |->
        IF w \in S /\ wpc[w] = "waiting" THEN "signaled" ELSE wpc[w]]

-----------------------------------------------------------------------------
(* Workers *)

\* The worker looks for a job: back in worker_wait, or at the top of the loop
\* of worker_thread.
Awake  == {"signaled", "timedout"}
AtLoop == {"starting", "back"} \cup Awake

At(w, here, there) ==
    /\ wpc[w] \in here
    /\ wpc' = [wpc EXCEPT ![w] = there]

\* Its own job.  Whoever gave it has taken the worker out of the list.
TakeOwn(w) ==
    /\ At(w, AtLoop, "running")
    /\ own[w] # None
    /\ running' = [running EXCEPT ![w] = own[w]]
    /\ own' = [own EXCEPT ![w] = None]
    /\ UNCHANGED << queue, added, finished, lost, born, count,
                    failed, listVars, callVars, stopVars >>

\* A worker in the list leaves it.
LeaveIdle(w) == Unlink({w}) /\ idle' = idle - 1

\* The end of worker_wait.
StopsWaiting(w) ==
    \/ wpc[w] \in Awake /\ LeaveIdle(w)
    \/ wpc[w] \notin Awake /\ UNCHANGED listVars

\* Mutant: the job is run and stays in the queue.
Dequeued_Peek == queue

Dequeued == Tail(queue)

TakeQueued(w) ==
    /\ At(w, AtLoop, "running")
    /\ own[w] = None /\ queue # << >>
    /\ running' = [running EXCEPT ![w] = Head(queue)]
    /\ queue' = Dequeued
    /\ StopsWaiting(w)
    /\ UNCHANGED << own, added, finished, lost, born, count, failed,
                    callVars, stopVars >>

\* worker_fn returns; the mutex is yet to be locked again.
Finish(w) ==
    /\ At(w, {"running"}, "back")
    /\ finished' = finished \cup {running[w]}
    /\ running' = [running EXCEPT ![w] = None]
    /\ UNCHANGED << queue, own, added, lost, born, count, failed,
                    listVars, callVars, stopVars >>

NoJob(w) == own[w] = None /\ queue = << >>

\* worker_wait: at the head of the list.
GoIdle(w) ==
    /\ At(w, {"starting", "back"}, "waiting")
    /\ NoJob(w) /\ ~ quit
    /\ idlers' = << w >> \o idlers
    /\ idle' = idle + 1
    /\ UNCHANGED << jobVars, next, born, count, failed, callVars, stopVars >>

\* A timeout ends one slice of the idle timeout: unless it was the last, the
\* worker waits again, as it does after a signal.
WaitAgain(w) ==
    /\ At(w, Awake, "waiting")
    /\ NoJob(w) /\ ~ quit
    /\ UNCHANGED << jobVars, listVars, born, count, failed, callVars,
                    stopVars >>

\* Mutant: a worker that is to quit leaves jobs behind.
MayExit_Early(w) == quit \/ (NoJob(w) /\ wpc[w] = "timedout")

MayExit(w) == NoJob(w) /\ (quit \/ wpc[w] = "timedout")

\* Mutant: the one who waits for the threads to end is not signalled.
StopperSignaled_Never == stopper

StopperSignaled ==
    IF quit /\ stopper = "waiting" THEN "signaled" ELSE stopper

\* The thread ends: the pool quits, or the worker was idle for too long.
Exit(w) ==
    /\ At(w, AtLoop, "gone")
    /\ MayExit(w)
    /\ StopsWaiting(w)
    /\ count' = count - 1
    /\ stopper' = StopperSignaled
    /\ UNCHANGED << jobVars, born, failed, callVars, quit >>

\* worker_init_fn fails: the thread ends, and signals nobody.
InitFails(w) ==
    /\ "init" \in Failures
    /\ At(w, {"starting"}, "gone")
    /\ count' = count - 1
    /\ failed' = failed \cup {"init"}
    /\ UNCHANGED << jobVars, listVars, born, callVars, stopVars >>

WorkerStep(w) ==
    \/ TakeOwn(w) \/ TakeQueued(w) \/ Finish(w)
    \/ GoIdle(w) \/ WaitAgain(w) \/ Exit(w)

\* pthread_cond_timedwait returns ETIMEDOUT.
TimesOut(w) ==
    /\ Timed
    /\ At(w, {"waiting"}, "timedout")
    /\ UNCHANGED << jobVars, listVars, born, count, failed, callVars,
                    stopVars >>

\* A wait may end for nothing, too: a signal that job_deliver sends late hits
\* whoever has taken the condition variable over.
WakesForNothing(w) ==
    /\ At(w, {"waiting"}, "signaled")
    /\ UNCHANGED << jobVars, listVars, born, count, failed, callVars,
                    stopVars >>

-----------------------------------------------------------------------------
(* Producers *)

Goes(p, here, there) ==
    /\ ppc[p] = here
    /\ ppc' = [ppc EXCEPT ![p] = there]

\* The pool is valid: it is not while it is being stopped.
MayAdd == stopper \in {"no", "done"}

Room == Parallelism - count

\* Threads are created for n jobs that go to the queue, while the limit
\* allows; pthread_create may fail.  T are the workers signalled as well.
Create(n, T) ==
    LET wanted == IF n < Room THEN n ELSE Room IN
    \E m \in 0..wanted :
        /\ m = wanted \/ "create" \in Failures
        /\ born + m <= MaxThreads
        /\ born' = born + m
        /\ count' = count + m
        /\ failed' = IF m < wanted THEN failed \cup {"create"} ELSE failed
        /\ wpc' = [w \in Workers |->
                      IF w \in born + 1..born + m
                      THEN "starting" ELSE Signaled(T)[w]]

\* The first idle worker has no job.
CanDeliver == idlers # << >> /\ own[Head(idlers)] = None

\* job_deliver, up to the unlock.
Deliver(p) ==
    LET w == Head(idlers) IN
    /\ Goes(p, "idle", "signal")
    /\ MayAdd /\ added < MaxJobs
    /\ CanDeliver
    /\ added' = added + 1
    /\ own' = [own EXCEPT ![w] = added']
    /\ LeaveIdle(w)
    /\ target' = [target EXCEPT ![p] = w]
    /\ UNCHANGED << queue, running, finished, lost, threadVars,
                    iter, stopVars >>

\* Mutant: the worker is not signalled.
Delivered_Quietly(p) == wpc

Delivered(p) == Signaled({target[p]})

\* The signal of job_deliver, after the unlock.
DeliverSignal(p) ==
    /\ Goes(p, "signal", "idle")
    /\ wpc' = Delivered(p)
    /\ target' = [target EXCEPT ![p] = None]
    /\ UNCHANGED << jobVars, listVars, born, count, failed, iter, stopVars >>

\* job_add without an idle worker: the queue, and perhaps a new thread.
Enqueue(p) ==
    /\ ppc[p] = "idle"
    /\ MayAdd /\ added < MaxJobs
    /\ ~ CanDeliver
    /\ added' = added + 1
    /\ queue' = Append(queue, added')
    /\ Create(1, {})
    /\ UNCHANGED << own, running, finished, lost, listVars,
                    callVars, stopVars >>

\* acl_pthread_pool_bat_add_begin reads the list before it has the mutex.
BatchBegin(p) ==
    /\ Goes(p, "idle", "batch")
    /\ p \in Batchers
    /\ MayAdd
    /\ iter' = IF idlers = << >> THEN None ELSE Head(idlers)
    /\ UNCHANGED << jobVars, listVars, threadVars, target, stopVars >>

\* The workers that thr_iter goes through, down to one that has been freed.
Walks ==
    {walk \in [1..MaxThreads -> Workers \cup {None}] :
        \A k \in 1..MaxThreads :
            walk[k] = IF k = 1 THEN iter
                      ELSE IF walk[k - 1] = None THEN None
                      ELSE IF wpc[walk[k - 1]] = "gone" THEN None
                      ELSE Succ(walk[k - 1])}

\* The place of k among the numbers of S.
Rank(S, k) == Cardinality({j \in S : j <= k})

\* The batch, with the mutex: n jobs, each for the next worker of the walk
\* that has none, or for the queue.  acl_pthread_pool_bat_add_end takes the
\* workers with a job out of the list, without counting them out, and signals
\* them and as many others as there are jobs in the queue.
BatchAdd(p) ==
    \E n \in 1..MaxBatch, walk \in Walks :
        LET free == {k \in 1..MaxThreads :
                        /\ walk[k] # None /\ own[walk[k]] = None
                        /\ \A j \in 1..k - 1 : walk[j] # walk[k]}
            given == {k \in free : Rank(free, k) <= n}
            gone  == {k \in given : wpc[walk[k]] = "gone"}
            busy  == {walk[k] : k \in given \ gone} \cap Range(idlers)
            rest  == n - Cardinality(given)
        IN
        /\ Goes(p, "batch", "clear")
        /\ added + n <= MaxJobs
        /\ added' = added + n
        /\ own' = [w \in Workers |->
                      IF \E k \in given \ gone : walk[k] = w
                      THEN added + Rank(free, CHOOSE k \in given : walk[k] = w)
                      ELSE own[w]]
        /\ lost' = lost \cup {added + Rank(free, k) : k \in gone}
        /\ queue' = queue \o [k \in 1..rest |-> added + Cardinality(given) + k]
        /\ Unlink(busy)
        /\ Create(rest, busy \cup {idlers'[k] : k \in DOMAIN idlers'
                                                   \cap 1..Len(queue')})
        /\ UNCHANGED << running, finished, idle, iter, target, stopVars >>

\* thr_iter is cleared after the unlock.
BatchClear(p) ==
    /\ Goes(p, "clear", "idle")
    /\ iter' = None
    /\ UNCHANGED << jobVars, listVars, threadVars, target, stopVars >>

ProducerStep(p) == DeliverSignal(p) \/ BatchAdd(p) \/ BatchClear(p)

-----------------------------------------------------------------------------
(* acl_pthread_pool_stop, when no producer is in a call. *)

Wakened == Signaled(Range(idlers))

Stop ==
    /\ MayAdd
    /\ \A p \in Producers : ppc[p] = "idle"
    /\ quit' = TRUE
    /\ stopper' = IF count = 0 THEN "done" ELSE "waiting"
    /\ wpc' = IF count = 0 THEN wpc ELSE Wakened
    /\ UNCHANGED << jobVars, listVars, born, count, failed, callVars >>

StopEnds ==
    /\ stopper = "signaled"
    /\ stopper' = IF count = 0 THEN "done" ELSE "waiting"
    /\ UNCHANGED << jobVars, listVars, threadVars, callVars, quit >>

-----------------------------------------------------------------------------
Next ==
    \/ \E w \in Workers :
          WorkerStep(w) \/ InitFails(w) \/ TimesOut(w) \/ WakesForNothing(w)
    \/ \E p \in Producers :
          Deliver(p) \/ Enqueue(p) \/ BatchBegin(p) \/ ProducerStep(p)
    \/ Stop \/ StopEnds

Spec == Init /\ [][Next]_vars

\* Jobs return, the threads get the mutex when they ask for it, and a thread
\* that is created starts or fails.  Nothing else has to happen.
FairSpec ==
    /\ Spec
    /\ \A w \in Workers : WF_vars(WorkerStep(w))
    /\ \A p \in Producers : WF_vars(ProducerStep(p))
    /\ WF_vars(StopEnds)

-----------------------------------------------------------------------------
(* Properties *)

WorkerPlaces == {"new", "running", "waiting", "gone"} \cup AtLoop

\* The type invariant.
TypeOK ==
    /\ queue \in Seq(Jobs) /\ idlers \in Seq(Workers)
    /\ own \in [Workers -> Jobs \cup {None}]
    /\ running \in [Workers -> Jobs \cup {None}]
    /\ added \in 0..MaxJobs
    /\ finished \subseteq Jobs /\ lost \subseteq Jobs /\ idle \in Nat
    /\ next \in [Workers -> Workers \cup {None}]
    /\ wpc \in [Workers -> WorkerPlaces]
    /\ born \in 0..MaxThreads /\ count \in 0..Parallelism
    /\ failed \subseteq Failures
    /\ iter \in Workers \cup {None}
    /\ ppc \in [Producers -> {"idle", "signal", "batch", "clear"}]
    /\ target \in [Producers -> Workers \cup {None}]
    /\ quit \in BOOLEAN
    /\ stopper \in {"no", "waiting", "signaled", "done"}

\* The books of the pool are right: besides the types, which keep count within
\* the limit, the threads that have not ended are those that it counts, and the
\* list holds exactly the workers in worker_wait that have been given no job,
\* each once.
BooksTrue ==
    /\ TypeOK
    /\ count = Cardinality({w \in Workers : wpc[w] \notin {"new", "gone"}})
    /\ IsInjective(idlers)
    /\ \A w \in Workers :
          Contains(idlers, w) <=>
              wpc[w] \in {"waiting"} \cup Awake /\ own[w] = None

\* "Get the number of idle threads currently in the thread pool": what
\* acl_pthread_pool_idle returns (acl_pthread_pool.h:220) is how many workers
\* are in the list.  It is not: acl_pthread_pool_bat_add_end takes workers out
\* of the list without counting them out.
IdleCounted == idle = Len(idlers)

SignalComing(w) == \E p \in Producers : ppc[p] = "signal" /\ target[p] = w

\* The worker looks for jobs, runs one, or will be signalled.
WillLook(w) == wpc[w] \in AtLoop \cup {"running"} \/ SignalComing(w)

\* No job waits for nobody: the worker that was given one will look for it,
\* and for the jobs in the queue somebody will, unless the pool has no thread
\* at all because one has failed.
NoStrandedJob ==
    /\ \A w \in Workers : own[w] # None => WillLook(w)
    /\ queue # << >> =>
          \/ \E w \in Workers : WillLook(w)
          \/ count = 0 /\ failed # {}

\* acl_pthread_pool_stop returns only when every thread has ended and every
\* job added has been run, but for those that a batch has given to a freed
\* worker, and those left in the queue because a thread has failed.
StopDrains ==
    [][stopper # "done" /\ stopper' = "done" =>
          /\ \A w \in Workers : wpc[w] \in {"new", "gone"}
          /\ finished \cup lost \cup Range(queue) = 1..added
          /\ queue # << >> => failed # {}]_vars

\* Every job added is run, with the same two exceptions; the failure of one
\* thread costs no job as long as there is another.
JobsRun ==
    \A j \in Jobs :
        (j <= added) ~> (\/ j \in finished \cup lost
                         \/ count = 0 /\ failed # {})

\* acl_pthread_pool_stop returns, unless a worker_init_fn has failed: such a
\* thread does not signal it.
StopReturns ==
    (stopper = "waiting") ~> (stopper = "done" \/ "init" \in failed)

JobState(j) ==
    CASE j > added -> "new"
      [] \E w \in Workers : running[w] = j -> "running"
      [] j \in finished \ Range(running) -> "done"
      [] OTHER -> "queued"

\* The pool implements JobPool: no job is run twice or before it is added, and
\* no more run than the limit allows.  A lost one waits for ever.
Abstract == INSTANCE JobPool WITH
    Limit <- Parallelism, job <- [j \in Jobs |-> JobState(j)]

ImplementsJobPool == Abstract!Spec
=============================================================================
