# A TLA+ development for acl's fibers

acl is a C/C++ library for network services. Its most intricate part is
`lib_fiber`: cooperative fibers with their own scheduler, an event loop, hooks
that turn blocking system calls into fiber switches, and the synchronisation
primitives that fibers and threads use with one another. This development
models that part, and the thread pool of the base library, `lib_acl`. Paths
below are under `src/lib_fiber/c/src/` unless they say otherwise;
`acl_pthread_pool.c` is in `src/lib_acl/src/thread/`.

## 1. Inventory

| Component | State it keeps | Operations | Talks to |
|---|---|---|---|
| Scheduler (`fiber.c`, `common/ring.c`) | per thread: the ready ring, the running fiber, the fiber slot table, the dead ring; per fiber: status, flags, the links `me` and `me2` | create, ready, switch, yield, kill (sync and async), signal, clear, exit | everything below calls `FIBER_READY` and `acl_fiber_switch` |
| Event fiber (`fiber_io.c`) and timers (`common/timer_cache.c`) | the tree of timer nodes, each with a ring of fibers; the fd table; the count of waiters | `acl_fiber_delay`, timer add/delete, `wakeup_timers`, the poll loop | links fibers through `me`, wakes them with `FIBER_READY` |
| Fiber lock, read/write lock (`sync/fiber_lock.c`) | owner, or readers and writer; rings of waiters through `me` | lock, trylock, unlock; r/w lock, try, unlock | scheduler |
| Fiber semaphore (`sync/fiber_sem.c`) | the count, the buffer size, a ring of waiters through `me2` | wait, timed wait, try, post | scheduler, timers |
| Mailbox (`common/mbox.c`, `common/ypipe.c`, `common/yqueue.c`) | a chunked queue, three slot pointers, one atomic pointer, an eventfd | send, read (with timeout), flush, check | threads; the basis of the next row |
| Cross-thread wake-ups (`sync/sync_waiter.c`, `sync/sync_timer.c`) | one mailbox and one fiber per thread | wake up, await | mailbox, scheduler |
| Fiber mutex (`sync/fiber_mutex.c`) | a pthread mutex, owner, array of waiters, a deadlock checker over all mutexes | lock (two strategies), trylock, unlock | sync_waiter |
| Condition variable (`sync/fiber_cond.c`) | an array of waiters of both kinds, an object per wait | wait, timed wait, signal | fiber mutex, sync_timer |
| Fiber event (`sync/fiber_event.c`, `fbase_event.c`) | an atomic, an owner, rings of waiters | wait, trywait, notify | eventfd, poll |
| Channel (`sync/channel.c`) | a ring buffer, arrays of waiting senders and receivers | send, receive, alternatives | scheduler |
| Event engine (`event.c`, `event/*.c`, `file_event.c`) | interest masks, lists of pending operations | add/delete read and write, prepare, wait | kernel, event fiber |
| Hooks (`hook/*.c`) | none of their own | read, write, connect, poll, select, epoll, ... | event engine |
| C++ classes (`../../cpp/src/*.cpp`) | wait group, fiber pool; otherwise thin wrappers | add/done/wait, exec | primitives above |
| Thread pool (`acl_pthread_pool.c`) | a queue of jobs, a list of idle workers each with jobs of its own, counts of threads and of idle ones, all under one mutex | add a job, add a batch, the worker's loop, idle timeout, stop | threads and condition variables of the system |
| The rest: `lib_acl`, `lib_acl_cpp`, `lib_protocol`, `lib_dict`, `lib_rpc`, `lib_tls`, `app/` | | base C library, codecs and clients, applications | independent of the fibers, or users of them |

`PROJECT.json` lists every component with its status, and every hazard at its
line.

**What is hard.** Three things run through all the primitives.

- *One link, many rings.* `ACL_FIBER::me` is the link of the ready ring, of the
  timer nodes and of the waiters of most primitives. `ring_prepend` does not
  unlink its entry first, so a fiber linked twice corrupts both rings, and one
  linked nowhere never runs again.
- *The gap between being woken and running.* `FIBER_READY` queues a fiber; other
  fibers run before it, may take what it was woken for, kill it, or let its
  timer fire. What its primitive does when it finally runs, and in which order
  it looks at the kill, the timer and the state of the primitive, decides
  whether locks leak and wake-ups are lost.
- *Threads.* The mailbox is lock-free on the reader's side; its sleep/wake
  protocol is one atomic pointer and a counter in the kernel. A fiber of
  another thread is woken by a message that another fiber of that thread must
  read first: when it arrives, what it is about may be over.
- *Signals after unlocks.* The pool, the mutex and the condition choose whom to
  wake with a lock held and wake it without. In between it may wake by itself,
  time out, or be killed.

**What makes each component correct.** Locks: exclusion, no leaked lock, no
stranded waiter, order of service, every call returns. Semaphore: no unit left
with a sleeping waiter, no wait that reports a timeout after it was chosen.
Mailbox: nothing is read before it was published, no lost wake-up, everything
sent is read. Scheduler: no fiber lost, none linked twice. Mutex: who waits is
asleep and known, a free mutex has somebody on its way to it, a deadlock is
reported. Condition: a wait is known before it unlocks, a signal reaches the one
it chose, and a result is what happened. Channel: messages are conserved and in
order, and nobody waits for what is there. Pool: each job is run once, no job
waits for nobody, the limit is kept, stop drains and returns.

## 2. The modules

| Module | Models | State and actions |
|---|---|---|
| `FiberOps` | `fiber.c`, `common/ring.c`, the timer part of `fiber_io.c` | operators on a thread record `[ring, status, flag, running]`: `FiberReady`, `Switch`, `FiberYield`, `FiberSignal`, `FiberTimerAdd`, `TimerWake`, ... |
| `FiberThread` | what the fibers of a thread do besides calling the primitive | `thr` (that record) and `at` (the call a fiber is suspended in); `Yield`, `Delay`, `DelayReturn`, `Kill`, `Clear`, `TimerExpires`, `Dispatch` |
| `FiberLock` | `ACL_FIBER_LOCK` | `owner` is the field; `holds` is what callers were told; `fatal` says an assert or `msg_fatal` was reached. One action per path of `__lock` up to its switch and after it, one for trylock, two for unlock |
| `FairLock` | what a lock with hand-off promises | `owner` and a FIFO `queue`; `FiberLock` refines it with `queue` mapped to the waiting ring |
| `FiberRWLock` | `ACL_FIBER_RWLOCK` | `readers` and `writer` are the fields; `mode` is what callers were told |
| `FiberSem` | `ACL_FIBER_SEM` | `num`, `buf`, `waiting` are the fields. The loop of `acl_fiber_sem_timed_wait` is `Wait`, then `WaitTakes`, `WaitAgain` or `WaitFails` at each resumption |
| `Mbox` | `mbox_send`, `mbox_read` and the ypipe | one action per load, store or compare-and-swap that another thread can see |
| `FiberMutex` | `ACL_FIBER_MUTEX` for the fibers of two threads and for threads without fibers, `SYNC_WAITER`, and the deadlock checker | a thread record of `FiberOps` per thread; `lock` is the pthread mutex, `waiters` the array in its order, `box` the mailbox of each thread. `at` and `on` are where a caller is in its call. One action per attempt, queueing, switch, and wake-up; `Reports` is `check_deadlock2` |
| `FiberCond` | `ACL_FIBER_COND`, `SYNC_OBJ`, `SYNC_TIMER`, on `FiberMutex` | `cwait` is the array; `step` is where a caller is in `cond_timedwait` or `cond_signal`, whose steps on the mutex are the actions of `FiberMutex`; `tbox` holds the messages, each with the object it is about |
| `Channel` | `ACL_CHANNEL`, on `FiberThread` | `buf`, `asend`, `arecv` are the fields; `stale` says which arrays hold a `FIBER_ALT` whose call has returned, `broken` that one was used |
| `ThreadPool` | `acl_pthread_pool_t` | `queue`, `own`, `idlers`, `idle`, `count`, `iter`, `quit` are the fields; `wpc`, `ppc` and `stopper` say where the threads are. One action per critical section, and per step outside one that another thread can see |
| `JobPool` | what a pool promises | each job is new, queued, running, done, in this order, and no more run than the limit; `ThreadPool` refines it |
| `FiberOpsProofs`, `FiberThreadInv` | | what the operators of `FiberOps` and the steps of `FiberThread` do to the rings; what the invariants of the primitives say of their thread |
| `FiberLockProofs`, `FiberRWLockProofs`, `FiberSemProofs`, `ChannelProofs`, `FiberSyncProofs` (mutex and condition), `MboxProofs`, `ThreadPoolProofs` | | theorems and proofs (section 5) |
| `MCFiberLock`, `MCFiberRWLock`, `MCFiberSem`, `MCMbox`, `MCFiberMutex`, `MCFiberCond`, `MCChannel`, `MCThreadPool` | | small instances for TLC |

**Grain.** The fibers of a thread are cooperative, so the code between two
switches runs without interleaving: each action is what the running fiber does
up to its next `acl_fiber_switch`, composed of the operators of `FiberOps` in
the order in which the code calls the functions. A call that suspends is two
actions, one on each side of the switch, and `at` remembers where the fiber is.
`Mbox` is about threads: each of its actions is one memory access. In
`FiberMutex` and `FiberCond` the threads interleave between the critical sections
of `ACL_FIBER_MUTEX::lock` and of the condition's own mutex, each of which is one
action, and a fiber that is in waiters but has not switched yet is a state
(`at = "switch"`). In `ThreadPool` an action is a critical section of
`worker_mutex`; what the code does before it locks (`BatchBegin`) or after it
unlocks (`DeliverSignal`, `BatchClear`) is an action of its own.

**Composition.** `FiberCond` extends `FiberMutex` and drives it: a wait is its
own steps with the unlock and the lock of the mutex between them, so that a fiber
is woken, killed or signalled anywhere in there. Mailboxes are FIFO queues in
both modules: what `Mbox` guarantees (everything sent is read, in order, no
wake-up lost) is what makes this a fair abstraction.

**The event fiber** is not a member of `Fibers`. It yields until no other fiber
is ready, then polls: `running = None` is "the event fiber has the thread", in
which timers expire (`TimerExpires`) and from which it takes its turn
(`Dispatch`).

**Kills.** `acl_fiber_kill` marks the fiber and makes it ready if it is
suspended. A yielded fiber has status SUSPEND while it is in the ready ring: a
kill moves it to the tail, as in the code. `acl_fiber_kill_wait` is `Kill`
followed by `Yield`. `Clear` is `acl_fiber_clear` by the fiber itself.

**Callers.** Fibers call anything in any order, with these restrictions: they do
not lock again what they were told they hold, they unlock only what they were
told they hold, and they read the result of `trylock` one way or the other
(constant `Misled`, see section 4). In `FiberCond` every wait is given the same
mutex, locked. Between calls a fiber sleeps (`Delay`) or yields (`Yield`,
`YieldOwn` in `FiberCond`). The pool is stopped when no producer is in a call.

**History variables.** `harmed` in `FiberRWLock` and `FiberSem`, and `patient`
in `Mbox`, record that something has happened (a fiber cancelled in its call; a
fiber that a post had chosen cancelled; a call of `mbox_read` with a timeout).
`harmed` in `FiberMutex` and `FiberCond` says that a kill has woken a fiber that
waits for the mutex, in `Channel` that a fiber was cancelled in a call;
`received` and `withdrawn` are what became of the messages of a channel, `cause`
what has come for a wait of the condition, and `finished`, `lost` and `failed`
what became of jobs and threads of the pool. No action reads them. They let one run
state what the code keeps always and what it keeps until then; fairness is stated on `codeVars`, without them.

**Bounds.** `MaxNum` (units in the semaphore), `MaxSend` and `MaxSends` (messages
sent to a mailbox, and by each fiber to a channel), `MaxMail` (messages in a
timer's mailbox), `MaxJobs`, `MaxBatch` and `MaxThreads` (jobs added, jobs of a
batch, threads ever created) are guards that the code does not have. Fibers are
killed once each in `FiberMutex` and `FiberCond`. Nothing else is cut.

## 3. The runs

| Run | Instance | States | Shows |
|---|---|---|---|
| `lock` | 3 fibers, all may be killed, one misled | 15,862 | exclusion, the owner knows, no stranded waiter, no fiber lost, only misled fibers reach an assert or `msg_fatal`, the refinement of `FairLock`, every lock call returns |
| `rw` | 3 fibers, one may be killed | 11,688 | exclusion, ring integrity, nobody stranded; no leak and no starvation until a fiber is cancelled in its call |
| `rw_leak` | 3 fibers, all may be killed | violation | finding 1 |
| `rw_strand` | the same | violation | finding 2 |
| `sem` | 3 fibers, two may be killed, up to 2 units, from any number of them at the start, buffers of 0, 2 and 3 (a post with a waiter yields always, at 2 units, never) | 101,990 | both rings intact, a chosen waiter does not time out, no lost wake-up and no sleeper beside a positive semaphore until a chosen fiber is cancelled |
| `sem_lost` | the same, all may be killed | violation | finding 3 |
| `mutex` | 2 fibers of one thread, 1 of another, 1 plain thread, 2 mutexes, one of each strategy, one fiber killable | 2,548,698 | whoever is in waiters is asleep, or will look again before it sleeps, and no wake-up hits an awake fiber; a free mutex has somebody on its way to it; rings intact; every deadlock of fibers is reported in whatever order the checker walks; all until a kill wakes a waiter |
| `cond` | 2 fibers of one thread, one of them killable, 1 plain thread, 1 mutex, 2 messages in the mailbox | 3,060,185 | waits are in waiters from before the unlock until a signal takes them, a chosen sleeper has its wake-up under way, and what a fiber is about to return is what happened |
| `channel` | 3 fibers, 2 may be killed or signalled, 2 send 3 messages each, buffers of 0, 1 and 2 | 268,376 | nobody waits for what is there, messages are conserved and in order, rings intact, what an uncancelled call reports is what was done, nothing stale before a cancellation, done calls return |
| `pool` | 2 producers, one of them of batches up to 2, 4 jobs, 2 threads at once and 3 in all, timeouts, failures of both kinds | 90,441 | the books are right, no job waits for nobody, jobs are run, stop drains and returns, the refinement of `JobPool` |
| `pool_idle` | the same | violation | finding 4 |
| `mbox` | 3 senders, 5 messages, all timeouts | 80,980 | nothing unpublished is read, no lost wake-up, patient calls always get a message, everything sent is read |

**Why the bounds are enough.** Three fibers are an owner and two waiters, which
is where order, stranding and overtaking appear (a writer inside, a writer
waiting and a reader behind it; a poster, a chosen fiber and a thief or a
sleeper). The fiber that may be killed plays every role in turn, and may be
killed again after it has cleared the flag. Two units let one post find the
previous unit not yet taken. Five messages take the mailbox through the cycle
asleep, flushed, signalled, late signal left over, asleep again more than once,
with every sender stopped between its unlock and its write of the eventfd. Three
callers on each mutex, of which two are in one thread, are needed for a wake-up
that crosses threads while another waiter stays; two mutexes for a deadlock. Two
fibers and a plain thread give the condition a signal of each route, with a second
waiter left behind; two messages in the mailbox let one be about a wait that is
over and the next about a present one. Three fibers on a channel are two waiters of
one kind and a third that serves them; a buffer of two and three messages of each
sender make it wrap. Three threads in a pool of two let one time out or fail and be
replaced, a freed worker be walked to, and a job be in every place at once. Of
larger instances section 5 says what TLC cannot, for every invariant.

In `cond` the constraint `Unharmed` leaves out what follows a kill that wakes a
waiter of the mutex, or one that a later signal would wake out of the mutex: from
then on its properties but the types are not claimed (see the observations in
section 4).

Each run has one invariant that includes the types of its module with what keeps
the state well formed (`StateIntact`, `BooksTrue`, `NoWaiterLost`, `NoFiberLost`,
`WaitersKnown`); for the lock and the mailbox the types are proved only.

Deadlock checking is off: a misled caller ends the process in `lock`, and in the
others the fibers may all be asleep with nothing left to do (every fiber in a
wait that no post answers, a mutex that is never unlocked; all messages sent; a
stale `FIBER_ALT` used; the pool stopped, or its workers idle for good).

**Mutants.** Beside the definitions stand variants that a plausible bug would
give (`LockResult_KillFirst`: the kill is looked at before the owner;
`Wakes_First`: only the first unit wakes; ...). Each property is broken by one.

### Fairness

- *Weak, on the steps of the library* (`LibraryStep`): a woken fiber that has
  the thread goes on, and the event fiber dispatches a ready fiber. No system
  call stands between.
- *Strong, on `TimerExpires`*: a timer that has been set is found expired by
  some later poll; polls may come and go in between.
- *Strong, on `Delay`*: a fiber that runs again and again sooner or later
  sleeps. This is a demand on the application: the event fiber polls only when
  no other fiber is ready (`fiber_io.c:268`), so fibers that only yield starve
  every timer. Without it no liveness holds.
- *Strong, on unlock* by a fiber that was told it has the lock. Also a demand on
  the application.
- There is no fairness on posts, kills, new calls, or yields.
- `Channel`: weak, on the steps that follow a switch, the event fiber's turn,
  and the yield of the fiber that runs. Nothing makes a fiber call.
- `ThreadPool`: weak, on each worker (it gets the mutex, and its job returns), on
  each producer's steps inside a call, and on the one who waits in stop. Threads
  need not time out, be woken for nothing, or fail.
- `FiberMutex` and `FiberCond` have no liveness: on graphs of this size TLC does
  not check it in reasonable time. `NoneStranded` and `SleeperSignalled` are its
  safety part: as long as somebody waits, a step that will serve it is pending.
- `Mbox`: weak fairness on the reader's thread and on each sender's. Its mutex
  needs none stronger, as sends are finite.

## 4. Findings

1. **A cancelled waiter keeps the read/write lock** (`sync/fiber_lock.c:175`,
   `:221`). An unlock counts or names the fibers it wakes before they run; a
   fiber killed in between returns -1 and takes nothing back. `__lock` avoids it
   by looking at the owner first.
2. **A cancelled writer strands readers** (`sync/fiber_lock.c:219`). Readers that
   queued behind a waiting writer are woken only by `wunlock`; when the writer
   is killed while readers hold the lock nobody wakes them.
3. **A unit is lost on a cancelled waiter** (`sync/fiber_sem.c:129`). A fiber
   that a post has chosen and that is killed before it runs returns -1; the unit
   stays in the semaphore while the others sleep.
4. **The count of idle workers is wrong after a batch** (`acl_pthread_pool.c:885`).
   `acl_pthread_pool_bat_add_end` takes the workers it wakes out of the list and
   leaves them in `idle`, and each counts itself again when it next waits.
   `acl_pthread_pool_idle`, documented as the number of idle threads
   (`acl_pthread_pool.h:220`), returns more than there are, and
   `acl_pthread_pool_busy` less than there are, or a negative number that it
   reports as an error (`:1555`). The list, which is what jobs are given by, stays
   right (`BooksTrue`), and without batches the count does, too
   (`PoolIdleCounted`).

`LeakNeedsKill`, `NoneStranded` (of readers), `CallsReturn`, `LossNeedsKill` and
`PositiveServes` say that these are the only ways: until then neither leak,
strand nor loss occurs in the runs.

Two more lines of the headers are contradicted by the code. No run is set against
them, since one call shows the first, and the other follows from reading one
function; what they lead to is checked.

- **`acl_fiber_lock_trylock` is inverted** (`sync/fiber_lock.c:94`). It returns
  `__lock(lk, 0) ? 0 : -1`, that is -1 when it has taken the lock, and 0 when
  somebody else has it. `fiber_lock.h:47` and `cpp/src/fiber_lock.cpp:24` say
  and assume the opposite. A fiber that is misled by this enters while another owns
  the lock, or keeps the lock without knowing, or dies in an assert or `msg_fatal`.
  `lock` shows that it never takes the lock from a fiber that is not misled, nor
  makes such a fiber die (`FatalIfMisled`).
- **A channel call may hide what it did** (`sync/channel.c:345`). A receiver that
  was handed a message and is killed before it runs returns -1, though
  `fiber_channel.h:52` says that a value >= 0 is returned if it got one. By the
  same lines a receiver woken by an `acl_fiber_signal` that does not kill returns
  success with nothing received (`:352`); `acl_channel_recvp` returns NULL to
  both, against `fiber_channel.h:76`. `ResultTrue` of `channel` shows that a call
  that nobody cancels reports what was done.

**Observations.** What follows was met while modelling. The properties of the
runs exclude it where they say "until" or "unless". The repository documents these
calls in general terms only, and does not say what becomes of a fiber that is killed
or signalled in them, or whose timer and wake-up coincide.

- *Mutex.* A fiber killed while it waits stays in `waiters` and is appended again
  (`sync/fiber_mutex.c:534`, `:564`), so an unlock may be spent on it, or on
  itself, while others wait, and the assert of `sync_waiter.c:76` may fail. The
  array is unordered: a pop moves the last waiter to the front
  (`common/array.c:38`), so service is not FIFO. The deadlock checker ignores
  threads without fibers, and reports chains that are not cycles.
- *Condition.* A signal of another thread whose message is still on its way when
  the timer fires is spent: the wait returns `FIBER_ETIME`. A plain thread that
  times out after a signal has taken it loses that signal too
  (`sync/fiber_cond.c:204`). A killed waiter consumes the signal. A message for a
  timed wait that is over wakes its fiber out of its next timed wait or out of
  `acl_fiber_delay`, or clears the flag of a timer that has fired since
  (`sync/sync_timer.c:70-86`). A fiber killed in an untimed wait that is waiting for the
  mutex again can be woken out of it by a signal.
- *Waking other threads.* A fiber that is suspended on the semaphore that guards
  a mailbox (`sync/sync_waiter.c:136`) and is killed there ends the process. The
  condition's wait is in the timer ring while its unlock may suspend it on that
  semaphore (`sync/fiber_cond.c:138-141`).
- *Channel.* A fiber cancelled in a call leaves its `FIBER_ALT`, which is on its
  stack, in the channel (`sync/channel.c:345`). A sender killed after its operation
  was done returns -1 though the message has passed.
- *Pool.* `acl_pthread_pool_bat_add_begin` reads the list before it locks
  (`acl_pthread_pool.c:713`, `:715`): the batch may write a job into a worker that
  has been freed (`lost`). A thread whose init function fails does not
  signal the one who waits in stop (`:434-437`), which then may wait for ever
  (`"init" \in failed` in `StopReturns`). Line 889 resets the wrong `prev`,
  without effect, as `prev` of the first worker is not read.
- *Elsewhere.* `cpp/src/fiber_lock.cpp` ignores the -1 of a cancelled lock. A fiber
  that takes an event without waiting is recorded as owner NULL
  (`sync/fiber_event.c:130`). A waiter of a wait group that runs late finds the
  group in use again and dies (`cpp/src/wait_group.cpp:87`). A timed wait of the
  semaphore that is robbed of its unit waits for its whole timeout again
  (`sync/fiber_sem.c:109`).

## 5. Proofs

TLAPS checks what follows for every value of the constants: any finite set of
fibers and any `Victims` among them, any `Misled` (lock), any number of units
and both kinds of post (semaphore), any senders, sizes of the buffer and numbers
of messages (channel), any fibers of one or two threads, plain threads and
mutexes of either strategy (mutex, condition), any senders, bound on the messages
and kinds of timeout (mailbox), and any producers, limit, batches and numbers of
threads and jobs, with and without timeouts and failures (pool).

| Module | Theorem | Says |
|---|---|---|
| `FiberLockProofs` | `LockInductive`, `LockTypes` | the inductive invariant `LockInv`, and the types in it |
| | `LockExclusion`, `LockOwnerKnows`, `LockWaiters`, `LockNoFiberLost`, `LockFatal` | the safety invariants of run `lock`; `LockWaiters` also `OnlyWaitersQueued` |
| | `LockOwnerKept` | only its owner's unlock takes the lock away |
| | `LockImplementsFair` | the refinement of `FairLock` |
| `FiberRWLockProofs` | `RWInductive` | the inductive invariant `RWInv` |
| | `RWStateIntact`, `RWExclusion`, `RWNoneStranded`, `RWLeakNeedsKill` | the safety invariants of run `rw` |
| | `RWNotOvertaken` | readers that come later do not overtake a waiting writer (`WriterNotOvertaken`, proved only) |
| `FiberSemProofs` | `SemInductive` | the inductive invariant `SemInv` |
| | `SemStateIntact`, `SemChosenNotTimedOut`, `SemLossNeedsKill` | the safety invariants of run `sem` |
| `ChannelProofs` | `ChannelInductive` | the inductive invariant `ChannelInv` |
| | `ChannelWaitsForCause`, `ChannelConserved`, `ChannelNoWaiterLost`, `ChannelStaleNeedsCancel` | the safety invariants of run `channel` |
| | `ChannelInOrder`, `ChannelResultTrue` | its action properties, `InOrder` and `ResultTrue` |
| `FiberSyncProofs` | `MutexInductive` | the inductive invariant `MutexInv` |
| | `MutexWaitersAsleep`, `MutexNoneStranded`, `MutexNoFiberLost`, `MutexDeadlockReported` | the invariants of run `mutex` |
| | `CondInductive`, `CondWaitersKnown` | the inductive invariant `CondInv`, and the invariant `WaitersKnown` of run `cond` |
| | `CondSafeInductive`, `CondSleeperSignalled`, `CondResultTrue` | the inductive invariant `CondSafe`, and the other invariants of run `cond` |
| `MboxProofs` | `Inductive`, `TypeCorrect` | the inductive invariant `IInv` of the mailbox, and the types in it |
| | `NothingUnwritten`, `WakeupNotLost`, `ForeverGets` | the safety invariants of run `mbox` |
| `ThreadPoolProofs` | `PoolInductive` | the inductive invariant `PoolInv` |
| | `PoolBooksTrue`, `PoolStrandsNoJob` | the safety invariants of run `pool` |
| | `PoolIdleCounted` | without batches `idle` is the length of the list |
| | `PoolDrains` | its action property, `StopDrains` |
| | `PoolImplements` | the refinement of `JobPool` |

`FiberOpsProofs` holds the lemmas that those about fibers rest on.

*Assumptions*: those named in the modules, each of which TLC evaluates in the
runs. `None` is not a fiber; `Fibers` is finite; the rings and places of a
primitive are those it uses; `MaxSend`, `MaxNum`, `MaxSends`, `MaxMail` and the
sizes of buffers (of a channel, and of a semaphore) are numbers. For the mutex,
`FibersOfThreadsAssumption` and `OthersAssumption`: each fiber belongs to one thread, each thread with fibers has
the fiber of its sync waiter, which is no fiber of the application, and fibers,
plain threads and the null pointer differ. `CondAssumption` says the same of the
sync timers. For the pool: `None` is no number, there are finitely many producers,
one of which at most adds batches (`thr_iter` is a field of the pool), and the limit
is at least one thread. Nothing else is assumed.

*The scheduler.* A ring is a sequence in the model, and most arguments need only
its set of fibers. `FiberOpsProofs` shows once what each operator of `FiberOps`
does to the sets (`ReadyLemma`, `SwitchLemma`, `YieldLemma`, `SignalLemma`, ...)
of a thread that is `Sound`: each ring has a fiber once and no two rings share
one. A thread is `Whole` when besides the fiber that runs is in no ring and has the
status for it. What fibers do outside of a primitive is said once, too: `Moves` lists
the steps of `FiberThread` by what they do to the thread, and `MovesLemma` says that
such a step leaves the thread `Whole`, keeps the flags of the fibers in a call of
the primitive, and wakes none of them but by a kill or by its timer. The modules of the primitives show that their
`ThreadStep` is one of these (`ThreadMoves`).

*The lock.* The heart is `OwnerKnows`: a lock handed to a suspended fiber is not
lost. It is not inductive alone. The fiber named by unlock must be in `__lock`,
hence `OnlyWaitersQueued`; it must stay ready or running until it looks at
`owner`, whatever kills, yields and timers do to the rings, hence `Whole(thr)`.
`LockStep` then has one step per action. `FairLock`'s queue is the waiting ring
as a sequence: each operator of `FiberOps` leaves such a ring alone, appends to
it, or removes one fiber, so a step of the scheduler stutters or is `Abandon`;
`FairStep` maps the lock's own actions to `Take`, `Enqueue`, `HandOff` and
`Release`, using `LockInv` for the guard of `Take`.

*The read/write lock.* Unlike the lock it grants before it tells: `readers` and
`writer` stand for fibers that were told and for fibers that were woken and have
not run. `Books` compares them with the set of both: the count is never below its
cardinality, whatever is killed, which gives exclusion; and equal to it until a
fiber is cancelled in its call, which gives `LeakNeedsKill`. Whether a fiber left
its ring by a grant or by a kill is seen from its flag.

*The semaphore.* `UnitsCovered`: until a chosen fiber is cancelled, units beside a
waiting fiber are no more than the chosen fibers that have not run. What makes it
inductive is `ChosenAwake`: a post takes the fiber it chooses out of its timer,
and so no timer fires for it.

*The channel.* `Books`: every message sent or offered is with a waiting sender, in
the buffer, received, or withdrawn, and in one of them only. The order of service
needs `Ordered`, of the buffer, and that a sender has one message offered at a time,
its latest. What a call reports needs `Reported`: a fiber in a call that is neither
in its array nor cancelled has had its operation done, and the message of a sender
is then in the buffer or received.

*The mutex.* A fiber is *expected* when it is in `waiters`, in the hands of an
unlock that has taken it out, or in a mailbox; it is in one of these, once
(`QueuedOnce`, `SentOnce`). `Placed` ties that to where the fiber is: expected, it
is about to switch or asleep; not expected and in a call, it runs or is ready.
This is why the assert of `sync_waiter.c:76` holds, and why the fiber that an
unlock takes out counts as one that will try the mutex (`Served`). All that is
until a kill wakes a waiter; types and hand-over of `popped` (`Sane`) are always.
`Unharmed` says nothing of a fiber in its own code, and of the rings no more than
`Firm`: a fiber that runs may be in the timer. So it holds under the condition
too, whose wait is in the timer before it has unlocked the mutex; run by itself,
the mutex leaves the timers empty (`Untimed`). `DeadlockReported` needs no history:
of the fibers of a cycle, the last that the checker comes to waits for one that
was entered before it.

*The condition.* `CondInv` says, whatever is killed and in whatever state the mutex
is, that a wait that no signal has taken is in `waiters`, once, and nothing else
is. It needs to know that nothing has come for a caller before its wait begins,
and that what a signal holds in its hand, or has written to the event of a plain
thread, was taken out of `waiters` before (`Booked`).

`SleeperSignalled` and `ResultTrue` hold until a kill misleads a fiber, and rest on
`Promised`, beside `Unharmed`. Three steps race for a wait: the timer, the signal of
the same thread, and the message of another. `Due` says how each leaves it. A
wait without a timeout is over only when it was signalled and no object of it is on the
way any more. One with a timeout is over only with a flag or a cause to show for
it. A wait that was signalled, with nothing on the way, is over, and its flag says no
timeout. For that, an object on the way must be known to its wait
(`Proper`): signalled, and with the timeout the wait has, since `wakeup_waiter` of
`sync_timer.c` decides by the object whether to look into the timer. There must be
one object of a wait at most (`OnlyOne`), so that the wait is told once its message
has been read. `Clocked` says when a fiber is in the timer and when its flag may
be set, `Stands` where in the mutex the steps of a wait find their caller. A step
that leaves a fiber `Steady` keeps all of this of it (`SettledKept`); each step is
then looked at for the one fiber it does something to. Of the mutex's steps only
`Moved` is needed.

*The mailbox.* `PipeInv` orders the slot pointers (`front <= r <= w <= f`, with
`c` at `w` or NULL, and NULL only while the reader has caught up); `MutexInv`
gives the senders one `w` to write; `WakeupInv` says that whoever moves `c` off
NULL while the reader waits owes it a signal. `ForeverInv` counts the signals:
while all calls wait forever there is at most one, in flight or in the eventfd,
and the reader is waiting for it.

*The pool.* Three facts about threads carry the rest of `PoolInv`: threads are
created in the order of their numbers and `count` is how many are alive
(`ThreadsKnown`); the list has exactly the workers in `worker_wait` without a job
of their own, once (`ListTrue`); no pointer is to a thread that has not come to its
loop (`PointersKnown`), so that a batch, which may walk to a freed worker, never
gives a job to one that starts and may yet fail. Hence whoever has a job of its own
is past its start and alive, and a signal is coming if it waits (`OwnersKnown`).
`NoStrandedJob` is not inductive: a worker that starts will look for jobs, but
`InitFails` may end it, and then another must be there. `QueueSeen` says who: a
worker that has come to its loop, or, while there is none, every thread alive is
about to start, and if no thread is alive one has failed.
`JobsKnown` is the conservation of jobs: each one added is in the queue, given to a
worker, running, finished or lost, in one of these only, and with one worker only.
`StopDrains` follows with `MayExit`, and so does the refinement: a job's place tells
its state, and each action moves one job on, a batch several new ones, or none.
No more run than the limit as each that runs has a thread of its own (`RunningFew`). Of the counter `idle` the
invariant says no more than that it is at least the length of the list, and equal to
it in a pool without batches (`Counts`).

Removing workers from the list is stated by what it leaves (a sequence of the others
in their order), and a batch's walk by its equation, so that the proof needs no
induction. `Ranks` says what the numbering of a batch's free workers gives: the first
`n` of them get the numbers from 1 to as many as they are, each once.

*Only model-checked*: liveness, which is outside the prover's reach. These are
`JobsRun` and `StopReturns` of the pool and the liveness properties of the runs
`lock`, `rw`, `sem`, `mbox` and `channel`.

## 6. What is left out

- Memory order: the mailbox's accesses are taken as sequentially consistent. The
  code's atomics are full barriers on the supported compilers; the plain accesses
  to slots are ordered by them.
- The mailbox variant without eventfd, and an MBOX without a mutex.
- Chunks of the yqueue: slots are endless positions.
- Time: a timer may expire at any poll. So nothing bounds how long a wait lasts.
- `errno`, logging, statistics, the `wstatus` field, debug builds.
- Creation and exit of fibers while others run; shared stacks.
- The semaphore that lines up the fibers of one thread on a mailbox of another
  (`mbox_wsem`): the send of a wake-up is one action.
- The deadlock checker's race with the mutexes it walks: it is given a snapshot.
- `channel_alt` with several alternatives: the function is static and is only
  called with one.
- In the pool: the polling thread (`poller_fn`), the cache of jobs under
  `USE_SLOT`, the sleep of an overloaded pool.
- Freeing a primitive while it is in use, which none of them guards against.
- The fiber event, the interest machine of `event.c`, creation and exit in
  `fiber.c`, the timer nodes of `common/timer_cache.c` and the wait group: they
  keep state that could be modelled the same way, and are the first to come if
  the project grows. The hooks above them depend on the kernel.
- Everything else that `PROJECT.json` lists as `not_modelled`, each with its
  reason: system calls, codecs, generated or vendored code.

## 7. Plan

Every invariant and every action property that a run checks is proved, and both
refinements. Modules that could follow: `FiberEvent` (the atomic and the ring of waiters),
`EventOper` (interest added and deleted between two polls, against a reference
"last request wins"), `YQueue` (the spare chunk, refining the positions of
`Mbox`), `FiberSched` (create, exit, the dead ring, the slot table), `WaitGroup`.
