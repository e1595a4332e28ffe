# A TLA+ verification of the Racket CS run-time system

This directory models the concurrent parts of the Racket CS run-time system: the
thread layer in Racket (`racket/src/thread/`), and below it the parts of Chez
Scheme (`racket/src/ChezScheme/`) and rktio (`racket/src/rktio/`) in which several
OS threads meet.  These are the parts of the repository whose correctness
depends on interleavings, and the ones tests reach least.  The other parts (the
compilers, the expander, the I/O layer, Racket BC, the libraries) are listed in
`PROJECT.json` as not modelled, with the reason.

File names without a directory are in `racket/src/thread/`.

## The system

A *coroutine thread* is an engine: a continuation that runs until its ticks are
used up.  Coroutine threads of a place run one at a time in the place's Racket
pthread, and the scheduler (`schedule.rkt`) swaps them in and out.  In *atomic
mode* a coroutine thread is not swapped out, so an atomic section is atomic with
respect to the other coroutine threads.  A *parallel thread* runs in a pthread of
a pool and moves to the Racket pthread when it needs atomic mode; it can run
lock-free code and code in *uninterruptible mode* at the same time as the Racket
pthread.  All pthreads that run Scheme code stop for a garbage collection.

| Component | State | Operations | Hard behaviour |
|---|---|---|---|
| semaphores (`semaphore.rkt`) | count (-1 while waiters are queued, +inf.0 after post-all), queue, `accessible-semaphores` | post, post-all, try-wait, wait, poll in sync, interrupt of a waiter | lock-free compare-and-sets of parallel threads against atomic sections of the Racket pthread |
| events and sync (`sync.rkt`, `evt.rkt`, `api.rkt`) | a syncing with its syncers, selected, need-retry?, wakeup | poll, select, suspend, interrupt, retry, abandon, timeout | atomic sections with gaps between them; breaks, suspends and kills in the gaps |
| channels (`channel.rkt`) | two queues of waiters, two "queued" semaphores | get, put, poll, retry, poll for a commit | both sides may be syncs; one match decides two syncs and everything their nacks decide |
| thread groups (`thread-group.rkt`) | doubly linked lists with a cursor, a count | add, remove, next | changes in the middle of a round |
| thread life cycle (`thread.rkt`) | descheduled?, suspended?, dead, interrupt callback, pending break, callbacks | create, deschedule, reschedule, suspend, resume, break, kill | any of them at any point of the others |
| futures, parallel threads (`future.rkt`) | states, owners, a schedule queue, workers, the place's count of active ones | run, block, unblock, suspend, wake, stop, resume | several pthreads, spinlocks inside each other, callbacks to the place |
| fsemaphores (`fsemaphore.rkt`) | count, queue of futures, lock | post, wait | suspension of a future racing with its notification |
| thread activation and collect rendezvous (Chez `c/thread.c`, `c/types.h`, `c/schsig.c`, `s/7.ss`, `s/library.ss`) | pending request, count of active threads, flags, three conditions, slots of waiting threads | request, event check, rendezvous, create, fork, activate, deactivate, destroy, join | a flag read without the mutex; the last active thread leaving; who collects |
| parallel sweep (Chez `c/gc.c`) | a context per thread, sweepers with a status, send and receive stacks, triggers | assign, sweep, send, receive, wait, finish | termination detection; an object referred to from several contexts |
| guardians, ephemerons, weak pairs (Chez `c/gc.c`) | lists of guardian entries, triggers | partition, deliver, hold, recheck, break | a fixed point in which delivering an object makes others reachable |
| subprocesses (`rktio_process.c`) | statuses by process id, a list of forgotten processes, reference counts, two locks | start, poll, kill, forget, SIGCHLD | two reapers, coalesced signals, reused process ids |
| scheduler, sandman (`schedule.rkt`, `sandman.rkt`) | poll-done threads, sleepers, idle waiters | poll, select, sleep, wake | sleeping with work to do, never sleeping |
| mailboxes (`thread.rkt`) | queue, wakeup callback | send, receive, receive-evt | a wakeup after an interrupt |
| custodians (`custodian.rkt`) | a tree with weak tables, limits | register, shut down, queue a shutdown at a GC | shutdown during a traversal; GC callbacks |
| places (`place.rkt`) | message queues with waiters, activity flags | send, receive, start, kill | several Racket pthreads, wakeups |

How they interact.  A thread that blocks calls `waiter-suspend!` with an interrupt
callback and is descheduled (`thread-deschedule!`), which removes it from its
group.  A semaphore or channel that serves it calls `waiter-resume!`, which
reschedules the thread or, for a syncer of a sync, calls `syncing-done!`; that in
turn takes the losing syncers out of their queues and posts their nacks, which are
semaphores again.  A break, suspend or kill calls the interrupt callback, which
takes the thread out of the queues it is in; the callback it returns puts it back
when the thread goes on.  The timer and the sandman reschedule sleepers.

A parallel thread is a future with a Racket thread.  When the future meets an
operation that needs the Racket pthread it blocks, and posts a callback that
reschedules the Racket thread, which carries out the operation and gives the
future back to the pool.  Suspending or killing the Racket thread stops the future
first.

The workers of a pool, the Racket pthreads of places and the pthreads of foreign
code are Chez Scheme threads.  One that allocates enough requests a collection;
each thread notices at its next event check and waits in the rendezvous, and the
last one collects.  The contexts of waiting threads are given to sweepers, which
sweep in parallel; when they are done the collecting thread goes through the
guardians alone.  A thread in a blocking call is inactive and does not hold
a collection up.  A place sleeps until a file descriptor is ready; the SIGCHLD worker
and the workers of pools write to it to wake the place.

What makes each part correct: a semaphore loses no post and leaves no waiter behind;
a sync selects exactly one event, blocks only while none is ready, and posts
exactly the nacks of the others; a channel value goes from one put to one get;
the scheduler runs exactly the threads that are scheduled and starves none; a
future is run by one pthread at a time and none while its thread is suspended; a
collection runs alone and every request for one is answered; the sweepers retain
what is reachable and stop when that is done; guardians deliver what is
otherwise inaccessible; a process's status reaches its process value and no other.

## Modules

| Module | Models | Composes |
|---|---|---|
| `FifoSemaphore` | what a semaphore promises: a counter and a first-come first-served line | |
| `Semaphore` | `semaphore.rkt` at the level of its compare-and-sets and atomic sections | instance of `FifoSemaphore` |
| `SemaphoreProofs` | proofs about `Semaphore` | |
| `Sync` | `do-sync`, `sync-poll` and what breaks, suspends, kills, timeouts and posts do to a sync | a semaphore is the counter and line that `FifoSemaphore` describes |
| `SyncProofs` | proofs about `Sync` | |
| `Subsequence` | queues from which entries are taken out (`queue-remove-node!`) | used by `Sync` and `Channel` |
| `Channel` | `channel.rkt`, blocking and in syncs, nacks, and the polls of `io/port/commit-manager.rkt` | `sync` at the level of whole atomic sections, as in `Sync` |
| `ThreadGroup` | `thread-group.rkt` and `select-thread!` | the calls `thread.rkt` makes |
| `ThreadLayerProofs` | proofs about `Channel` and `ThreadGroup` | |
| `ParallelThreads` | `thread/parallel`, the pool, fsemaphores | the pool, an fsemaphore, and the Racket threads of the futures with suspend, resume and kill |
| `ParallelThreadsProofs` | proofs about `ParallelThreads` | |
| `Rendezvous` | collect requests and everything that changes which Chez Scheme threads are active | |
| `RendezvousProofs` | proofs about `Rendezvous` | |
| `Reach` | what a sweep promises: what is kept grows along references and is closed when the sweep is done | |
| `ParSweep` | the parallel sweep of `c/gc.c` | instance of `Reach`; starts where a rendezvous has left the slots |
| `ParSweepProofs` | proofs about `ParSweep` | |
| `Guardians` | the end of a collection in `c/gc.c` | starts where `ParSweep` ends |
| `GuardiansProofs` | proofs about `Guardians` | |
| `Subprocess` | `rktio_process.c` with a central SIGCHLD worker | |
| `SubprocessProofs` | proofs about `Subprocess` | |
| `MCSemaphore`, `MCSync`, ... | their instances for TLC | |

The operators whose comment begins with "Fault:" are deliberately wrong variants of
the definition that follows them; they document what each property guards against
and are not part of any specification.

### Semaphore

`count`, `queue` and `accessible` are the fields of the semaphore and
`accessible-semaphores`; `pc`, `op`, `c` and `result` are a thread's position in an
operation, its operation, the count it has read, and its answer; `atomic` is the
coroutine thread in atomic mode.  One action is one read, one compare-and-set, or
one step of an atomic section, so the steps of a thread in `Parallel` (and of one in
`Uninterruptible` mode) fall between any two steps of an atomic section of the
Racket pthread.  Compare-and-sets may fail spuriously where `SpuriousCas` allows it.
An `Interrupt` is the callback of a break, suspend or kill, and `Abort` the end
of the operation after it.  Coroutine threads and parallel threads may take locks, so that
`current-future-can-take-lock?` is true of everyone here.

### Sync

Each thread calls `sync` once, on a few semaphores, peek events and nack-guarded
semaphores.  An action is one atomic section or the code between two of them.
`pc` names the place in `do-sync`: the fast poll, the entry of the dynamic-wind, the
head of the loop, `suspend-syncing-thread`, waiting, polling, a call of a maker of a
nack-guard-evt outside atomic mode, and the exit.  `Break`, `Suspend`, `Resume`,
`Kill`, `TimerWakes`, `Post` and `PostAll` are the steps of others, together with
what their callbacks do: `RunInterruptCallback` is the thread's interrupt callback,
`SyncingInterrupt` what it and the suspend callback do to the syncers.  `fault`
records a call of `internal-error`.

### Channel

A waiter is a thread or a syncer of a sync.  A match, the decision of both syncs,
and the nacks this posts happen inside one atomic section, nested to any depth; the
variable `agenda` holds the calls that are still to be made, in the order in
which the code makes them, and all other actions wait until it is empty.  Commit
managers poll with `Commit` and wait on the "queued" semaphore; breaks and kills of
their threads, which programs have no reference to, are left out.

### ThreadGroup

`prev`, `next`, `chainStart`, `chain` and `chainEnd` are the fields of nodes and
groups, `count` is `num-threads-in-groups`.  Adding to an empty group, removing the
last child and selecting in a subgroup go on with the parent or child group: each
level is one action, with `task` and `arg` for the recursive call, and nothing
else happens in between.  `#f` is `Nil`, also as the key of a node that is in no list
(the default of `debug.rkt`).

### ParallelThreads

A future and its Racket thread have one name.  `state`, `at`, `lock` and `stop` are
the future's fields, with `at` for who has the continuation; `queue`, `capacity`,
`waiters` and `active` are the pool's and the place's; `c`, `waiting` and `fslock` one
fsemaphore's.  A worker's position is `wpc`: looking for a future, claiming one,
running, in `fsemaphore-wait` or `-post`, suspending, waking the Racket thread, leaving.
The timer of a worker's engine stops a future (`StopRun`) or, when all workers are busy and
futures wait, switches to another one: `RoundRobin` is the check under the mutex, `Switch` what
follows; while a future suspends, `round` is `'pause` and nobody checks.  The timer is only stopped in uninterruptible
mode.  It may go off when the future has suspended and released its lock
(`future.rkt:676`) but has not left its code (`692`): a stop or switch is then carried out a second
time, on a future that others may already have, and `late` records it.  It replaces
the saved continuation by one that only leaves the future (`at` is `"lost"`) or, after the
prompt of `run-future` is gone, ends in an error with the future's lock held (`Raise`).
The place's OS thread does one thing at a time: `ppc` is what it does in atomic mode,
including the wait of `future-external-stop` for the worker to let go (`Stops`, `StopWakes`,
and sleeping in between).  The pool's mutex is held for a few assignments and is not a
variable; the spinlocks are, and a step that acquires one needs it free.
`scheduler-capacity` is read and written in two steps by a worker, because the code
changes it outside the mutex.

### Rendezvous

`pending` is `$collect-request-pending`, `active` `$active-threads`, `something` the threads
whose `SOMETHINGPENDING` flag is set.  A critical section of the tc mutex is one step, but
for `S_fire_collector`, which marks threads one by one while they look at their flags, and
the collection.  A thread that waits on a condition is in the condition's set until it is
signalled or wakes spuriously, and goes on when the mutex is free; what a wait does
before and after (`CollectWait`, `Leaves`) includes becoming inactive, and taking and
giving up a slot.  A blocking foreign call is `Deactivate` and `Reactivate`.  `Destroy`
may come from an active thread or from an inactive one.

### ParSweep

A setup says what the rendezvous and earlier collections have left (slots, sweepers that
are running already, how many the system will start); `SetupSweepers` makes the
assignment of contexts to sweepers out of it.  An object is an atom with references; to
sweep it is one step of the context that has it, which relocates the references that are
local and sends the object on if there are others.  Whether somebody else's object is
marked is read without a lock: a reader may or may not see it (`MaybeMarked`).  The sweep
mutex is held in `Exchange`, `Decide` and `Wake`, each of which is one step.  Ephemerons
wait at the segment of their key.  `HeapOK` says what the mutator and earlier collections
guarantee of a heap: an old object that refers to a younger one is on a dirty card, in the
context of its creator (`S_dirty_set`, `alloc.c:396`; `gc.c:2217`), and an ephemeron lies on one card
(`gc.c:2507`).

### Guardians

`list` is the list each entry is on, and each phase of the loop takes entries from it
in any order; `trig` and the lists `trigger_hold`, `trigger_final` are the triggers on
segments.  Sweeping after each phase is a step per object, as in `ParSweep` but with
everything local.  The reference definitions (`Accessible`, `ClosedWithGuardians`,
`ClosedOrdered`) are least sets over the heap and mention no list.

### Subprocess

`os`, `group` and `proc` are the kernel's: a process id is free, running or a zombie, and
belongs to the process `proc`.  Processes are numbered as they are started, and so are the process
values that `pid`, `owner`, `in_group` and `result` are the fields of; a status is the number of the process
it comes from.  The kernel may give an id to a new process as soon as the old one has been
reaped, also when the old process value has yet to fetch its status; `reused` records that this
has happened.  `child_statuses`,
`unused_pid_statuses`, `pending_children` and `refcount` are the code's tables,
`child_wait_lock` the one lock that is held across system calls.  A place runs one operation at
a time: start (`StartingChild`, `Fork` or `ForkFails`, `Setpgid`, `RegisterChild`), poll, sleep until
woken, kill, forget.  The worker takes a SIGCHLD, wakes the places with processes in groups of
their own, and goes through the unused processes and then its own group.  `Astray` is the worker
after its error path, which goes on with the wrong list.

## What is checked

| Run | Instance | Shows |
|---|---|---|
| `sem_inv` | 2 coroutine threads, 1 parallel thread in uninterruptible mode, all operations but `semaphore-wait/atomic`, spurious failures, count up to 1 and +inf.0 | `QueuedOnce`, `CountMatchesQueue`, `RetainedWhileBlocked`: count, queue and retention agree in every state |
| `sem_fifo` | 2 coroutine threads, 1 parallel thread, all operations but try-wait, spurious failures (397,013 states) | `ImplementsFifo`: every operation takes effect at one instant, waiters are served in order; `WaitersServed`: a queued waiter leaves the queue if posts keep completing |
| `sync_disturbed` | 2 threads, 2 semaphores, a zero timeout, a nack; breaks, kills, suspends and resumes (2,119,730 states) | `SyncInv` (lines, units, no internal error), `NackIffNotSelected`, `BreakOrSelect` |
| `sync_returns` | 2 threads, 2 semaphores, a finite timeout, a nack, a peek; kills and post-all (484,002 states) | `SyncInv`, `BlocksOnlyWhileNotReady`, and `SyncReturns`: a sync with an event that is ready for good ends |
| `chan_rendezvous` | 5 threads, 2 channels, a nack, a commit manager, interrupts and kills | `ChannelInv`: one get for one put, of two threads, each sync decided once; `NobodyWaitsInVain`; `NackExactly` |
| `group_schedule` | 4 threads in 3 nested groups | `GroupInv` (exact lists, no empty group entered), `CountExact`, `RunsScheduled`, `NoStarvation` |
| `parallel` | 2 parallel threads, 1 worker, 1 fsemaphore; 2 operations of the threads, 1 post by the place, 1 suspend or kill (215,274 states) | until a timer is late: `PoolInv` (one runner, none while stopped, exact count), `NobodyStuck`, `BlockedContinues`, `QueuedRuns` (for a pool of one worker); at any time: `UnitsConserved` |
| `parallel_ends` (violation) | the same | the finding below |
| `rendezvous` | the main thread and 2 others, 1 slot, 2 requests, 2 blocking calls, joins or other events (101,934 states) | `RendezvousInv`, `CollectsAlone`, `RequestAnswered`, `WaitsEnd` |
| `par_sweep` | 3 contexts, up to 2 sweepers besides the main one, 3 heaps, 4 setups (85,762 states) | `SweepInv`, `SweepComplete`, `OwnerOnly`, `ImplementsReach`, `Terminates` |
| `guardians` | every heap of 2 plain objects, 2 tconcs, an ephemeron and a weak pair of the shapes in `MCGuardians`, with 2 entries of all kinds (909,856 states) | `RetainedExactly`, `EntriesInv` (who is delivered and who is held), `BrokenExactly`, `Terminates` |
| `subprocess` | 2 places, 2 process ids, 2 forks (242,493 states) | until an id is reused too early: `StatusInv`, `KillsOwnChild`, `ExitNoticed`, `UnusedReaped` |

The names ending in `Inv` are conjunctions of named parts, each stated and commented at
its definition.

Bounds and why they are enough.  The races of a semaphore are between one
operation that is inside an atomic section and one that is not; three threads add
a third one that is queued.  Only the signs of the count matter: -1, 0, positive
(`MaxCount` is 1) and +inf.0.  A sync with two events has a winner and a loser; with
two syncs on the same semaphore the second sees what the first gives back.
`MaxPosts` bounds how often a semaphore is posted; one post is what two syncs
compete for.  The two runs of `Sync` divide the disturbances between them; all the
invariants were also checked once, outside the runs, with breaks and kills and a
finite timeout (956,000 states), with breaks, kills and post-all, `SyncReturns`
included (1.02 million), and, but for `BlocksOnlyWhileNotReady`,
with breaks and suspends and a finite timeout (3.27 million).  For channels each kind of waiter occurs once on each side of a
match.  Three nested groups give an add and a remove that go through a middle
group, and four threads two lists of two, where a node is first, last or only.

One worker is enough for a thread to be queued, claimed, preempted by the timer and passed over,
and for a timer to be late.  It is not enough for the race for `scheduler-capacity`, which
needs two; `QueuedRuns` is therefore about pools of one worker, and fails for others (see
the disagreements).  What is proved of the pool holds for any number of workers.
The constraint `Followed` leaves out what adds nothing: of two behaviours that differ in the threads' names one
of those with a suspend, and, once a timer was late, the states in which the main thread has
posted.  Every property but `UnitsConserved` ends where a timer was late, and that one is
proved for all states.  `MaxOps` bounds the operations of all threads together: two make
one thread wait and another post, or one thread block twice.  Three threads are what a
rendezvous needs: one that collects or waits, one that leaves or comes back at that moment, and the
main one; one slot for three threads makes some waiters go without.  The heaps of
`par_sweep` are chosen so that references lead between all contexts and back, an old object lies
on two dirty cards, an ephemeron's key is reached late and through another ephemeron, and
one's key is not reached; the setups, so that contexts share a sweeper, a slot is
overlooked and a sweeper cannot be started.  Two guardian entries are a first and a second in
every order relation: one refers to the other, or delivers the other's guardian.  Two
processes are one that is wanted and one that is not, or two that have the same id one after the other.

Symmetry is used in `sem_inv`, for threads of the same kind, and by hand in `parallel` (above) and
in `subprocess`, whose constraint `FirstOfAll` follows the behaviours in which the first process is started by
the first place and has the first id; nothing in the specification tells places or ids apart, so
each behaviour has one like it among them.

Fairness.
* `sync_returns`: weak fairness of each thread's steps, because the scheduler gives every
  thread that can run its turn, which is what `group_schedule` checks of the scheduler
  itself.  Nothing is assumed of breaks, posts and timers.
* `group_schedule`: an operation in atomic mode is carried out (weak fairness of
  `Work`), a running thread is swapped out (strong fairness of `SwapOut`: the engine's timer
  expires, and a thread that is in atomic mode then is swapped out when it leaves it, by
  `add-end-atomic-callback!`), and the scheduler comes to `select-thread!` (strong fairness of
  `StartSelect`: each round of `poll-and-select-thread!` reschedules finitely many threads
  first).
* `sem_fifo`: `WaitersServed` assumes nothing but its premises, that posts keep
  completing and that no post-all stays in the middle.
* `parallel`: weak fairness of the steps that a worker has to take together (OS threads run, and so does
  the engine's timer; that the timer be late is never required), of what the place does in atomic mode, of callbacks and of each
  scheduled Racket thread; strong fairness of `Stops`, which takes a spinlock that others take
  and release again and again.  Nothing is assumed of posts, suspends, resumes, or of
  a future's code ever to block or end.
* `rendezvous`: strong fairness of what a thread does on its way through a request: Scheme code
  comes to an event check again and again, and a thread that waits for the tc mutex gets it
  in the end.  Nothing is assumed of blocking calls: a thread may stay away for ever.
* `par_sweep` and `guardians`: weak fairness: sweepers are OS threads, and the collecting thread goes on.
* `subprocess`: weak fairness of the worker and of a place inside an operation, strong
  fairness of the worker's acquiring `child_wait_lock`.  Nothing is assumed of processes.

Deadlock is checked for semaphores, groups, guardians and subprocesses.  It is not for syncs,
channels, parallel threads, the rendezvous and the sweep, where everyone may have
finished, or wait for something nobody has to do.

## Finding

A parallel thread that is suspended while its future finishes never ends after it is resumed
(`parallel_ends`).  `finish!` calls `wakeup-racket-thread`, which does nothing because the
thread is stopped (`future.rkt:702`); `future-external-resume` has no clause for a future
that is done (`future.rkt:771`), so the Racket thread stays descheduled, with an interrupt
callback of `'future`, for which `thread-reschedule!` does nothing (`thread.rkt:665`).  A
`thread-wait` on it waits for ever.  The comment at `future.rkt:583` relies on the resume.

## Other disagreements

The models contain these too; no run is kept for them.  The instance that shows each is
given.

* `semaphore-try-wait?` stores the count in its atomic path (`semaphore.rkt:235`), and overwrites
  what a parallel thread did by compare-and-set since it was read: `ImplementsFifo` fails when
  `Ops` of `sem_fifo` includes `"try"`.
* A sync that is suspended and resumed after it tested `need-retry?` (`sync.rkt:155`) and before it
  deschedules itself has left every queue and is woken by nothing: `BlocksOnlyWhileNotReady`
  fails when `Disturb` of `sync_returns` includes `"suspend"`.  A break that is sent at that moment to
  a thread with breaks disabled has the same effect.
* A sync whose timeout has rescheduled it, and that is then suspended and killed, is
  rescheduled when dead (`sync.rkt:737`, `thread.rkt:661`): `NoInternalError` fails with a finite timeout and
  `Disturb` of `{"suspend", "kill"}`.
* `channel-get` and `channel-put` do not post the semaphore that tells a commit manager that a waiter
  has arrived (`channel.rkt:75`, `155`); `sync` does.  `CommitNotMissed` fails with a thread in `channel-get` and a
  commit manager that puts.
* In uninterruptible mode, `semaphore-try-wait?` answers `#f` when its first compare-and-set fails
  spuriously and its second, of the count by itself, succeeds (`TryCasOnly`).
* A sync that waits both for the nack of an event of another sync and for a channel on which it
  matches that sync is decided twice: resuming the partner posts the nack, which selects the nack event
  of the sync that is matching, and then the match is reported and `syncing-done!` runs again.  Its
  assertion is off in the default build; the effect is that the nack of the event that is finally
  returned may have been posted.
* `fsemaphore-post` passes over a waiter that is suspended and drops it from the line; when it is resumed
  nothing wakes it, although the counter is positive.  `UnitsConserved` holds: the unit is in
  the counter.
* A parallel thread that is suspended between `future-unblock` and its return to `touch-blocked` is resumed
  without its future being put back in the pool's queue: the stop took it out, and the resume puts it
  back only if the Racket thread was waiting in `touch-blocked`.  The thread does not go on.
* `scheduler-capacity` is decremented without the pool's mutex (`future.rkt:1021`).  With two workers and three
  futures both workers may read 2 and write 1; the capacity is then never 0 while both run, the timer
  never makes room, and the third future stays in the queue for as long as the others run.  `QueuedRuns`
  without its restriction to one worker fails there.
* The comment at `future.rkt:662` says "no future-scheduler swap out from here on"; `'pause` keeps the timer from
  switching, but not from stopping the future, and another worker that is back sets `'round` again
  (`future.rkt:1136`).  A timer that goes off between the release of the future's lock (`676`) and the abort (`692`)
  suspends the future a second time: the saved continuation is replaced, and when the future is run again
  it leaves at once, in state `'running` with no worker; a later `future-external-stop` waits for it for ever, although "it
  ends up descheduled and not running" (`future.rkt:728`).  If the future has left the prompt of `run-future`, the
  second suspension raises an error with the future's lock held.  `PoolInv` and `NobodyStuck` fail in the instance of `parallel` without
  their disjunct `late`.
* "An object is swept by only one sweeper at a time" has one exception, an old object on two
  dirty cards (`Overlapping` in `ParSweep`); the two sweepers update different fields.
* `setup_sweepers` looks only at the first `S_collect_waiting_threads` slots, and may overlook a
  waiting thread in a later one; its context is then swept like that of any other thread.
* The comment at `gc.c:1399` says that sweeping an ordered representative will not discover new
  tconcs.  It may, through an ephemeron whose key is such a representative; `OrderedLast` therefore
  assumes that no ephemeron leads to a guardian.
* `sweep_in_old` may be handed a representative that is already forwarded, if it is also the
  representative or the object of another entry.  For an object that starts with a type word the
  collector then stops with an error (`pc = "aborted"` in `Guardians`; the properties about the result
  speak of collections that end).
* A child that moves itself to another process group is not reported to a sleeping place, and a child in the
  group that exits before it is forgotten stays a zombie until the next SIGCHLD: `ExitNoticed` and
  `UnusedReaped` say so.
* The central table knows processes by their ids, and an id may be reused while a process value that is not done has
  it.  When the worker has reaped the child of one place (`rktio_process.c:298`) and the kernel gives its id to a child
  that another place starts, `centralized_register_child` finds the old record and makes none
  (`rktio_process.c:221`).  The second process value then takes the first one's status, although `subprocess-status` promises
  the exit code of its own process (`subprocess.scrbl:184`); the first finds no record: a kill of it signals the second
  place's child, and its place may sleep for ever.  `StatusInv`, `KillsOwnChild` and `ExitNoticed` fail in the instance of `subprocess`
  without their disjunct `reused`.
* The error path of the SIGCHLD worker goes on with the wrong list (`rktio_process.c:311`, `next` for
  `next_unused`; `Astray`).  `IInv` of `SubprocessProofs` excludes it as long as no id is reused too early.

## What is proved

`tlapm` checks eight modules of proofs.  Their theorems hold for every value of the constants that
meets the `ASSUME` of the module they are about, in particular for any number of threads, workers,
places, sweepers, objects and entries; the runs check the same definitions on small
instances, and the inductive invariants were checked with TLC before they were proved.

| Theorems | State | From |
|---|---|---|
| `SemaphoreProofs`: `TypeCorrect`, `AtomicSections`, `QueueMembership`, `NoWaiterLeftBehind`, `Retained` | `TypeOK`, `AtomicOwner`, `QueuedOnce`, `CountMatchesQueue`, `RetainedWhileBlocked` | `SemaphoreAssumption` |
| `SemaphoreProofs!FirstComeFirstServed` | `ImplementsFifo` | `FifoOps`: no try-wait, and no try-peek in uninterruptible mode |
| `SyncProofs`: `LinesAndUnits`, `NacksExact`, `BreakXorSelect` | `TypeOK`, `InLineExactly`, `UnitsConserved`, `NackIffNotSelected`, `BreakOrSelect` | `SyncAssumption` |
| `SyncProofs!SyncSafe` | `SyncInv` | `NoLateWakeup`: suspends, kills and finite timeouts do not all occur |
| `SyncProofs!BlocksRightly` | `BlocksOnlyWhileNotReady` | `NoRetries`: no suspends, and no breaks sent to threads with breaks disabled |
| `ThreadLayerProofs`: `ChannelsSafe`, `ChannelNacksExact` | `ChannelInv`, `NackExactly` | `NacksApart`: no sync waits for a nack that its own decision leads to |
| `ThreadLayerProofs!ChannelsMeet` | `NobodyWaitsInVain` | `CommitsMeetSyncs`: no plain `channel-get` or `channel-put` where a commit manager waits |
| `ThreadLayerProofs`: `GroupsSafe`, `CountCorrect`, `OnlyScheduledRun` | `GroupInv`, `CountExact`, `RunsScheduled` | `GroupAssumption`: finitely many threads and groups, no group is its own parent |
| `ParallelThreadsProofs`: `OneAtATime`, `NoUnitLost` | `PoolInv` (until a timer is late), `UnitsConserved` | `PoolAssumption` |
| `RendezvousProofs`: `BookkeepingExact`, `CollectionExclusive` | `RendezvousInv`, `CollectsAlone` | `RendezvousAssumption` |
| `ParSweepProofs`: `SweepSafe`, `EndsWhenDone`, `CopiedByOwner`, `SweepRefinesReach` | `SweepInv`, `SweepComplete`, `OwnerOnly`, `ImplementsReach` | `SweepAssumption` and `SetupsAssignOnce` |
| `GuardiansProofs`: `RetentionExact`, `BrokenCorrectly`, `EntriesCorrect` | `RetainedExactly`, `BrokenExactly`, `EntriesInv` | `HeapAssumption` |
| `SubprocessProofs`: `StatusesKept`, `SignalsOwnChild` | `StatusInv`, `KillsOwnChild` (until an id is reused while a process value that is not done has it) | `SubprocessAssumption` |

None of the invariants is inductive by itself; `IInv` in each module (`ChannelsOK` and `GroupsOK` in
`ThreadLayerProofs`) is what had to be added.

**Semaphore.**  That the count is -1 exactly while waiters are queued needs what each thread
has read and is about to store in its atomic section, that only one thread is inside such a
section, and that only that thread can change the queue.  The argument for the count is
that a parallel thread's compare-and-set never starts from -1, and only the owner of atomic
mode switches the count to and from -1.  For the refinement of `FifoSemaphore` each operation has
one step that takes effect: the compare-and-set or the store in the atomic section; all
others map to stuttering.  The two exceptions in `FifoOps` are real: the store of a try-wait
in atomic mode may undo a lock-free step (see the disagreements above).

**Sync.**  `IInv` says of the semaphores that a line holds each entry once, and exactly the
syncers that wait (`Lines`), and that there is nothing to take while somebody is in line (`LineZero`).
Of each thread it says how far its syncers can be while its sync is undecided (`Control`); that a suspended
thread is out of every line and what was interrupted is retried or still suspended (`Interrupts`);
that nacks follow the selection (`Nacks`); that a break that is due for sync/enable-break has taken the sync
out of every line, and a selection has made the break cell ignored (`EnabledBreaks`), so that
neither can follow the other; which wakeup callbacks can find their thread descheduled (`Wakeups`); and that a descheduled thread
is undecided and in its lines (`Blocked`).  A
post selects the first entries of several threads at once; the units come out right because only the last of
them takes.  `LinesWithout` and `Requeued` are written with `Sub`, the subsequence at given
positions, whose properties follow from the numbering of the positions being one to one (`RankBijective`) without
induction.  Lines, units, nacks and breaks need no hypothesis on the disturbances.  The two that
remain, `NoLateWakeup` and `NoRetries`, are needed: the third and the second of the disagreements above are what
happens otherwise.  Both runs of `Sync` meet the first, and `sync_returns` the second.  With breaks
that are enabled a thread is interrupted only to raise the break, which is why `NoRetries` need not exclude them
(`NotInterrupted`).

**Channel.**  A match resumes the partner, which decides a sync, which makes the losers leave and posts their nacks,
which may decide further syncs: all of it is on the agenda, and the properties must hold when
it is empty, whatever it held.  So `ChannelsOK` says what each task on the agenda is about: a waiter that is to be resumed
or selected is out of its queue and its sync undecided; one that is to lose or whose nack is to be posted belongs to a
sync that is decided.  Tasks that are done first could undo that for the later ones, and the only way is
through a nack that selects an event of a sync that a later task is about.  `InOrder` says that this does not happen, in terms of a relation
that takes a waiter to the threads that its selection may decide; it starts out true at a match
because `NacksApart` says so of the operations: such a relation exists, does not lead from a sync to itself,
and does not lead back from a partner to the sync that matched it.  Without the hypothesis the theorem is false (see the disagreements above).  Likewise
`CommitsMeetSyncs`: only `sync` posts the semaphore a commit manager waits for.  That nobody waits in vain needs
neither `InOrder` nor what the tasks are about: a waiter joins a queue only when it found no partner in the other one.
`MCChannel` has TLC evaluate both hypotheses for its instance (`OperationsApart`).

**ThreadGroup.**  The invariant says which nodes are linked while an operation is under way, and
that there are ranks that decrease along each list, with the start highest, the end lowest and
nothing between a node and its next.  The ranks replace reachability, which would need
induction: that the last child of a group leaves it empty follows from the start
having the highest rank and the end the lowest.  `ChildrenExactly` follows `next` with a recursive function.  The
place of a linked node, the number of linked nodes of its group with at least its rank, goes from 1 to their number
and increases by 1 along `next` (`PlacesFollow`); the nodes by place therefore satisfy the function's
equation, which shows that the function is what the equation says (`ListFollows`), and two functions that satisfy it agree, because they would
first differ at some place (`FollowOnce`).

**ParallelThreads.**  `IInv` says what each worker knows at each control point about the future it
has in hand (`WorkerOK`), who can run a future in each of its states and where its continuation is (`FutureOK`),
and what a stop leaves behind (`StopOK`), together with the queues being without repetition.  A late
stop or switch breaks it, and nothing else does: what is inductive is `late \/ IInv`, by a lemma that every step after which
no timer was late preserves `IInv` (`NextIInv`) and one that `late` stays true (`LateStays`).  The units of an
fsemaphore have an invariant of their own (`UnitsInv`), which needs no such proviso: who changes the
counter or the line holds the fsemaphore's lock, and who is about to join the line has seen the
counter at 0 under that lock.

**Rendezvous.**  The count of active threads is compared with the set of threads at
control points where they are active; a step moves one thread between such sets, or, at the end of a
collection, all who wait.  `IInv` adds who holds the tc mutex between steps, when
`thread0-waiting?` is true, and who can be waiting on which condition.

**ParSweep.**  `IInv` says that nothing is forgotten (`Covered`: what is kept is up to date, or
waits at a trigger for a key that is not kept, or is in the hands of some context), that what
is in somebody's hands is kept, and, for each sweeper, which of its contexts are quiet at each control
point and what it means for the count of running sweepers.  A context may become busy again only
by what others send it, and that makes its sweeper count as running before the sender itself can stop.  So when
the count is 0 every context is quiet, no message is under way, and `Covered` says that everything
is up to date; with `HeapOK` the kept objects are then closed under references, which is
`Finish` of `Reach`.  That an object is in the hands of one sweeper is shown in a stronger form: an object that is not on
two dirty cards is in one place, once, where the places are the parts of each context's hands and the triggers; a step
takes it from one place to another, and what is copied was nowhere before.  `SetupsAssignOnce`, that `setup_sweepers` gives each context to one
sweeper, is about what a fold over the list of threads computes, which needs induction; TLC checks it
for the setups of its instance (`AssignedOnce`).

**Guardians.**  The properties compare with least sets, and each is proved in two halves: what is reached is
within every set that is closed (an invariant about all closed sets, true at every step), and
what is reached at the end is closed, because what is still to be swept, checked or
looked at again is on some list (`Traced`, `Listed`, `RoundOK`).  For ordered entries the
invariant keeps what was reached when they became final (`Settled`): what they deliver leads
back to that set only, and none of their objects is in it; it needs the proviso of `OrderedLast`, that no guardian is reached only by
delivering an ordered entry (`NoLateGuardian`).

**Subprocess.**  The invariant says who holds `child_wait_lock`, what is true of a process between the
`waitpid` that reaps it and the recording of its status, and what a record says of its process: a
process that somebody wants is reaped only by a thread that then records the
status, and not at all while a place that is about to signal it holds the lock.  All this holds as
long as an id names one process value that is not done.  Only `Fork` can end that, and then it
sets `reused`; the inductive invariant is `reused \/ IInv`.

Every invariant, every action property and both refinements that the passing runs check are proved.  Only
model-checked: the liveness properties, which are out of the prover's reach, and `SetupsAssignOnce`
for the setups of the instance of `ParSweep`.

## What is not modelled

* Scheduler polling and sleeping, mailboxes, custodians and places: see the plan.
* In `Semaphore`: `semaphore-wait/atomic`, which only the will executors call, when the count is known to be
  positive; and plain futures, which may not take locks (the guards with `current-future-can-take-lock?` and the
  internal errors after them).
* In `Sync`: `replace-evt` (nested syncings), choice events that are discovered late, wrap
  procedures, cross commits, and the limit on polling one event.
* In `Channel`: polls that may not wait (`poll-ctx-poll?`, `channel.rkt:109`, `191`), which return when there is no
  partner; impersonators, which end in the same operations, and the other requests
  of the commit manager's loop.
* In `ThreadGroup`: threads created for futures (they are in no group), and when the scheduler
  sleeps.
* In `ParallelThreads`: plain futures and `touch` (a touch of a future that waits for an fsemaphore waits
  on its event without being among its dependents, `future.rkt:552`, which deserves a look), breaks, the closing of a pool,
  the shutdown of workers (`future.rkt:1159` considers the request answered when one worker has
  answered), `fsemaphore-try-wait?`, and waits of Racket threads for fsemaphores.
* In `Rendezvous`: mutexes and conditions of programs, signals.
* In `ParSweep` and `Guardians`: the layout of objects, the choice of generations, object counts, static
  objects.
* In `Subprocess`: Windows, a place that exits with processes that are not done, pipes.  Of the
  kernel it is assumed that it does not reuse the id of a process that has not been reaped, and
  nothing else about ids.
* Memory reordering between pthreads: compare-and-sets and reads are taken to be
  sequentially consistent.
* The rest of the repository, for the reasons in `PROJECT.json`.  By lines most of it is C (438,000
  lines): Racket BC, an older implementation with its own collector and compiler; zlib, lz4 and libffi,
  which are third-party code; generated tables and boot code; `zuo`; and in Chez Scheme and rktio
  code that wraps system calls or computes on data layouts in one thread.  What is modelled are the
  parts of Racket CS in which several actors meet, and these are a small share of the lines; most of them
  are not written in C but in Racket and Scheme.

## Plan

1. Done: `Semaphore`, `Sync`, `Channel`, `ThreadGroup`,
   `ParallelThreads`, `Rendezvous`, `ParSweep`, `Guardians`, `Subprocess`.
2. Proofs.  Done: the safety invariants and action properties of all of them, and the refinements of `FifoSemaphore`
   and `Reach`.
3. Not yet modelled, most useful first: mailboxes and custodians (no thread runs without a custodian, mail
   is received in order and once, shutdown reaches everything below); the sandman (the
   process does not sleep with a thread that can run); place channels (a message is received once, a
   place that waits is woken); plain futures and the shutdown of workers.
