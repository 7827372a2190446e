# Formal models of the Apex kernel

TLA+ models of the kernel under `src/sys`. TLC checks them on small instances; for the
scheduler and the mutex TLAPS proves the main properties for every number of threads,
events and priorities.

## The system

Apex is a monolithic uniprocessor RTOS kernel with a Linux system call interface. Its parts,
the state they keep and what makes them hard:

| Part | Source | State | Operations | Hard behaviour |
|---|---|---|---|---|
| Scheduler | `kern/sch.cpp` | run queue, active thread, `resched`, `locks`, thread states, sleep queues | switch, sleep, wake, suspend, priority, lock | interrupt handlers between any two instructions, a switch that is only pended |
| Mutex | `sync/mutex.cpp` | owner word with two flags, count, sleep queue | lock, unlock | fast paths without a lock, hand-over in two steps, interrupted waits |
| Semaphore | `sync/semaphore.cpp` | atomic count, sleep queue | wait, post, post once | posts from interrupt handlers around the waiter's sleep |
| Condition variable | `sync/cond.cpp` | sleep queue | wait, timed wait, signal, broadcast | queueing before the mutex is unlocked |
| Read/write lock | `sync/rwlock.cpp` | state counter, sleep queue | read and write lock and unlock | starvation, wakeups of both sides |
| Futex | `sync/futex.cpp` | list of futexes per task | wait, wake, requeue | user word changed while waiting |
| Timers | `kern/timer.cpp` | timer list, expiry list, interval timers | callout, stop, tick, timer thread | expiry racing with stop, wrapping arithmetic |
| Interrupts | `kern/irq.cpp` | table of handlers, request counts | attach, detach, handler, service thread | requests while the service thread works |
| Deferred calls | `kern/sch.cpp` | call queue | schedule, run | scheduling a call that runs |
| Threads, tasks, processes, signals | `kern/thread.cpp`, `task.cpp`, `proc.cpp`, `sig.cpp` | lists of threads and tasks, suspend counts, pending and blocked signals | create, terminate, suspend, exit, wait, kill | exit racing with wait, stop and continue |
| Memory | `mem/page.cpp`, `kmem.cpp`, `vm.cpp` | free blocks, heap blocks, segments | allocate, free, map, unmap, protect | splitting and joining at boundaries |
| Files | `fs/` | vnodes, files, pipes, mounts | open, close, read, write, mount | reference counts against locks, readers and writers that wait for each other |
| Devices | `dev/` | queues between handlers and threads, controller states | per device | interrupt handlers and threads on one queue |

Interaction: everything that waits uses the sleep protocol of the scheduler
(`sch_prepare_sleep`, test, `sch_continue_sleep` or `sch_cancel_sleep`); everything that ends
a wait calls `sch_wakeup`, `sch_wakeone` or `sch_unsleep`; signals reach a thread through
`sch_signal`. A spinlock is the scheduler lock, because there is one processor. A failed
`assert` stops the machine: no build defines `NDEBUG`.

## Modules

| Module | What it is |
|---|---|
| `RunQueue` | the run queue operations as operators on sequences |
| `Sched` | the scheduler: one action per function of `sch.cpp`, an interrupt possible between any two |
| `MCSched` | `Sched` for TLC |
| `RunQueueProofs`, `SchedProofs` | lemmas on queues; the scheduler's inductive invariant and theorems |
| `Lock` | the abstract recursive lock with hand-over |
| `Timer`, `Itimer` | callouts, tick and timer thread; the arithmetic of an interval timer |
| `Mutex`, `MCMutex` | the mutex on the sleep protocol; for TLC |
| `MutexProofs` | the mutex's inductive invariant, exclusion and refinement |
| `Semaphore` | the semaphore on the sleep protocol |
| `RWLock` | the read/write lock on the sleep protocol |
| `Pipe` | a pipe on its condition variable, under the vnode's mutex |

### Scheduler

Variables have the names of the code. `state` is a set of flags, `sleepq` maps an event to its
queue, `pended` is the exception that `arch_schedule` pends, `pc` tells where a thread is in a
function that has more than one step. A step is one section the code runs with interrupts
disabled. `sch_wakeup` takes one step per sleeper; nothing else runs in between. Every
function documented as callable from interrupt is enabled whenever interrupts are. Thread
code runs only as `active_thread` and while no switch is pended. A failing assertion sets
`panicked`, after which the machine only halts; `SuspendAsserts` is a suspension of a thread that is
suspended, or a resumption of one that is not, which callers do not exclude.

### Mutex

The owner word is three variables: the thread and the two flags. A step ends where the thread may
be preempted: after the fast path's compare-and-exchange, before the spinlock is taken, after
`sch_prepare_sleep`, after the sleep, and in the unlock between `sch_wakeone` and the store of
the new owner word, where an interrupt handler may still signal a waiter. `mutex_locks` is the tally a debug build keeps.

### Semaphore

Every access to the atomic count is a step. Posts are made by threads, in three steps, and by
interrupt handlers, in one. `sch_wakeone` keeps the scheduler's choice of the thread it compares
with the running one; a thread that this strands is `"lost"`. The count wraps: the test for `INT_MAX`
and the increment are two steps of a posting thread.

### Timers

`timer_list` and `expire_list` are the code's lists. Expiry times are kept relative to the last
tick, so that they stay small; `phase` is the time since that tick, which the code's coarse clock does
not see. A section with interrupts disabled is a step. The timer thread is asleep, about to look at
the expiry list, or in a callout; `timer_callout` and `timer_stop` are possible at each of these
points, as from an interrupt handler. `tmr` is the timer thread's local of that name. The tick never waits
for the timer thread. `need` records the time that must still pass before the callout may run; how
late a timer is, is counted up to `MaxLate`. The module starts with the timer thread asleep: the
clock is started by the boot thread, which has a lower priority, so no tick comes before.

`Itimer` has the values of one interval timer and `run_itimer` with its unsigned wrap.

### Read/write lock

`state` is the code's counter: -1 for a writer, else the number of read locks. `Try` is one turn of
`wait_event_lock`: test, and either take the lock or go to sleep with the spinlock released; both
are one step because the spinlock is the scheduler lock. `locker` is the thread
that keeps the scheduler locked. A thread may hold several read locks.

### Pipe

The vnode's mutex is a variable with its owner: that a mutex is such a lock is what `MutexProofs`
proves. One step is one turn of the loop of `pipe_read` or `pipe_write`, so a call that crosses the
end of the buffer takes two. The condition is its sleep queue; a wait is three steps: the thread
queues itself and locks the scheduler (`locker`), unlocks the mutex, and sleeps unless it was woken
in between. The k-th byte written has value k modulo `SIZE`, which shows any byte that is lost, repeated
or moved.

## Runs

| Run | Result | What it shows |
|---|---|---|
| `sched_core` | pass | two threads and the idle thread, two events, two priorities, signals, suspension: the queues are exact, priorities are respected, no pended switch is forgotten, timers die with their sleep |
| `sched_live` | pass | two round-robin threads: a ready thread runs |
| `sched_isr_signal` | violation | a signal from an interrupt between preparing and sleeping does not interrupt the sleep |
| `sched_isr_wakeone` | violation | `sch_wakeone` from an interrupt strands a thread |
| `sched_suspend_sleep` | violation | waking a suspended sleeper fails an assertion |
| `mutex` | pass | three threads, nesting two, two priorities, signals: exclusion, exact counts, no forgotten waiter, refinement of `Lock`; a waiter that nobody outranks is served |
| `semaphore_one` | pass | one waiter, posts from threads and interrupts: no post lost, no sleeper off the queue, a waiter asleep when a post comes gets away |
| `rwlock` | pass | three threads, two read locks each, signals: a writer is alone, nobody sleeps on a lock that could be had, a sleeping reader is woken in the end (which does not say that it then gets the lock, and says nothing of writers) |
| `pipe_pair` | pass | one reader, one writer: bytes in order, no sleep without a reason |
| `timer` | pass | three timers, armed and stopped at every step: lists exact, no expiry lost, no call early, none set more than a period late, every armed timer called if the timer thread keeps catching up |
| `itimer_one_shot` | violation | an interval timer without interval signals at every tick |
| `pipe_two_writers` | violation | a reader and the second of two writers wait for each other |

**Bounds.** `MaxLocks` bounds the nesting of `sch_lock`, `MaxDepth` that of a mutex; depth two
is enough for an inner and an outer section, and nothing in the code looks at a depth other than
whether it is one. Two threads beside the idle thread make every pair of roles (running and
waking, running and woken, preempting and preempted). Longer queues, in which position matters,
are left to the proofs, which have no bounds. `INT_MAX` of the semaphore is three so that the overflow
test is reached and lost to a race. `MaxReads` two
gives nested read locks. In `pipe_pair` a call is up to one byte longer than the buffer, so that
calls block half way, cross its end and fill it exactly; `SIZE`, the range of the byte counts, is
four buffers and wraps. Timers: a period is two units, so that a callout can fall between ticks;
intervals are longer than a period (`Intervals`), since with shorter ones the timer falls behind
without end; beyond `MaxLate` two late timers are told apart no more. In `pipe_two_writers` the buffer has two bytes, which is
enough for a pipe that is neither empty nor full.

**Passing runs leave out what violates.** `IsrSigThreads`, `IsrWakeone` and suspension of
sleepers are what the three scheduler violations are about; the passing runs have the first two empty
and let the machine halt at a failed assertion. `semaphore_one` has one
waiter, `pipe_pair` one reader and one writer; what happens with two is said below.

**Fairness.** Scheduler: a pended switch, the steps with interrupts disabled and `sch_unlock` are
weakly fair; leaving the outermost locked section, leaving the sleep protocol and the tick are
strongly fair, because interrupts disable them again and again. Mutex, semaphore and read/write lock: each thread
inside a function gets on with it, and the owner of a mutex or read/write lock unlocks it; strongly fair, because the
thread may lose the processor. Timers: time passes, and the timer thread, which has the best
priority, runs. That it catches up, emptying the expiry list again and again, is no fairness of the
scheduler's but depends on how long callouts take; `ArmedIsCalled` has it as a hypothesis, because
the tick puts expired timers at the head of the list and a thread that is always behind may never
come to the last. Nothing says that a lock is asked for, a post made or a signal sent.

## Proofs

`SchedProofs` proves, for any threads, events, priorities and lock depth, and with no interrupt
handler calling `sch_wakeone` (`IsrWakeone = {}`, the case in which the code goes wrong):
`NoThreadLost`, `SleepersExact`, `PrioritiesRespected`, `ReschedKept`, `RunnableRuns`,
`SwitchesToBest`. The inductive invariant `IInv` adds to the properties that the run queue is
sorted (else the head is not the best thread) and `Structure`: where a thread can be while it has
a flag. For instance, only the active thread is prepared to sleep, and a zombie that is still alive is about to
switch away. Each action has a lemma; `RunQueueProofs` has the facts about insertion and removal.

`MutexProofs` proves `Exclusion`, `WaitersKnown`, `CountsExact` and `MutexImplementsLock`. The
invariant `MInv` says for each place in the functions what the owner word, the count and the
thread's tally are (`ThreadInv`), that a free mutex has no flags and an unflagged one is held once
(`WordInv`), and that the sleep queue holds the sleeping threads (`SleepInv`). The refinement maps
a mutex whose count is about to be set, or which is being handed over, to a lock held once.

Only model-checked: liveness; the scheduler's `SignalInterruptsSleep` and `TimerOnlyWhileAsleep`; and
all properties of the semaphore, the read/write lock, the pipe and the timers. Liveness under
fairness and `ENABLED` are out of the prover's reach and stay with TLC.

## What the code does otherwise than it says

| Run | Where | Disagreement |
|---|---|---|
| `sched_isr_signal` | `kern/sch.cpp:547` | a signal sent from an interrupt while a thread prepares to sleep leaves it asleep |
| `sched_isr_wakeone` | `kern/sch.cpp:400` | `sch_wakeone` from an interrupt may compare with, and lose, the thread that prepares to sleep |
| `sched_suspend_sleep` | `kern/sch.cpp:158` | waking a thread that is suspended as well trips an assertion |
| `itimer_one_shot` | `kern/timer.cpp:303` | a timer without interval that expires inside a tick goes on signalling |
| `pipe_two_writers` | `fs/pipe.cpp:200` | a signal is sent only when the pipe was full, and to one thread: with two writers it can stop for good |

More that the models show but no run records:

- with two readers the close of the last writer wakes one, and the other sleeps on
  (`fs/pipe.cpp:153`, `Readers` of two; the cause is that of `pipe_two_writers`);
- two waiters of one semaphore pass the test of one post, both decrement and the assertion that
  follows fails (`sync/semaphore.cpp:83`, `Waiters` of two; every semaphore of the kernel has one waiter);
- a handler that posts inside `semaphore_post_once` makes the count two
  (`sync/semaphore.cpp:61`; it has no caller);
- posts that race at `INT_MAX` wrap the count (`sync/semaphore.cpp:41`);
- a thread that is suspended twice, as the parent of a `vfork` whose task is stopped, fails an
  assertion (`SuspendAsserts`).

## Not modelled

Assembly and machine code under `arch/` and `machine/` (register access, exception entry); the
boot loader and linker scripts; file formats (`ar`, ELF, FAT on disk) and path parsing, whose
difficulty is in data and not in interleaving; `lib/` routines without state; debug output. The
hardware is present only through what the handlers do.

## Plan

In order, each as a module with its own runs:

1. The function of a timer and `timer_redirect`; sleep timeouts of `Timer` composed with `Sched`.
2. Interrupt service threads (`kern/irq.cpp`) and deferred calls: no request lost, an abstract
   queue of requests implemented by the counter and the sleep protocol.
3. Futexes, and the rest of the condition variable: the user's word, requeue, timeouts.
4. Suspend counts, signals, exit, wait and the reaping of threads (`task.cpp`, `sig.cpp`, `proc.cpp`,
   `thread.cpp`), composed with the scheduler's suspend and exit.
5. Vnode references and locks, files, the pipe's lifetime, mounts.
6. The page allocator, the heap and the segments of an address space: functions on sets of
   pages against a reference definition.
7. Device queues (tty, serial, block, SD/MMC) between handlers and threads.
8. Proofs: exclusion of the read/write lock; the bytes of the pipe for any buffer size; no lost
   request for semaphore and interrupt threads; the page allocator's disjoint blocks.

