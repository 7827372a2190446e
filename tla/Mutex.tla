------------------------------- MODULE Mutex -------------------------------
(***************************************************************************)
(* One mutex, sys/sync/mutex.cpp, with the sleep protocol of sch.cpp.      *)
(*                                                                         *)
(* A step ends where the thread may be preempted.  On the supported        *)
(* uniprocessors spinlock_lock is sch_lock, so no other thread runs while  *)
(* `locker` holds the mutex's spinlock or is between sch_prepare_sleep and *)
(* sch_continue_sleep; interrupt handlers, and with them signals, do.      *)
(* The owner word is modelled by its three parts.                          *)
(***************************************************************************)
EXTENDS Naturals, Sequences, RunQueue

CONSTANTS
  Threads, NoThread,
  MaxDepth,   \* bound: nesting of lock calls of one thread
  ThreadPrio  \* priority of every thread, smaller is better

ASSUME MutexAssumption ==
  /\ NoThread \notin Threads
  /\ MaxDepth \in Nat \ {0}
  /\ ThreadPrio \in [Threads -> Nat]

VARIABLES
  owner,        \* thread part of mutex_private::owner
  recursive,    \* MUTEX_RECURSIVE
  waiters,      \* MUTEX_WAITERS
  count,        \* mutex_private::count
  sleepq,       \* sleep queue of mutex_private::event
  locker,       \* thread that has the scheduler locked, or NoThread
  waiter,       \* local variable of mutex_unlock_slowpath; NoThread outside it
  pc,
  interruptible,\* the thread is in mutex_lock_interruptible
  sigpend,      \* the thread has a pending signal
  mutex_locks   \* thread::mutex_locks (CONFIG_DEBUG)

word == <<owner, recursive, waiters, count>>
vars == <<owner, recursive, waiters, count, sleepq, locker, waiter, pc,
          interruptible, sigpend, mutex_locks>>

\* "out": not in a mutex function; "setcount": fast path, before count = 1;
\* "slow": before mutex_lock_slowpath takes the spinlock; "prepared",
\* "asleep", "eintr", "granted": in its sleep; "unslow": before
\* mutex_unlock_slowpath takes the spinlock; "store": after its sch_wakeone.
Places == {"out", "setcount", "slow", "prepared", "asleep", "eintr", "granted",
           "unslow", "store"}

\* Thread th executes.
Runs(th, place) == pc[th] = place /\ locker \in {NoThread, th}
Goto(th, place) == pc' = [pc EXCEPT ![th] = place]

-----------------------------------------------------------------------------
(* Locking.                                                                *)

\* mutex_lock_s up to the fast path's compare-and-exchange.
mutex_lock_s(th, intr) ==
  /\ Runs(th, "out") /\ mutex_locks[th] < MaxDepth
  /\ ~(intr /\ sigpend[th])
  /\ mutex_locks' = [mutex_locks EXCEPT ![th] = @ + 1]
  /\ interruptible' = [interruptible EXCEPT ![th] = intr]
  /\ \/ owner = NoThread /\ owner' = th /\ Goto(th, "setcount")
     \/ owner # NoThread /\ UNCHANGED owner /\ Goto(th, "slow")
  /\ UNCHANGED <<recursive, waiters, count, sleepq, locker, waiter, sigpend>>

\* Mutant: the fast path leaves the count of the last owner.
MutSetCount(th) ==
  /\ Runs(th, "setcount")
  /\ UNCHANGED count /\ Goto(th, "out")
  /\ UNCHANGED <<owner, recursive, waiters, sleepq, locker, waiter, interruptible, sigpend,
                 mutex_locks>>

\* The end of the fast path.
SetCount(th) ==
  /\ Runs(th, "setcount")
  /\ count' = 1 /\ Goto(th, "out")
  /\ UNCHANGED <<owner, recursive, waiters, sleepq, locker, waiter, interruptible, sigpend,
                 mutex_locks>>

\* Mutant: an interrupted lock call keeps its entry in mutex_locks.
MutFailed(th) == UNCHANGED mutex_locks

\* The call fails with -EINTR.
Failed(th) == mutex_locks' = [mutex_locks EXCEPT ![th] = @ - 1]

\* Mutant: the waiter does not announce itself.
MutWait(th) ==
  /\ UNCHANGED <<owner, recursive, count, waiters>>
  /\ \/ /\ interruptible[th] /\ sigpend[th]
        /\ Failed(th) /\ Goto(th, "out") /\ UNCHANGED <<sleepq, locker>>
     \/ /\ ~(interruptible[th] /\ sigpend[th])
        /\ sleepq' = Append(sleepq, th) /\ locker' = th
        /\ Goto(th, "prepared") /\ UNCHANGED mutex_locks

\* Set MUTEX_WAITERS and prepare to sleep, unless a signal is pending.
Wait(th) ==
  /\ waiters' = TRUE /\ UNCHANGED <<owner, recursive, count>>
  /\ \/ /\ interruptible[th] /\ sigpend[th]
        /\ Failed(th) /\ Goto(th, "out") /\ UNCHANGED <<sleepq, locker>>
     \/ /\ ~(interruptible[th] /\ sigpend[th])
        /\ sleepq' = Append(sleepq, th) /\ locker' = th
        /\ Goto(th, "prepared") /\ UNCHANGED mutex_locks

\* Mutant: the recursive acquisition is not flagged.
MutEnterAgain(th) ==
  /\ count' = count + 1 /\ UNCHANGED <<owner, recursive, waiters>>

EnterAgain(th) ==
  /\ recursive' = TRUE /\ count' = count + 1 /\ UNCHANGED <<owner, waiters>>

mutex_lock_slowpath(th) ==
  /\ Runs(th, "slow")
  /\ \/ /\ owner = th /\ EnterAgain(th)
        /\ Goto(th, "out") /\ UNCHANGED <<sleepq, locker, mutex_locks>>
     \/ /\ owner = NoThread
        /\ owner' = th /\ count' = 1 /\ UNCHANGED <<recursive, waiters>>
        /\ Goto(th, "out") /\ UNCHANGED <<sleepq, locker, mutex_locks>>
     \/ /\ owner \notin {th, NoThread}
        /\ Wait(th)
  /\ UNCHANGED <<waiter, interruptible, sigpend>>

sch_continue_sleep(th) ==
  /\ Runs(th, "prepared")
  /\ locker' = NoThread /\ Goto(th, "asleep")
  /\ UNCHANGED <<word, sleepq, waiter, interruptible, sigpend, mutex_locks>>

\* The sleep ends and mutex_lock_slowpath returns.
Return(th) ==
  /\ \/ Runs(th, "granted") /\ UNCHANGED mutex_locks
     \/ Runs(th, "eintr") /\ Failed(th)
  /\ Goto(th, "out")
  /\ UNCHANGED <<word, sleepq, locker, waiter, interruptible, sigpend>>

-----------------------------------------------------------------------------
(* Unlocking.  Only the owner calls mutex_unlock.                          *)

mutex_unlock(th) ==
  /\ Runs(th, "out") /\ mutex_locks[th] > 0
  /\ mutex_locks' = [mutex_locks EXCEPT ![th] = @ - 1]
  /\ \/ /\ owner = th /\ ~recursive /\ ~waiters
        /\ owner' = NoThread /\ UNCHANGED pc
     \/ /\ recursive \/ waiters
        /\ UNCHANGED owner /\ Goto(th, "unslow")
  /\ UNCHANGED <<recursive, waiters, count, sleepq, locker, waiter, interruptible, sigpend>>

\* The waiter sch_wakeone picks: the first of the best priority.
TopWaiter ==
  {i \in 1..Len(sleepq) : \A j \in 1..Len(sleepq) :
     /\ ThreadPrio[sleepq[i]] <= ThreadPrio[sleepq[j]]
     /\ j < i => ThreadPrio[sleepq[i]] < ThreadPrio[sleepq[j]]}

sch_wakeone(th) ==
  \/ /\ sleepq = <<>>
     /\ waiter' = NoThread /\ Goto(th, "store") /\ UNCHANGED sleepq
  \/ \E i \in TopWaiter :
       /\ waiter' = sleepq[i] /\ sleepq' = queue_remove(sleepq, i)
       /\ pc' = [pc EXCEPT ![th] = "store", ![sleepq[i]] = "granted"]

\* The -EINVAL for a thread that is not the owner changes nothing; the callers
\* unlock what they have locked.
mutex_unlock_slowpath(th) ==
  /\ Runs(th, "unslow") /\ owner = th
  /\ count' = count - 1
  /\ \/ /\ count # 1 /\ Goto(th, "out")
        /\ UNCHANGED <<owner, recursive, waiters, sleepq, locker, waiter>>
     \/ /\ count = 1 /\ ~waiters
        /\ owner' = NoThread /\ recursive' = FALSE /\ Goto(th, "out")
        /\ UNCHANGED <<waiters, sleepq, locker, waiter>>
     \/ /\ count = 1 /\ waiters
        /\ sch_wakeone(th) /\ locker' = th
        /\ UNCHANGED <<owner, recursive, waiters>>
  /\ UNCHANGED <<interruptible, sigpend, mutex_locks>>

\* Mutant: the new owner word forgets the threads that still wait.
MutStore(th) ==
  /\ Runs(th, "store")
  /\ owner' = waiter /\ recursive' = FALSE /\ waiters' = FALSE
  /\ count' = IF waiter # NoThread THEN 1 ELSE count
  /\ locker' = NoThread /\ waiter' = NoThread /\ Goto(th, "out")
  /\ UNCHANGED <<sleepq, interruptible, sigpend, mutex_locks>>

\* Mutant: the mutex is freed and the woken thread returns without it.
MutStoreFree(th) ==
  /\ Runs(th, "store")
  /\ owner' = NoThread /\ recursive' = FALSE /\ waiters' = (sleepq # <<>>)
  /\ count' = IF waiter # NoThread THEN 1 ELSE count
  /\ locker' = NoThread /\ waiter' = NoThread /\ Goto(th, "out")
  /\ UNCHANGED <<sleepq, interruptible, sigpend, mutex_locks>>

\* The waiter becomes the owner; whether others wait is asked again.
Store(th) ==
  /\ Runs(th, "store")
  /\ owner' = waiter /\ recursive' = FALSE /\ waiters' = (sleepq # <<>>)
  /\ count' = IF waiter # NoThread THEN 1 ELSE count
  /\ locker' = NoThread /\ waiter' = NoThread /\ Goto(th, "out")
  /\ UNCHANGED <<sleepq, interruptible, sigpend, mutex_locks>>

-----------------------------------------------------------------------------
(* Signals.                                                                *)

\* A signal interrupts an interruptible sleep; in a thread that has not yet
\* left the processor it only becomes pending.
Signal(th) ==
  /\ ~sigpend[th]
  /\ sigpend' = [sigpend EXCEPT ![th] = TRUE]
  /\ \/ /\ pc[th] = "asleep" /\ interruptible[th] /\ Goto(th, "eintr")
        /\ sleepq' \in RemoveResults(sleepq, th)
     \/ ~(pc[th] = "asleep" /\ interruptible[th]) /\ UNCHANGED <<pc, sleepq>>
  /\ UNCHANGED <<word, locker, waiter, interruptible, mutex_locks>>

\* The thread takes the signal on its way to user mode, holding no mutex.
Deliver(th) ==
  /\ Runs(th, "out") /\ sigpend[th] /\ mutex_locks[th] = 0
  /\ sigpend' = [sigpend EXCEPT ![th] = FALSE]
  /\ UNCHANGED <<word, sleepq, locker, waiter, pc, interruptible, mutex_locks>>

-----------------------------------------------------------------------------
Init ==
  /\ owner = NoThread /\ recursive = FALSE /\ waiters = FALSE /\ count = 0
  /\ sleepq = <<>> /\ locker = NoThread /\ waiter = NoThread
  /\ pc = [th \in Threads |-> "out"]
  /\ interruptible = [th \in Threads |-> FALSE]
  /\ sigpend = [th \in Threads |-> FALSE]
  /\ mutex_locks = [th \in Threads |-> 0]

Step(th) ==
  \/ SetCount(th) \/ mutex_lock_slowpath(th) \/ sch_continue_sleep(th) \/ Return(th)
  \/ mutex_unlock_slowpath(th) \/ Store(th)

Next == \E th \in Threads :
  \/ \E intr \in BOOLEAN : mutex_lock_s(th, intr)
  \/ mutex_unlock(th) \/ Step(th) \/ Signal(th) \/ Deliver(th)

Spec == Init /\ [][Next]_vars

\* A thread inside a mutex function gets on with it, and the owner leaves its
\* critical sections, the outermost one too; all may have to wait for the
\* processor.
Fairness == \A th \in Threads :
  /\ SF_vars(Step(th) \/ (mutex_locks[th] > 1 /\ mutex_unlock(th)))
  /\ SF_vars(mutex_locks[th] = 1 /\ mutex_unlock(th))

FairSpec == Spec /\ Fairness
-----------------------------------------------------------------------------
(* Properties.                                                             *)

\* Every variable has its type.
TypeOK ==
  /\ owner \in Threads \cup {NoThread} /\ recursive \in BOOLEAN /\ waiters \in BOOLEAN
  /\ count \in Nat /\ sleepq \in Seq(Threads)
  /\ locker \in Threads \cup {NoThread} /\ waiter \in Threads \cup {NoThread}
  /\ pc \in [Threads -> Places] /\ interruptible \in [Threads -> BOOLEAN]
  /\ sigpend \in [Threads -> BOOLEAN] /\ mutex_locks \in [Threads -> Nat]

\* No two threads are inside: a thread whose lock calls succeeded more often
\* than it called mutex_unlock is alone in that, whichever mixture of fast and
\* slow paths, hand-overs and interrupted waits led here.
MutualExclusion ==
  \A t, u \in Threads : pc[t] = "out" /\ pc[u] = "out" /\ mutex_locks[t] > 0
                        /\ mutex_locks[u] > 0 => t = u

\* No waiter is forgotten: while a thread sleeps on the mutex, the mutex has an
\* owner and that owner's unlock takes the slow path.
NoLostWaiter ==
  \A th \in Threads : pc[th] \in {"prepared", "asleep"} => owner # NoThread /\ waiters

\* A thread that is in no mutex function owns the mutex exactly as often as
\* mutex_locks says: failed calls leave no trace and the plain owner word, which
\* lets mutex_unlock skip the count, never hides a recursive lock.
CountExact ==
  \A th \in Threads : pc[th] = "out" =>
    mutex_locks[th] = IF owner = th THEN count ELSE 0

\* The lock a client sees: a mutex between its hand-over's steps, and one whose
\* count is still to be set, are held once.
LockDepth ==
  IF owner = NoThread THEN 0
  ELSE IF pc[owner] \in {"setcount", "store"} THEN 1 ELSE count

L == INSTANCE Lock WITH holder <- owner, depth <- LockDepth

\* The mutex implements the recursive lock with hand-over of module Lock.
ImplementsLock == L!Spec

\* Every waiter that no thread outranks is served: its sleep ends with the mutex
\* or -EINTR, if the owners unlock; a thread that comes late cannot barge in for
\* ever.
WaiterServed ==
  \A th \in {t \in Threads : \A o \in Threads : ThreadPrio[t] <= ThreadPrio[o]} :
    pc[th] \in {"prepared", "asleep"} ~> pc[th] = "out"
=============================================================================
