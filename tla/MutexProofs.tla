---------------------------- MODULE MutexProofs ----------------------------
(***************************************************************************)
(* Proofs about the mutex for any number of threads, any priorities and    *)
(* any nesting.                                                            *)
(***************************************************************************)
EXTENDS Mutex, RunQueueProofs

(* What the place of a thread says about the owner word, the count and the *)
(* thread's own tally of lock calls.                                       *)
Held(th) == IF owner = th THEN count ELSE 0

ThreadInv(th) ==
  /\ pc[th] = "out" => mutex_locks[th] = Held(th)
  /\ pc[th] = "setcount" => owner = th /\ mutex_locks[th] = 1 /\ ~recursive
  /\ pc[th] = "slow" => mutex_locks[th] = Held(th) + 1
  /\ pc[th] \in {"prepared", "asleep", "eintr"} => owner # th /\ mutex_locks[th] = 1
  /\ pc[th] = "granted" =>
       /\ mutex_locks[th] = 1
       /\ \/ owner = th /\ count = 1
          \/ owner # th /\ locker # NoThread /\ pc[locker] = "store" /\ waiter = th
  /\ pc[th] = "unslow" => owner = th /\ mutex_locks[th] + 1 = count
  /\ pc[th] = "store" => /\ owner = th /\ count = 0 /\ mutex_locks[th] = 0
                         /\ waiter # th
                         /\ waiter # NoThread => pc[waiter] = "granted"
                         /\ waiter = NoThread => sleepq = <<>>

(* The owner word and the count.                                           *)
WordInv ==
  /\ owner = NoThread => ~recursive /\ ~waiters
  /\ owner # NoThread /\ pc[owner] \notin {"setcount", "store"} =>
       count > 0 /\ (~recursive => count = 1)

(* The sleep queue and the scheduler lock.                                 *)
SleepInv ==
  /\ NoDuplicates(sleepq)
  /\ \A th \in Threads : Queued(sleepq, th) <=> pc[th] \in {"prepared", "asleep"}
  /\ locker # NoThread => pc[locker] \in {"prepared", "store"}
  /\ \A th \in Threads : pc[th] \in {"prepared", "store"} => locker = th

(* The inductive invariant.                                                *)
MInv == /\ TypeOK /\ WordInv /\ SleepInv /\ NoLostWaiter
        /\ \A th \in Threads : ThreadInv(th)
-----------------------------------------------------------------------------
(* Each action keeps the invariant.                                        *)

\* mutex_init establishes the invariant.
LEMMA MutexInit == Init => MInv
<1> SUFFICES ASSUME Init PROVE MInv
  OBVIOUS
<1>1. Len(sleepq) = 0 /\ sleepq \in Seq(Threads)
  BY EmptySeq DEF Init
<1>2. TypeOK
  BY <1>1, MutexAssumption DEF Init, TypeOK, Places
<1>3. WordInv /\ SleepInv /\ NoLostWaiter
  BY <1>1, MutexAssumption DEF Init, WordInv, SleepInv, NoLostWaiter, NoDuplicates, Queued
<1>4. \A th \in Threads : ThreadInv(th)
  BY MutexAssumption DEF Init, ThreadInv, Held
<1> QED BY <1>2, <1>3, <1>4 DEF MInv

\* The fast path of mutex_lock_s keeps the invariant.
LEMMA LockInv ==
  ASSUME MInv, NEW th \in Threads, NEW intr \in BOOLEAN, mutex_lock_s(th, intr)
  PROVE  MInv'
<1> USE MutexAssumption
<1>0. mutex_locks' \in [Threads -> Nat]
  BY DEF MInv, TypeOK, Runs, mutex_lock_s
<1>1. TypeOK'
  BY <1>0 DEF MInv, TypeOK, Places, Runs, Goto, word, mutex_lock_s
<1>2. WordInv'
  BY DEF MInv, TypeOK, Places, Runs, Goto, word, mutex_lock_s, WordInv, SleepInv, ThreadInv, Held
<1>3. SleepInv'
  BY DEF MInv, TypeOK, Places, Runs, Goto, word, mutex_lock_s, SleepInv, ThreadInv
<1>4. NoLostWaiter'
  BY DEF MInv, TypeOK, Places, Runs, Goto, word, mutex_lock_s, NoLostWaiter, SleepInv, ThreadInv
<1>5. ASSUME NEW t \in Threads PROVE ThreadInv(t)'
  BY DEF MInv, TypeOK, Places, Runs, Goto, word, mutex_lock_s, WordInv, SleepInv, ThreadInv, Held
<1> QED BY <1>1, <1>2, <1>3, <1>4, <1>5 DEF MInv

\* So does its end.
LEMMA SetCountInv ==
  ASSUME MInv, NEW th \in Threads, SetCount(th)
  PROVE  MInv'
<1> USE MutexAssumption
<1>1. TypeOK'
  BY DEF MInv, TypeOK, Places, Runs, Goto, word, SetCount
<1>2. WordInv'
  BY DEF MInv, TypeOK, Places, Runs, Goto, word, SetCount, WordInv, SleepInv, ThreadInv, Held
<1>3. SleepInv'
  BY DEF MInv, TypeOK, Places, Runs, Goto, word, SetCount, SleepInv, ThreadInv
<1>4. NoLostWaiter'
  BY DEF MInv, TypeOK, Places, Runs, Goto, word, SetCount, NoLostWaiter, SleepInv, ThreadInv
<1>5. ASSUME NEW t \in Threads PROVE ThreadInv(t)'
  BY DEF MInv, TypeOK, Places, Runs, Goto, word, SetCount, WordInv, SleepInv, ThreadInv, Held
<1> QED BY <1>1, <1>2, <1>3, <1>4, <1>5 DEF MInv

\* Leaving the processor keeps the invariant.
LEMMA ContinueInv ==
  ASSUME MInv, NEW th \in Threads, sch_continue_sleep(th)
  PROVE  MInv'
<1> USE MutexAssumption
<1>1. TypeOK'
  BY DEF MInv, TypeOK, Places, Runs, Goto, word, sch_continue_sleep
<1>2. WordInv'
  BY DEF MInv, TypeOK, Places, Runs, Goto, word, sch_continue_sleep, WordInv, SleepInv, ThreadInv, Held
<1>3. SleepInv'
  BY DEF MInv, TypeOK, Places, Runs, Goto, word, sch_continue_sleep, SleepInv, ThreadInv
<1>4. NoLostWaiter'
  BY DEF MInv, TypeOK, Places, Runs, Goto, word, sch_continue_sleep, NoLostWaiter, SleepInv, ThreadInv
<1>5. ASSUME NEW t \in Threads PROVE ThreadInv(t)'
  BY DEF MInv, TypeOK, Places, Runs, Goto, word, sch_continue_sleep, WordInv, SleepInv, ThreadInv, Held
<1> QED BY <1>1, <1>2, <1>3, <1>4, <1>5 DEF MInv

\* Returning from the sleep keeps the invariant.
LEMMA ReturnInv ==
  ASSUME MInv, NEW th \in Threads, Return(th)
  PROVE  MInv'
<1> USE MutexAssumption
<1>0. mutex_locks' \in [Threads -> Nat]
  <2>1. CASE UNCHANGED mutex_locks
    BY <2>1 DEF MInv, TypeOK
  <2>2. CASE pc[th] = "eintr" /\ Failed(th)
    <3>1. mutex_locks[th] = 1
      BY <2>2 DEF MInv, ThreadInv
    <3> QED BY <2>2, <3>1 DEF MInv, TypeOK, Failed
  <2> QED BY <2>1, <2>2 DEF Return, Runs
<1>1. TypeOK'
  BY <1>0 DEF MInv, TypeOK, Places, Runs, Goto, word, Return, Failed
<1>2. WordInv'
  BY DEF MInv, TypeOK, Places, Runs, Goto, word, Return, Failed, WordInv, SleepInv, ThreadInv, Held
<1>3. SleepInv'
  BY DEF MInv, TypeOK, Places, Runs, Goto, word, Return, Failed, SleepInv, ThreadInv
<1>4. NoLostWaiter'
  BY DEF MInv, TypeOK, Places, Runs, Goto, word, Return, Failed, NoLostWaiter, SleepInv, ThreadInv
<1>5. ASSUME NEW t \in Threads PROVE ThreadInv(t)'
  BY DEF MInv, TypeOK, Places, Runs, Goto, word, Return, Failed, WordInv, SleepInv, ThreadInv, Held
<1> QED BY <1>1, <1>2, <1>3, <1>4, <1>5 DEF MInv

\* mutex_unlock keeps the invariant.
LEMMA UnlockInv ==
  ASSUME MInv, NEW th \in Threads, mutex_unlock(th)
  PROVE  MInv'
<1> USE MutexAssumption
<1>0. mutex_locks' \in [Threads -> Nat]
  BY DEF MInv, TypeOK, Runs, mutex_unlock
<1>1. TypeOK'
  BY <1>0 DEF MInv, TypeOK, Places, Runs, Goto, word, mutex_unlock
<1>2. WordInv'
  BY DEF MInv, TypeOK, Places, Runs, Goto, word, mutex_unlock, WordInv, SleepInv, ThreadInv, Held
<1>3. SleepInv'
  BY DEF MInv, TypeOK, Places, Runs, Goto, word, mutex_unlock, SleepInv, ThreadInv
<1>4. NoLostWaiter'
  BY DEF MInv, TypeOK, Places, Runs, Goto, word, mutex_unlock, NoLostWaiter, SleepInv, ThreadInv
<1>5. ASSUME NEW t \in Threads PROVE ThreadInv(t)'
  BY DEF MInv, TypeOK, Places, Runs, Goto, word, mutex_unlock, WordInv, SleepInv, ThreadInv, Held
<1> QED BY <1>1, <1>2, <1>3, <1>4, <1>5 DEF MInv

\* Taking a signal keeps the invariant.
LEMMA DeliverInv ==
  ASSUME MInv, NEW th \in Threads, Deliver(th)
  PROVE  MInv'
<1> USE MutexAssumption
<1>1. TypeOK'
  BY DEF MInv, TypeOK, Places, Runs, Goto, word, Deliver
<1>2. WordInv'
  BY DEF MInv, TypeOK, Places, Runs, Goto, word, Deliver, WordInv, SleepInv, ThreadInv, Held
<1>3. SleepInv'
  BY DEF MInv, TypeOK, Places, Runs, Goto, word, Deliver, SleepInv, ThreadInv
<1>4. NoLostWaiter'
  BY DEF MInv, TypeOK, Places, Runs, Goto, word, Deliver, NoLostWaiter, SleepInv, ThreadInv
<1>5. ASSUME NEW t \in Threads PROVE ThreadInv(t)'
  BY DEF MInv, TypeOK, Places, Runs, Goto, word, Deliver, WordInv, SleepInv, ThreadInv, Held
<1> QED BY <1>1, <1>2, <1>3, <1>4, <1>5 DEF MInv

\* The hand-over keeps the invariant.
LEMMA StoreInv ==
  ASSUME MInv, NEW th \in Threads, Store(th)
  PROVE  MInv'
<1> USE MutexAssumption
<1>0. /\ owner = th /\ locker = th /\ count = 0 /\ mutex_locks[th] = 0 /\ waiter # th
      /\ waiter # NoThread => pc[waiter] = "granted" /\ mutex_locks[waiter] = 1
      /\ pc[th] = "store" /\ pc' = [pc EXCEPT ![th] = "out"] /\ owner' = waiter
      /\ locker' = NoThread /\ count' = (IF waiter # NoThread THEN 1 ELSE 0)
      /\ waiter' = NoThread /\ UNCHANGED <<sleepq, mutex_locks>> /\ ~recursive'
      /\ waiters' <=> sleepq # <<>>
  BY DEF MInv, TypeOK, Runs, Goto, Store, SleepInv, ThreadInv
<1>1. TypeOK'
  BY DEF MInv, TypeOK, Places, Goto, Store
<1>2. waiter = NoThread => sleepq = <<>>
  BY <1>0 DEF MInv, ThreadInv
<1>3. SleepInv'
  BY <1>0 DEF MInv, TypeOK, SleepInv
<1>4. NoLostWaiter' /\ WordInv'
  <2>1. sleepq = <<>> => \A t \in Threads : ~Queued(sleepq, t)
    BY EmptySeq DEF Queued
  <2>2. NoLostWaiter'
    BY <1>0, <1>2, <1>3, <2>1 DEF NoLostWaiter, SleepInv
  <2>3. WordInv'
    BY <1>0, <1>2 DEF WordInv, MInv, TypeOK
  <2> QED BY <2>2, <2>3
<1>5. ASSUME NEW t \in Threads PROVE ThreadInv(t)'
  BY <1>0 DEF MInv, TypeOK, Places, SleepInv, ThreadInv, Held
<1> QED BY <1>1, <1>3, <1>4, <1>5 DEF MInv

\* Taking a thread from the sleep queue: what is left are the other sleepers.
LEMMA WokenOne ==
  ASSUME MInv, NEW th \in Threads, pc[th] = "unslow", sch_wakeone(th)
  PROVE  /\ sleepq' \in Seq(Threads) /\ NoDuplicates(sleepq')
         /\ waiter' \in Threads \cup {NoThread} /\ waiter' # th
         /\ waiter' = NoThread => sleepq' = <<>> /\ pc' = [pc EXCEPT ![th] = "store"]
         /\ waiter' # NoThread =>
              /\ pc[waiter'] \in {"prepared", "asleep"}
              /\ pc' = [pc EXCEPT ![th] = "store", ![waiter'] = "granted"]
         /\ \A t \in Threads : Queued(sleepq', t) <=> pc'[t] \in {"prepared", "asleep"}
<1> USE MutexAssumption
<1>1. /\ sleepq \in Seq(Threads) /\ NoDuplicates(sleepq) /\ pc \in [Threads -> Places]
      /\ \A t \in Threads : Queued(sleepq, t) <=> pc[t] \in {"prepared", "asleep"}
  BY DEF MInv, TypeOK, SleepInv
<1>2. CASE /\ sleepq = <<>> /\ waiter' = NoThread /\ Goto(th, "store") /\ UNCHANGED sleepq
  BY <1>1, <1>2 DEF Goto
<1>3. ASSUME NEW i \in TopWaiter, waiter' = sleepq[i], sleepq' = queue_remove(sleepq, i),
             pc' = [pc EXCEPT ![th] = "store", ![sleepq[i]] = "granted"]
      PROVE  /\ sleepq' \in Seq(Threads) /\ NoDuplicates(sleepq')
             /\ waiter' \in Threads /\ waiter' # NoThread /\ waiter' # th
             /\ pc[waiter'] \in {"prepared", "asleep"}
             /\ pc' = [pc EXCEPT ![th] = "store", ![waiter'] = "granted"]
             /\ \A t \in Threads : Queued(sleepq', t) <=> pc'[t] \in {"prepared", "asleep"}
  <2>1. i \in 1..Len(sleepq) /\ sleepq[i] \in Threads
    BY <1>1, LenProperties DEF TopWaiter
  <2>2. Queued(sleepq, sleepq[i])
    BY <2>1 DEF Queued
  <2>3. sleepq[i] # NoThread /\ sleepq[i] # th /\ pc[sleepq[i]] \in {"prepared", "asleep"}
    BY <1>1, <2>1, <2>2
  <2>4. /\ sleepq' \in Seq(Threads) /\ NoDuplicates(sleepq')
        /\ \A t : Queued(sleepq', t) <=> Queued(sleepq, t) /\ t # sleepq[i]
    BY <1>1, <1>3, <2>1, RemoveAtQueue
  <2>5. \A t \in Threads : Queued(sleepq', t) <=> pc'[t] \in {"prepared", "asleep"}
    BY <1>1, <1>3, <2>3, <2>4
  <2> QED BY <1>3, <2>1, <2>3, <2>4, <2>5
<1> QED BY <1>2, <1>3 DEF sch_wakeone

\* The slow path of mutex_unlock keeps the invariant.
LEMMA UnlockSlowInv ==
  ASSUME MInv, NEW th \in Threads, mutex_unlock_slowpath(th)
  PROVE  MInv'
<1> USE MutexAssumption
<1>0. /\ owner = th /\ pc[th] = "unslow" /\ mutex_locks[th] + 1 = count
      /\ locker = NoThread /\ count' = count - 1
      /\ UNCHANGED <<interruptible, sigpend, mutex_locks>>
  BY DEF MInv, TypeOK, SleepInv, ThreadInv, mutex_unlock_slowpath, Runs
<1>1. CASE /\ count # 1 /\ Goto(th, "out")
           /\ UNCHANGED <<owner, recursive, waiters, sleepq, locker, waiter>>
  <2>1. TypeOK'
    BY <1>0, <1>1 DEF MInv, TypeOK, Places, Goto
  <2>2. WordInv' /\ NoLostWaiter' /\ SleepInv'
    BY <1>0, <1>1 DEF MInv, TypeOK, Places, Goto, WordInv, NoLostWaiter, SleepInv
  <2>3. ASSUME NEW t \in Threads PROVE ThreadInv(t)'
    BY <1>0, <1>1 DEF MInv, TypeOK, Places, Goto, ThreadInv, Held, SleepInv
  <2> QED BY <2>1, <2>2, <2>3 DEF MInv
<1>2. CASE /\ count = 1 /\ ~waiters
           /\ owner' = NoThread /\ recursive' = FALSE /\ Goto(th, "out")
           /\ UNCHANGED <<waiters, sleepq, locker, waiter>>
  <2>1. TypeOK'
    <3>1. count' \in Nat /\ pc' \in [Threads -> Places]
      BY <1>0, <1>2 DEF MInv, TypeOK, Places, Goto
    <3> QED BY <1>0, <1>2, <3>1 DEF MInv, TypeOK
  <2>2. WordInv' /\ NoLostWaiter' /\ SleepInv'
    BY <1>0, <1>2 DEF MInv, TypeOK, Places, Goto, WordInv, NoLostWaiter, SleepInv
  <2>3. ASSUME NEW t \in Threads PROVE ThreadInv(t)'
    BY <1>0, <1>2 DEF MInv, TypeOK, Places, Goto, ThreadInv, Held, SleepInv
  <2> QED BY <2>1, <2>2, <2>3 DEF MInv
<1>3. CASE /\ count = 1 /\ waiters
           /\ sch_wakeone(th) /\ locker' = th
           /\ UNCHANGED <<owner, recursive, waiters>>
  <2>0. /\ sleepq' \in Seq(Threads) /\ NoDuplicates(sleepq')
        /\ waiter' \in Threads \cup {NoThread} /\ waiter' # th
        /\ waiter' = NoThread => sleepq' = <<>> /\ pc' = [pc EXCEPT ![th] = "store"]
        /\ waiter' # NoThread =>
             /\ pc[waiter'] \in {"prepared", "asleep"}
             /\ pc' = [pc EXCEPT ![th] = "store", ![waiter'] = "granted"]
        /\ \A t \in Threads : Queued(sleepq', t) <=> pc'[t] \in {"prepared", "asleep"}
    BY <1>0, <1>3, WokenOne
  <2>1. TypeOK'
    <3>1. pc' \in [Threads -> Places]
      BY <2>0 DEF MInv, TypeOK, Places
    <3> QED BY <1>0, <1>3, <2>0, <3>1 DEF MInv, TypeOK
  <2>2. SleepInv'
    BY <1>0, <1>3, <2>0 DEF MInv, TypeOK, Places, SleepInv
  <2>3. WordInv' /\ NoLostWaiter'
    BY <1>0, <1>3, <2>0 DEF MInv, TypeOK, Places, WordInv, NoLostWaiter
  <2>4. ASSUME NEW t \in Threads PROVE ThreadInv(t)'
    <3>1. CASE t = th
      BY <1>0, <1>3, <2>0, <3>1 DEF MInv, TypeOK, Places, ThreadInv, Held
    <3>2. CASE t # th /\ t = waiter'
      BY <1>0, <1>3, <2>0, <3>2 DEF MInv, TypeOK, Places, ThreadInv, Held
    <3>3. CASE t # th /\ t # waiter'
      BY <1>0, <1>3, <2>0, <3>3 DEF MInv, TypeOK, Places, ThreadInv, Held, SleepInv
    <3> QED BY <3>1, <3>2, <3>3
  <2> QED BY <2>1, <2>2, <2>3, <2>4 DEF MInv
<1> QED BY <1>1, <1>2, <1>3 DEF mutex_unlock_slowpath

\* Both ways out of the middle of mutex_lock_slowpath, -EINTR at once and the
\* sleep, keep the invariant.
LEMMA WaitInv ==
  ASSUME MInv, NEW th \in Threads, Runs(th, "slow"), owner \notin {th, NoThread}, Wait(th),
         UNCHANGED <<waiter, interruptible, sigpend>>
  PROVE  MInv'
<1> USE MutexAssumption
<1>0. /\ pc[th] = "slow" /\ mutex_locks[th] = 1 /\ locker = NoThread
      /\ ~Queued(sleepq, th) /\ sleepq \in Seq(Threads) /\ NoDuplicates(sleepq)
      /\ waiters' = TRUE /\ UNCHANGED <<owner, recursive, count>>
  BY DEF MInv, TypeOK, Runs, SleepInv, ThreadInv, Held, Wait
<1>1. CASE Failed(th) /\ Goto(th, "out") /\ UNCHANGED <<sleepq, locker>>
  <2>1. TypeOK'
    <3>1. mutex_locks' \in [Threads -> Nat] /\ pc' \in [Threads -> Places]
      BY <1>0, <1>1 DEF MInv, TypeOK, Places, Goto, Failed
    <3> QED BY <1>0, <1>1, <3>1 DEF MInv, TypeOK
  <2>2. WordInv' /\ NoLostWaiter' /\ SleepInv'
    BY <1>0, <1>1 DEF MInv, TypeOK, Places, Goto, WordInv, NoLostWaiter, SleepInv
  <2>3. ASSUME NEW t \in Threads PROVE ThreadInv(t)'
    BY <1>0, <1>1 DEF MInv, TypeOK, Places, Goto, Failed, ThreadInv, Held, SleepInv
  <2> QED BY <2>1, <2>2, <2>3 DEF MInv
<1>2. CASE /\ sleepq' = Append(sleepq, th) /\ locker' = th
           /\ Goto(th, "prepared") /\ UNCHANGED mutex_locks
  <2>0. /\ sleepq' \in Seq(Threads) /\ NoDuplicates(sleepq')
        /\ \A t : Queued(sleepq', t) <=> Queued(sleepq, t) \/ t = th
    BY <1>0, <1>2, AppendFacts
  <2>1. TypeOK'
    BY <1>0, <1>2, <2>0 DEF MInv, TypeOK, Places, Goto
  <2>2. WordInv' /\ NoLostWaiter'
    BY <1>0, <1>2 DEF MInv, TypeOK, Places, Goto, WordInv, NoLostWaiter
  <2>3. SleepInv'
    BY <1>0, <1>2, <2>0 DEF MInv, TypeOK, Places, Goto, SleepInv
  <2>4. ASSUME NEW t \in Threads PROVE ThreadInv(t)'
    BY <1>0, <1>2 DEF MInv, TypeOK, Places, Goto, ThreadInv, Held, SleepInv
  <2> QED BY <2>1, <2>2, <2>3, <2>4 DEF MInv
<1> QED BY <1>1, <1>2 DEF Wait

\* The slow path of mutex_lock_s keeps the invariant.
LEMMA LockSlowInv ==
  ASSUME MInv, NEW th \in Threads, mutex_lock_slowpath(th)
  PROVE  MInv'
<1> USE MutexAssumption
<1>0. /\ pc[th] = "slow" /\ locker = NoThread /\ mutex_locks[th] = Held(th) + 1
      /\ UNCHANGED <<waiter, interruptible, sigpend>>
  BY DEF MInv, TypeOK, Runs, SleepInv, ThreadInv, mutex_lock_slowpath
<1>1. CASE \/ /\ owner = th /\ EnterAgain(th)
              /\ Goto(th, "out") /\ UNCHANGED <<sleepq, locker, mutex_locks>>
           \/ /\ owner = NoThread
              /\ owner' = th /\ count' = 1 /\ UNCHANGED <<recursive, waiters>>
              /\ Goto(th, "out") /\ UNCHANGED <<sleepq, locker, mutex_locks>>
  <2>1. TypeOK'
    <3>0. count' \in Nat
      BY <1>1 DEF MInv, TypeOK, EnterAgain
    <3>1. pc' \in [Threads -> Places]
      BY <1>1 DEF MInv, TypeOK, Places, Goto
    <3>2. recursive' \in BOOLEAN /\ owner' \in Threads \cup {NoThread}
      BY <1>1 DEF MInv, TypeOK, EnterAgain
    <3>3. UNCHANGED <<waiters, sleepq, locker, waiter, interruptible, sigpend, mutex_locks>>
      BY <1>0, <1>1 DEF EnterAgain
    <3> QED BY <3>0, <3>1, <3>2, <3>3 DEF MInv, TypeOK
  <2>2. SleepInv' /\ NoLostWaiter'
    BY <1>0, <1>1 DEF MInv, TypeOK, Places, Goto, EnterAgain, NoLostWaiter, SleepInv
  <2>3. WordInv'
    BY <1>0, <1>1 DEF MInv, TypeOK, Places, Goto, EnterAgain, WordInv
  <2>4. ASSUME NEW t \in Threads PROVE ThreadInv(t)'
    BY <1>0, <1>1 DEF MInv, TypeOK, Places, Goto, EnterAgain, ThreadInv, Held, SleepInv, WordInv
  <2> QED BY <2>1, <2>2, <2>3, <2>4 DEF MInv
<1>2. CASE owner \notin {th, NoThread} /\ Wait(th)
  BY <1>0, <1>2, WaitInv DEF Runs
<1> QED BY <1>1, <1>2 DEF mutex_lock_slowpath

\* A signal keeps the invariant.
LEMMA SignalInv ==
  ASSUME MInv, NEW th \in Threads, Signal(th)
  PROVE  MInv'
<1> USE MutexAssumption
<1>0. /\ sigpend' \in [Threads -> BOOLEAN]
      /\ UNCHANGED <<owner, recursive, waiters, count, locker, waiter, interruptible, mutex_locks>>
  BY DEF MInv, TypeOK, Signal, word
<1>1. CASE UNCHANGED <<pc, sleepq>>
  BY <1>0, <1>1 DEF MInv, TypeOK, WordInv, SleepInv, NoLostWaiter, ThreadInv, Held
<1>2. CASE pc[th] = "asleep" /\ Goto(th, "eintr") /\ sleepq' \in RemoveResults(sleepq, th)
  <2>0. /\ sleepq' \in Seq(Threads) /\ NoDuplicates(sleepq')
        /\ \A t : Queued(sleepq', t) <=> Queued(sleepq, t) /\ t # th
    <3>1. sleepq \in Seq(Threads) /\ NoDuplicates(sleepq)
      BY DEF MInv, TypeOK, SleepInv
    <3> QED BY <1>2, <3>1, RemoveFacts
  <2>1. TypeOK'
    BY <1>0, <1>2, <2>0 DEF MInv, TypeOK, Places, Goto
  <2>2. WordInv' /\ NoLostWaiter'
    BY <1>0, <1>2 DEF MInv, TypeOK, Places, Goto, WordInv, NoLostWaiter
  <2>3. SleepInv'
    BY <1>0, <1>2, <2>0 DEF MInv, TypeOK, Places, Goto, SleepInv
  <2>4. sleepq = <<>> => FALSE
    BY <1>2, EmptySeq DEF RemoveResults
  <2>5. ASSUME NEW t \in Threads PROVE ThreadInv(t)'
    BY <1>0, <1>2, <2>4 DEF MInv, TypeOK, Places, Goto, ThreadInv, Held, SleepInv
  <2> QED BY <2>1, <2>2, <2>3, <2>5 DEF MInv
<1> QED BY <1>1, <1>2 DEF Signal

\* Every step keeps the invariant.
LEMMA MutexNext == MInv /\ [Next]_vars => MInv'
<1> SUFFICES ASSUME MInv, [Next]_vars PROVE MInv'
  OBVIOUS
<1>1. CASE UNCHANGED vars
  BY <1>1 DEF vars, MInv, TypeOK, WordInv, SleepInv, NoLostWaiter, ThreadInv, Held
<1>2. ASSUME NEW th \in Threads,
             \/ \E intr \in BOOLEAN : mutex_lock_s(th, intr)
             \/ mutex_unlock(th) \/ Step(th) \/ Signal(th) \/ Deliver(th)
      PROVE  MInv'
  BY <1>2, LockInv, SetCountInv, LockSlowInv, ContinueInv, ReturnInv, UnlockInv,
     UnlockSlowInv, StoreInv, SignalInv, DeliverInv DEF Step
<1> QED BY <1>1, <1>2 DEF Next

-----------------------------------------------------------------------------
(* The theorems.                                                           *)

\* The invariant holds in every reachable state.
THEOREM MutexInvariance == Spec => []MInv
<1> QED BY MutexInit, MutexNext, PTL DEF Spec

\* mutex_lock and mutex_unlock exclude: no two threads are inside.
THEOREM Exclusion == Spec => []MutualExclusion
<1>1. MInv => MutualExclusion
  <2> SUFFICES ASSUME MInv, NEW t \in Threads, NEW u \in Threads, pc[t] = "out",
                      pc[u] = "out", mutex_locks[t] > 0, mutex_locks[u] > 0
               PROVE  t = u
    BY DEF MutualExclusion
  <2>1. mutex_locks[t] = Held(t) /\ mutex_locks[u] = Held(u)
    BY DEF MInv, ThreadInv
  <2> QED BY <2>1 DEF Held
<1> QED BY <1>1, MutexInvariance, PTL

\* While a thread sleeps on the mutex there is an owner whose mutex_unlock will
\* take the slow path and look for it.
THEOREM WaitersKnown == Spec => []NoLostWaiter
<1>1. MInv => NoLostWaiter
  BY DEF MInv
<1> QED BY <1>1, MutexInvariance, PTL

\* The nesting a thread counts is the nesting the mutex records.
THEOREM CountsExact == Spec => []CountExact
<1>1. MInv => CountExact
  BY DEF MInv, CountExact, ThreadInv, Held
<1> QED BY <1>1, MutexInvariance, PTL

-----------------------------------------------------------------------------
(* The mutex implements the abstract lock.                                 *)

\* Each step of the mutex is a step of the lock or leaves the lock alone.
LEMMA LockStep == MInv /\ [Next]_vars => [L!Next]_<<owner, LockDepth>>
<1> USE MutexAssumption
<1> DEFINE Same == owner' = owner /\ LockDepth' = LockDepth
<1> SUFFICES ASSUME MInv, [Next]_vars PROVE L!Next \/ Same
  OBVIOUS
<1>0. /\ owner \in Threads \cup {NoThread} /\ count \in Nat /\ pc \in [Threads -> Places]
      /\ owner # NoThread /\ pc[owner] \notin {"setcount", "store"} => count > 0
  BY DEF MInv, TypeOK, WordInv
<1>1. CASE UNCHANGED vars
  BY <1>1 DEF vars, LockDepth
<1>2. ASSUME NEW th \in Threads, NEW intr \in BOOLEAN, mutex_lock_s(th, intr)
      PROVE  L!Next \/ Same
  <2>1. CASE owner = NoThread /\ owner' = th /\ Goto(th, "setcount")
    <3>1. L!Acquire(th)
      BY <1>0, <2>1 DEF L!Acquire, LockDepth, Goto
    <3> QED BY <3>1 DEF L!Next
  <2>2. CASE owner # NoThread /\ UNCHANGED owner /\ Goto(th, "slow")
    <3>1. pc[th] = "out" /\ UNCHANGED count
      BY <1>2 DEF mutex_lock_s, Runs
    <3> QED BY <1>0, <2>2, <3>1 DEF LockDepth, Goto
  <2> QED BY <1>2, <2>1, <2>2 DEF mutex_lock_s
<1>3. ASSUME NEW th \in Threads, SetCount(th)
      PROVE  Same
  <2>1. owner = th /\ pc[th] = "setcount" /\ owner' = th /\ count' = 1 /\ pc'[th] = "out"
    BY <1>0, <1>3 DEF MInv, ThreadInv, SetCount, Runs, Goto
  <2> QED BY <2>1 DEF LockDepth
<1>4. ASSUME NEW th \in Threads, mutex_lock_slowpath(th)
      PROVE  L!Next \/ Same
  <2>0. pc[th] = "slow"
    BY <1>4 DEF mutex_lock_slowpath, Runs
  <2>1. CASE owner = th /\ EnterAgain(th) /\ Goto(th, "out")
    <3>1. L!Reenter(th)
      BY <1>0, <2>0, <2>1 DEF L!Reenter, LockDepth, Goto, EnterAgain
    <3> QED BY <3>1 DEF L!Next
  <2>2. CASE owner = NoThread /\ owner' = th /\ count' = 1 /\ Goto(th, "out")
    <3>1. L!Acquire(th)
      BY <1>0, <2>2 DEF L!Acquire, LockDepth, Goto
    <3> QED BY <3>1 DEF L!Next
  <2>3. CASE owner \notin {th, NoThread} /\ Wait(th)
    BY <1>0, <2>3 DEF Wait, Goto, LockDepth
  <2> QED BY <1>4, <2>1, <2>2, <2>3 DEF mutex_lock_slowpath
<1>5. ASSUME NEW th \in Threads, sch_continue_sleep(th) \/ Return(th)
      PROVE  Same
  BY <1>0, <1>5 DEF sch_continue_sleep, Return, Runs, Goto, word, LockDepth
<1>6. ASSUME NEW th \in Threads, mutex_unlock(th)
      PROVE  L!Next \/ Same
  <2>0. pc[th] = "out" /\ UNCHANGED count
    BY <1>6 DEF mutex_unlock, Runs
  <2>1. CASE owner = th /\ ~recursive /\ owner' = NoThread
    <3>1. count = 1
      BY <2>0, <2>1 DEF MInv, WordInv
    <3>2. L!Release(th)
      BY <2>0, <2>1, <3>1 DEF L!Release, LockDepth
    <3> QED BY <3>2 DEF L!Next
  <2>2. CASE UNCHANGED owner /\ Goto(th, "unslow")
    BY <1>0, <2>0, <2>2 DEF Goto, LockDepth
  <2> QED BY <1>6, <2>1, <2>2 DEF mutex_unlock
<1>7. ASSUME NEW th \in Threads, mutex_unlock_slowpath(th)
      PROVE  L!Next \/ Same
  <2>0. pc[th] = "unslow" /\ owner = th /\ count' = count - 1 /\ count > 0
    BY <1>0, <1>7 DEF mutex_unlock_slowpath, Runs
  <2>1. CASE count # 1 /\ Goto(th, "out") /\ UNCHANGED owner
    <3>1. L!Leave(th)
      BY <1>0, <2>0, <2>1 DEF L!Leave, LockDepth, Goto
    <3> QED BY <3>1 DEF L!Next
  <2>2. CASE count = 1 /\ owner' = NoThread
    <3>1. L!Release(th)
      BY <2>0, <2>2 DEF L!Release, LockDepth
    <3> QED BY <3>1 DEF L!Next
  <2>3. CASE count = 1 /\ sch_wakeone(th) /\ UNCHANGED owner
    <3>1. pc'[th] = "store"
      BY <1>0, <2>0, <2>3, WokenOne
    <3> QED BY <2>0, <2>3, <3>1 DEF LockDepth
  <2> QED BY <1>7, <2>1, <2>2, <2>3 DEF mutex_unlock_slowpath
<1>8. ASSUME NEW th \in Threads, Store(th)
      PROVE  L!Next
  <2>1. /\ pc[th] = "store" /\ owner = th /\ waiter # th /\ owner' = waiter
        /\ waiter # NoThread => pc[waiter] = "granted" /\ count' = 1
        /\ waiter \in Threads \cup {NoThread} /\ pc' = [pc EXCEPT ![th] = "out"]
    BY <1>8 DEF MInv, TypeOK, ThreadInv, Store, Runs, Goto
  <2>2. CASE waiter = NoThread
    <3>1. L!Release(th)
      BY <2>1, <2>2 DEF L!Release, LockDepth
    <3> QED BY <3>1 DEF L!Next
  <2>3. CASE waiter # NoThread
    <3>1. L!Pass(th)
      BY <1>0, <2>1, <2>3 DEF L!Pass, LockDepth
    <3> QED BY <3>1 DEF L!Next
  <2> QED BY <2>2, <2>3
<1>9. ASSUME NEW th \in Threads, Signal(th) \/ Deliver(th)
      PROVE  Same
  <2>1. UNCHANGED <<owner, count>>
    BY <1>9 DEF Signal, Deliver, word
  <2>2. pc' = pc \/ (pc[th] = "asleep" /\ pc' = [pc EXCEPT ![th] = "eintr"])
    BY <1>9 DEF Signal, Deliver, Goto
  <2> QED BY <1>0, <2>1, <2>2 DEF LockDepth
<1> QED BY <1>1, <1>2, <1>3, <1>4, <1>5, <1>6, <1>7, <1>8, <1>9 DEF Next, Step

\* The mutex, with its fast paths, flags and two-step hand-over, implements the
\* recursive lock: it is acquired only when free, passed on only by its holder
\* in its outermost critical section, and released after as many mutex_unlock
\* calls as there were mutex_lock calls.
THEOREM MutexImplementsLock == Spec => ImplementsLock
<1>1. Init => L!Init
  BY DEF Init, L!Init, LockDepth
<1> QED BY <1>1, MutexInvariance, LockStep, PTL DEF Spec, ImplementsLock, L!Spec

=============================================================================
