------------------------------- MODULE RWLock -------------------------------
(***************************************************************************)
(* One read/write lock, sys/sync/rwlock.cpp, with the wait of wait.h.      *)
(*                                                                         *)
(* The spinlock locks the scheduler, so what the functions do under it is  *)
(* one step; a thread that has prepared to sleep keeps the scheduler       *)
(* locked (`locker`) until sch_continue_sleep, while signals may arrive.   *)
(***************************************************************************)
EXTENDS Integers, FiniteSets

CONSTANTS Threads, NoThread,
  MaxReads  \* bound: nesting of read locks of one thread

ASSUME RWLockAssumption == NoThread \notin Threads /\ MaxReads \in Nat \ {0}

VARIABLES
  state,         \* rwlock_private::state
  sleepq,        \* the threads on the sleep queue of its event
  locker, pc,
  mode,          \* what the thread asks for: "read" or "write"
  interruptible, \* the call is the interruptible one
  sigpend,       \* the thread has a pending signal
  reads, writes  \* locks the thread holds

vars == <<state, sleepq, locker, pc, mode, interruptible, sigpend, reads, writes>>

\* "out": not in a lock function; "want": before the condition is tested;
\* "prepared" and "asleep": in the sleep; "eintr": interrupted, before the
\* spinlock is taken again.
Places == {"out", "want", "prepared", "asleep", "eintr"}

Runs(th, place) == pc[th] = place /\ locker \in {NoThread, th}
Goto(th, place) == pc' = [pc EXCEPT ![th] = place]

\* What the waiting thread waits for.
Cond(th) == IF mode[th] = "read" THEN state >= 0 ELSE state = 0

-----------------------------------------------------------------------------
\* A lock call, up to the spinlock.  A thread that holds the lock may only read
\* again: there is no upgrade and no recursive write lock.
Call(th, m, intr) ==
  /\ Runs(th, "out") /\ writes[th] = 0
  /\ IF m = "read" THEN reads[th] < MaxReads ELSE reads[th] = 0
  /\ ~(intr /\ sigpend[th])
  /\ mode' = [mode EXCEPT ![th] = m]
  /\ interruptible' = [interruptible EXCEPT ![th] = intr]
  /\ Goto(th, "want") /\ UNCHANGED <<state, sleepq, locker, sigpend, reads, writes>>

rwlock_read_lock_s(th) ==
  /\ mode[th] = "read" /\ state' = state + 1
  /\ reads' = [reads EXCEPT ![th] = @ + 1] /\ UNCHANGED writes

rwlock_write_lock_s(th) ==
  /\ mode[th] = "write" /\ state' = state - 1
  /\ writes' = [writes EXCEPT ![th] = @ + 1] /\ UNCHANGED reads

\* Mutant: a woken thread takes the lock without testing its condition again.
MutTry(th) ==
  /\ Runs(th, "want")
  /\ \/ /\ rwlock_read_lock_s(th) \/ rwlock_write_lock_s(th)
        /\ Goto(th, "out") /\ UNCHANGED <<sleepq, locker>>
     \/ /\ ~Cond(th) /\ interruptible[th] /\ sigpend[th]
        /\ Goto(th, "out") /\ UNCHANGED <<state, sleepq, locker, reads, writes>>
     \/ /\ ~Cond(th) /\ ~(interruptible[th] /\ sigpend[th])
        /\ Goto(th, "prepared") /\ sleepq' = sleepq \cup {th} /\ locker' = th
        /\ UNCHANGED <<state, reads, writes>>
  /\ UNCHANGED <<mode, interruptible, sigpend>>

\* One turn of the loop of wait_event_interruptible_lock, under the spinlock:
\* take the lock, fail with -EINTR, or prepare to sleep.
Try(th) ==
  /\ Runs(th, "want")
  /\ \/ /\ Cond(th) /\ (rwlock_read_lock_s(th) \/ rwlock_write_lock_s(th))
        /\ Goto(th, "out") /\ UNCHANGED <<sleepq, locker>>
     \/ /\ ~Cond(th) /\ interruptible[th] /\ sigpend[th]
        /\ Goto(th, "out") /\ UNCHANGED <<state, sleepq, locker, reads, writes>>
     \/ /\ ~Cond(th) /\ ~(interruptible[th] /\ sigpend[th])
        /\ Goto(th, "prepared") /\ sleepq' = sleepq \cup {th} /\ locker' = th
        /\ UNCHANGED <<state, reads, writes>>
  /\ UNCHANGED <<mode, interruptible, sigpend>>

sch_continue_sleep(th) ==
  /\ Runs(th, "prepared")
  /\ locker' = NoThread /\ Goto(th, "asleep")
  /\ UNCHANGED <<state, sleepq, mode, interruptible, sigpend, reads, writes>>

\* The wait returns -EINTR.
Interrupted(th) ==
  /\ Runs(th, "eintr") /\ Goto(th, "out")
  /\ UNCHANGED <<state, sleepq, locker, mode, interruptible, sigpend, reads, writes>>

\* Wake every sleeper if the lock has become free.
sch_wakeup ==
  IF state' = 0
  THEN /\ sleepq' = {}
       /\ pc' = [th \in Threads |-> IF th \in sleepq THEN "want" ELSE pc[th]]
  ELSE UNCHANGED <<sleepq, pc>>

\* Mutant: only one sleeper is woken.
MutReadUnlock(th) ==
  /\ Runs(th, "out") /\ reads[th] > 0
  /\ state' = state - 1 /\ reads' = [reads EXCEPT ![th] = @ - 1]
  /\ IF state' = 0 /\ sleepq # {}
     THEN LET t == CHOOSE t \in sleepq : TRUE
          IN  sleepq' = sleepq \ {t} /\ pc' = [pc EXCEPT ![t] = "want"]
     ELSE UNCHANGED <<sleepq, pc>>
  /\ UNCHANGED <<locker, mode, interruptible, sigpend, writes>>

rwlock_read_unlock(th) ==
  /\ Runs(th, "out") /\ reads[th] > 0
  /\ state' = state - 1 /\ reads' = [reads EXCEPT ![th] = @ - 1]
  /\ sch_wakeup
  /\ UNCHANGED <<locker, mode, interruptible, sigpend, writes>>

\* Mutant: the writer's unlock leaves the lock read-locked.
MutWriteUnlock(th) ==
  /\ Runs(th, "out") /\ writes[th] > 0
  /\ state' = state + 2 /\ writes' = [writes EXCEPT ![th] = @ - 1]
  /\ sch_wakeup
  /\ UNCHANGED <<locker, mode, interruptible, sigpend, reads>>

rwlock_write_unlock(th) ==
  /\ Runs(th, "out") /\ writes[th] > 0
  /\ state' = state + 1 /\ writes' = [writes EXCEPT ![th] = @ - 1]
  /\ sch_wakeup
  /\ UNCHANGED <<locker, mode, interruptible, sigpend, reads>>

\* As in module Mutex.
Signal(th) ==
  /\ ~sigpend[th]
  /\ sigpend' = [sigpend EXCEPT ![th] = TRUE]
  /\ \/ /\ pc[th] = "asleep" /\ interruptible[th]
        /\ Goto(th, "eintr") /\ sleepq' = sleepq \ {th}
     \/ ~(pc[th] = "asleep" /\ interruptible[th]) /\ UNCHANGED <<pc, sleepq>>
  /\ UNCHANGED <<state, locker, mode, interruptible, reads, writes>>

Deliver(th) ==
  /\ Runs(th, "out") /\ sigpend[th] /\ reads[th] = 0 /\ writes[th] = 0
  /\ sigpend' = [sigpend EXCEPT ![th] = FALSE]
  /\ UNCHANGED <<state, sleepq, locker, pc, mode, interruptible, reads, writes>>

-----------------------------------------------------------------------------
Init ==
  /\ state = 0 /\ sleepq = {} /\ locker = NoThread
  /\ pc = [th \in Threads |-> "out"] /\ mode = [th \in Threads |-> "read"]
  /\ interruptible = [th \in Threads |-> FALSE] /\ sigpend = [th \in Threads |-> FALSE]
  /\ reads = [th \in Threads |-> 0] /\ writes = [th \in Threads |-> 0]

Step(th) == Try(th) \/ sch_continue_sleep(th) \/ Interrupted(th)
Unlock(th) == rwlock_read_unlock(th) \/ rwlock_write_unlock(th)

Next == \E th \in Threads :
  \/ \E m \in {"read", "write"}, intr \in BOOLEAN : Call(th, m, intr)
  \/ Step(th) \/ Unlock(th) \/ Signal(th) \/ Deliver(th)

Spec == Init /\ [][Next]_vars

\* Threads inside the lock functions get on and holders unlock in the end; both
\* may have to wait for the processor.
FairSpec == Spec /\ \A th \in Threads :
  SF_vars(Step(th)) /\ SF_vars(reads[th] + writes[th] = 1 /\ Unlock(th))
-----------------------------------------------------------------------------
(* Properties.                                                             *)

Readers == {th \in Threads : reads[th] > 0}
Writers == {th \in Threads : writes[th] > 0}

\* Every variable has its type.
TypeOK ==
  /\ state \in -1..(MaxReads * Cardinality(Threads)) /\ sleepq \subseteq Threads /\ locker \in Threads \cup {NoThread}
  /\ pc \in [Threads -> Places] /\ mode \in [Threads -> {"read", "write"}]
  /\ interruptible \in [Threads -> BOOLEAN] /\ sigpend \in [Threads -> BOOLEAN]
  /\ reads \in [Threads -> 0..MaxReads] /\ writes \in [Threads -> 0..1]

\* A writer is alone, and the assertions of the unlock functions hold: the state
\* is negative while it writes and positive while there are readers.
Exclusive ==
  /\ Writers # {} => Readers = {} /\ Cardinality(Writers) = 1
  /\ (state < 0) = (Writers # {}) /\ (state > 0) = (Readers # {})

\* A thread sleeps only while a conflicting holder is there to wake it: a reader
\* while somebody writes, a writer while the lock is held at all.
SleepsForReason ==
  \A th \in sleepq : IF mode[th] = "read" THEN Writers # {} ELSE Readers \cup Writers # {}

\* A reader that sleeps is woken whatever the other threads do, if holders unlock:
\* the end of every write wakes all sleepers.  A writer may come before the woken
\* reader again, and readers that keep coming may starve a writer.
ReaderWoken ==
  \A th \in Threads : (pc[th] = "asleep" /\ mode[th] = "read") ~> pc[th] # "asleep"
=============================================================================
