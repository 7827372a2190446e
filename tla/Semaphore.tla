----------------------------- MODULE Semaphore -----------------------------
(***************************************************************************)
(* A counting semaphore, sys/sync/semaphore.cpp, on the sleep protocol of  *)
(* sch.cpp and wait_event_interruptible of wait.h.                         *)
(*                                                                         *)
(* A thread may be preempted, and an interrupt taken, between any two      *)
(* steps, except that no other thread runs while `locker` is between       *)
(* sch_prepare_sleep and sch_continue_sleep or sch_cancel_sleep.  An       *)
(* interrupt handler runs to its end.                                      *)
(***************************************************************************)
EXTENDS Integers

CONSTANTS
  Waiters,     \* threads that wait
  Posters,     \* threads that post
  OncePosters, \* threads that call semaphore_post_once
  IsrPosts,    \* \subseteq {"post", "once"}: what interrupt handlers call
  INT_MAX,     \* largest count; an increment wraps to -INT_MAX - 1
  NoThread

Threads == Waiters \cup Posters \cup OncePosters

ASSUME SemaphoreAssumption == INT_MAX \in Nat \ {0} /\ NoThread \notin Threads

VARIABLES
  count,    \* semaphore_private::count
  sleepq,   \* the threads on the sleep queue of its event
  locker,   \* the thread that keeps the scheduler locked, or NoThread
  pc,
  sigpend,  \* the thread has an unblocked pending signal
  panicked  \* an assertion failed

vars == <<count, sleepq, locker, pc, sigpend, panicked>>

\* The places pc names: "out": not in a semaphore function; "test" and "prepare":
\* the loop of wait_event_interruptible; "recheck" and "continue": prepared to
\* sleep, before and after the second test; "asleep"; "take": before --count;
\* "check": before its assertion; "incr" and "wake": in a post; "lost": awake on
\* no queue.

Runs(th, place) == pc[th] = place /\ locker \in {NoThread, th} /\ ~panicked
Goto(th, place) == pc' = [pc EXCEPT ![th] = place]

-----------------------------------------------------------------------------
(* semaphore_wait_interruptible                                            *)

\* The condition of the wait: the semaphore can be taken.
Available == count > 0

Call(th) ==
  /\ Runs(th, "out") /\ th \in Waiters
  /\ Goto(th, "test") /\ UNCHANGED <<count, sleepq, locker, sigpend, panicked>>

Test(th) ==
  /\ Runs(th, "test")
  /\ Goto(th, IF Available THEN "take" ELSE "prepare")
  /\ UNCHANGED <<count, sleepq, locker, sigpend, panicked>>

\* Fails with -EINTR if a signal is pending.
sch_prepare_sleep(th) ==
  /\ Runs(th, "prepare")
  /\ \/ sigpend[th] /\ Goto(th, "out") /\ UNCHANGED <<sleepq, locker>>
     \/ /\ ~sigpend[th] /\ Goto(th, "recheck")
        /\ sleepq' = sleepq \cup {th} /\ locker' = th
  /\ UNCHANGED <<count, sigpend, panicked>>

\* Mutant: the condition is not tested again once the thread is on the queue.
MutRecheck(th) ==
  /\ Runs(th, "recheck")
  /\ Goto(th, "continue") /\ UNCHANGED <<sleepq, locker>>
  /\ UNCHANGED <<count, sigpend, panicked>>

\* The second test, and sch_cancel_sleep if it succeeds.
Recheck(th) ==
  /\ Runs(th, "recheck")
  /\ \/ /\ Available /\ Goto(th, "take")
        /\ sleepq' = sleepq \ {th} /\ locker' = NoThread
     \/ ~Available /\ Goto(th, "continue") /\ UNCHANGED <<sleepq, locker>>
  /\ UNCHANGED <<count, sigpend, panicked>>

\* Mutant: the thread sleeps even if it was woken since it prepared.
MutContinue(th) ==
  /\ Runs(th, "continue")
  /\ Goto(th, "asleep")
  /\ locker' = NoThread
  /\ UNCHANGED <<count, sleepq, sigpend, panicked>>

\* A thread woken since it prepared does not sleep.
sch_continue_sleep(th) ==
  /\ Runs(th, "continue")
  /\ Goto(th, IF th \in sleepq THEN "asleep" ELSE "test")
  /\ locker' = NoThread
  /\ UNCHANGED <<count, sleepq, sigpend, panicked>>

\* The count is atomic: it wraps.
Take(th) ==
  /\ Runs(th, "take")
  /\ count' = (IF count = -INT_MAX - 1 THEN INT_MAX ELSE count - 1) /\ Goto(th, "check")
  /\ UNCHANGED <<sleepq, locker, sigpend, panicked>>

\* assert(p->count >= 0)
Check(th) ==
  /\ Runs(th, "check")
  /\ panicked' = (count < 0) /\ Goto(th, "out")
  /\ UNCHANGED <<count, sleepq, locker, sigpend>>

semaphore_wait_interruptible(th) ==
  \/ Test(th) \/ sch_prepare_sleep(th) \/ Recheck(th) \/ sch_continue_sleep(th)
  \/ Take(th) \/ Check(th)

-----------------------------------------------------------------------------
(* Posting.                                                                *)

\* sch_wakeone: which of the sleepers has the best priority is left open.  It
\* compares the last thread of the sleep queue, not the one it wakes, with the
\* running one: the thread that prepares to sleep is always the last.
\* `place` is the value of pc without the wakeup.
sch_wakeone(place) ==
  \/ sleepq = {} /\ pc' = place /\ UNCHANGED sleepq
  \/ \E top \in sleepq :
       /\ sleepq' = sleepq \ {top}
       /\ pc' = [place EXCEPT ![top] =
                   IF @ # "asleep" THEN @
                   ELSE IF locker \in sleepq THEN "lost" ELSE "test"]

\* Whether a post of this kind goes on to increment the count; if not, it
\* returns, with -EOVERFLOW or because it has nothing to do.
PostGuard(kind) == IF kind = "once" THEN count = 0 ELSE count # INT_MAX

BeginPost(th, kind) ==
  /\ Runs(th, "out")
  /\ th \in (IF kind = "once" THEN OncePosters ELSE Posters)
  /\ PostGuard(kind) /\ Goto(th, "incr")
  /\ UNCHANGED <<count, sleepq, locker, sigpend, panicked>>

\* ++p->count; the test of PostGuard may be out of date by now.
Incremented == IF count = INT_MAX THEN -INT_MAX - 1 ELSE count + 1

Increment(th) ==
  /\ Runs(th, "incr")
  /\ count' = Incremented /\ Goto(th, "wake")
  /\ UNCHANGED <<sleepq, locker, sigpend, panicked>>

\* Mutant: the post wakes nobody.
MutWake(th) ==
  /\ Runs(th, "wake")
  /\ Goto(th, "out")
  /\ UNCHANGED <<count, sleepq, locker, sigpend, panicked>>

Wake(th) ==
  /\ Runs(th, "wake")
  /\ sch_wakeone([pc EXCEPT ![th] = "out"])
  /\ UNCHANGED <<count, locker, sigpend, panicked>>

\* A post of either kind from an interrupt handler.
IsrPost(kind) ==
  /\ kind \in IsrPosts /\ ~panicked /\ PostGuard(kind)
  /\ count' = Incremented /\ sch_wakeone(pc)
  /\ UNCHANGED <<locker, sigpend, panicked>>

-----------------------------------------------------------------------------
(* Signals, as in module Mutex.                                            *)

Signal(th) ==
  /\ th \in Waiters /\ ~sigpend[th] /\ ~panicked
  /\ sigpend' = [sigpend EXCEPT ![th] = TRUE]
  /\ \/ pc[th] = "asleep" /\ Goto(th, "out") /\ sleepq' = sleepq \ {th}
     \/ pc[th] # "asleep" /\ UNCHANGED <<pc, sleepq>>
  /\ UNCHANGED <<count, locker, panicked>>

Deliver(th) ==
  /\ Runs(th, "out") /\ sigpend[th]
  /\ sigpend' = [sigpend EXCEPT ![th] = FALSE]
  /\ UNCHANGED <<count, sleepq, locker, pc, panicked>>

Halted == panicked /\ UNCHANGED vars

-----------------------------------------------------------------------------
Init ==
  /\ count = 0 /\ sleepq = {} /\ locker = NoThread
  /\ pc = [th \in Threads |-> "out"]
  /\ sigpend = [th \in Threads |-> FALSE] /\ panicked = FALSE

Step(th) == semaphore_wait_interruptible(th) \/ Increment(th) \/ Wake(th)

Next ==
  \/ \E th \in Threads : Call(th) \/ Step(th) \/ Signal(th) \/ Deliver(th)
  \/ \E kind \in {"post", "once"} :
       IsrPost(kind) \/ \E th \in Threads : BeginPost(th, kind)
  \/ Halted

Spec == Init /\ [][Next]_vars

\* A thread inside a semaphore function gets on with it, whatever interrupts do.
FairSpec == Spec /\ \A th \in Threads : SF_vars(Step(th))
-----------------------------------------------------------------------------
(* Properties.                                                             *)

\* No post is lost: a thread sleeps while the semaphore is available only if the
\* thread that made it so is about to wake it, whenever the post came between the
\* waiter's tests and its sleep.
NoLostPost ==
  \A th \in Threads : pc[th] = "asleep" /\ count > 0 =>
    \E p \in Threads : pc[p] = "wake"

\* A thread that sleeps is on the queue, so that a post finds it, even if it was
\* woken between preparing and sleeping; no thread on the queue has left its sleep.
SleepersQueued ==
  /\ \A th \in Threads : pc[th] = "asleep" => th \in sleepq
  /\ \A th \in sleepq : pc[th] \in {"recheck", "continue", "asleep"}

\* A waiter that sleeps when a post comes gets away from its wait, by whichever
\* of the two tests and the sleep the post finds it, unless two posts that raced
\* at INT_MAX have wrapped the count.
PostServed ==
  \A th \in Waiters : (pc[th] = "asleep" /\ count > 0) ~> (pc[th] = "out" \/ count < 0)
=============================================================================
