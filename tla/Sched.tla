------------------------------- MODULE Sched -------------------------------
(***************************************************************************)
(* The thread scheduler, sys/kern/sch.cpp, with the thread life cycle of   *)
(* sys/kern/thread.cpp.                                                    *)
(*                                                                         *)
(* One step is one section that the code runs with interrupts disabled.    *)
(* Between two steps an interrupt handler may run, and it may call         *)
(* everything sch.cpp documents as callable from interrupt.  Thread code   *)
(* runs only as active_thread, and only when no context switch is pended:  *)
(* arch_schedule() pends an exception (PendSV on ARM, the trap exit path   *)
(* on RISC-V) that calls sch_switch() before the thread executes again.    *)
(*                                                                         *)
(* A failing assert() prints a message and stops the machine               *)
(* (sys/kern/debug.cpp); no build defines NDEBUG.                          *)
(***************************************************************************)
EXTENDS Naturals, Sequences, RunQueue

CONSTANTS
  Threads,      \* every struct thread, Idle included
  Idle,         \* idle_thread: it never sleeps, suspends or exits
  Events,       \* every struct event
  ThreadEvent,  \* task::thread_event, woken when a thread of the task is gone
  NoEvent,
  Prio,         \* priorities threads are given; smaller runs first
  IdlePrio,     \* PRI_IDLE, below all of Prio
  Policies,     \* scheduling policies threads are given
  MaxLocks,     \* bound: nesting depth of sch_lock
  SigThreads,   \* threads that other threads send signals to
  IsrSigThreads,\* threads that interrupt handlers send signals to
  Suspendable,  \* threads that are stopped and continued
  PrioThreads,  \* threads whose priority is changed
  IsrWakeone    \* events on which interrupt handlers call sch_wakeone

ASSUME SchedAssumption ==
  /\ Idle \in Threads
  /\ ThreadEvent \in Events
  /\ NoEvent \notin Events
  /\ Prio \subseteq Nat /\ IdlePrio \in Nat
  /\ \A p \in Prio : p < IdlePrio
  /\ Policies \subseteq {"SCHED_RR", "SCHED_FIFO"}
  /\ MaxLocks \in Nat \ {0}
  /\ SigThreads \subseteq Threads /\ IsrSigThreads \subseteq Threads
  /\ Suspendable \subseteq Threads \ {Idle} /\ PrioThreads \subseteq Threads \ {Idle}
  /\ IsrWakeone \subseteq Events

VARIABLES
  runq,           \* the run queue, head first
  active_thread,
  resched,        \* reason a switch is wanted: 0, RESCHED_SWITCH, RESCHED_PREEMPT
  locks,          \* depth of sch_lock
  pended,         \* arch_schedule() has pended the switch exception
  state,          \* thread::state, a set of TH_ flags
  prio, policy,   \* thread::prio, thread::policy
  sleepq,         \* event::sleepq of every event, head first
  timeout,        \* thread::timeout is armed
  sigpend,        \* the thread has an unblocked pending signal
  pc,             \* where the thread is between two steps
  waking,         \* event whose sleepers sch_wakeup is moving, or NoEvent
  panicked        \* an assertion failed

queues == <<runq, resched, sleepq, state, timeout, panicked>>
attrs  == <<prio, policy, sigpend, pc>>
vars   == <<runq, active_thread, resched, locks, pended, state, prio, policy,
            sleepq, timeout, sigpend, pc, waking, panicked>>

RESCHED_SWITCH  == 1
RESCHED_PREEMPT == 2
Flags == {"TH_SLEEP", "TH_SUSPEND", "TH_EXIT", "TH_ZOMBIE"}

\* "free": not allocated; "zombie": on the zombie list; "prepared": between
\* sch_prepare_sleep and sch_continue_sleep or sch_cancel_sleep; "unlock":
\* in sch_unlock, after locks dropped to 0 and before resched is tested.
Places == {"free", "run", "prepared", "unlock", "zombie"}

thread_runnable(flags) == flags \cap {"TH_SLEEP", "TH_SUSPEND", "TH_ZOMBIE"} = {}
Alive(th) == pc[th] \notin {"free", "zombie"}

\* The machine runs with interrupts enabled: handlers may run.
Running == ~panicked /\ waking = NoEvent
\* The active thread executes its next instruction.
ThreadRuns == Running /\ ~pended
\* The active thread executes kernel code outside the sleep protocol.
InKernel == ThreadRuns /\ pc[active_thread] = "run"

-----------------------------------------------------------------------------
(* The run queue, with the operations of module RunQueue.                  *)

\* A thread is waiting that may run instead of active_thread.
TopMayRun == runq # <<>> /\ prio[Head(runq)] <= prio[active_thread]

runq_enqueue(q, p, th) ==
  /\ runq' \in EnqueueResults(q, p, th)
  /\ resched' = IF p[th] < p[active_thread] /\ resched = 0
                THEN RESCHED_PREEMPT ELSE resched

\* Pend the switch if it is wanted and preemption is enabled.
schedule == pended' = (pended \/ (locks = 0 /\ resched' # 0))

-----------------------------------------------------------------------------
(* Waking.                                                                 *)

\* Mutant: the sleep timer of the woken thread is not stopped.
MutWakeKeepsTimer(e, i, enq) ==
  LET th == sleepq[e][i]
      flags == state[th] \ {"TH_SLEEP"}
  IN  /\ enq => thread_runnable(flags)
      /\ sleepq' = [sleepq EXCEPT ![e] = queue_remove(@, i)]
      /\ state' = [state EXCEPT ![th] = flags]
      /\ IF enq THEN runq_enqueue(runq, prio, th) ELSE UNCHANGED <<runq, resched>>
      /\ UNCHANGED <<timeout, panicked>>

\* Take the i-th sleeper of e off its queue; enq is the code's test for
\* putting it on the run queue, where a thread must be runnable.
Wake(e, i, enq) ==
  LET th == sleepq[e][i]
      flags == state[th] \ {"TH_SLEEP"}
  IN  \/ /\ enq /\ ~thread_runnable(flags)
         /\ panicked' = TRUE
         /\ UNCHANGED <<runq, resched, sleepq, state, timeout>>
      \/ /\ enq => thread_runnable(flags)
         /\ sleepq' = [sleepq EXCEPT ![e] = queue_remove(@, i)]
         /\ state' = [state EXCEPT ![th] = flags]
         /\ timeout' = [timeout EXCEPT ![th] = FALSE]
         /\ IF enq THEN runq_enqueue(runq, prio, th) ELSE UNCHANGED <<runq, resched>>
         /\ UNCHANGED panicked

\* sch_wakeup: one step to disable interrupts, one for each sleeper, one to
\* reschedule and enable interrupts; nothing else runs in between.
WakeupBegin(e) ==
  /\ Running /\ sleepq[e] # <<>>
  /\ waking' = e
  /\ UNCHANGED <<queues, attrs, active_thread, locks, pended>>

WakeupNext ==
  /\ ~panicked /\ waking # NoEvent /\ sleepq[waking] # <<>>
  /\ Wake(waking, 1, sleepq[waking][1] # active_thread)
  /\ UNCHANGED <<attrs, active_thread, locks, pended, waking>>

WakeupEnd ==
  /\ ~panicked /\ waking # NoEvent /\ sleepq[waking] = <<>>
  /\ waking' = NoEvent
  /\ UNCHANGED <<queues, attrs, active_thread, locks>>
  /\ schedule

\* Positions of the sleeper sch_wakeone picks: the first of the best priority.
TopSleeper(e) ==
  {i \in 1..Len(sleepq[e]) : \A j \in 1..Len(sleepq[e]) :
     /\ prio[sleepq[e][i]] <= prio[sleepq[e][j]]
     /\ j < i => prio[sleepq[e][i]] < prio[sleepq[e][j]]}

\* The test for putting the woken thread on the run queue looks at the last
\* thread of the sleep queue, whichever thread was picked.
WakeoneEnqueues(e) == sleepq[e][Len(sleepq[e])] # active_thread

\* No thread calls sch_wakeone on the event it is itself about to sleep on.
sch_wakeone(e) ==
  /\ Running
  /\ e \in IsrWakeone \/ ~Queued(sleepq[e], active_thread)
  /\ \E i \in TopSleeper(e) : Wake(e, i, WakeoneEnqueues(e))
  /\ schedule
  /\ UNCHANGED <<attrs, active_thread, locks, waking>>

\* The body of sch_unsleep for a thread with TH_SLEEP.
Unsleep(th) ==
  /\ "TH_SLEEP" \in state[th]
  /\ \E e \in Events : \E i \in 1..Len(sleepq[e]) :
       sleepq[e][i] = th /\ Wake(e, i, th # active_thread)
  /\ IF th = active_thread THEN UNCHANGED pended ELSE schedule

\* The sleep timer of th calls sch_unsleep(th, -ETIMEDOUT).
sleep_expire(th) ==
  /\ Running /\ timeout[th]
  /\ Unsleep(th)
  /\ UNCHANGED <<attrs, active_thread, locks, waking>>

\* sig_thread makes a signal pending and calls sch_signal.  Thread code never
\* signals itself between prepare and continue; an interrupt handler may.
\* thread_terminate ends with sig_thread(th, 0).
sch_signal(th) ==
  /\ Running /\ Alive(th)
  /\ \/ th \in IsrSigThreads
     \/ /\ th \in SigThreads \/ ("TH_EXIT" \in state[th] /\ ~sigpend[th])
        /\ InKernel
  /\ sigpend' = [sigpend EXCEPT ![th] = TRUE]
  /\ \/ /\ th = active_thread
        /\ resched' = RESCHED_PREEMPT
        /\ schedule
        /\ UNCHANGED <<runq, sleepq, state, timeout, panicked>>
     \/ th # active_thread /\ Unsleep(th)
     \/ /\ th # active_thread /\ "TH_SLEEP" \notin state[th]
        /\ UNCHANGED <<queues, pended>>
  /\ UNCHANGED <<prio, policy, pc, active_thread, locks, waking>>

\* Mutant: the moved thread is not taken off the first queue.
MutRequeueKeeps(l, r) ==
  /\ InKernel /\ l # r /\ sleepq[l] # <<>>
  /\ sleepq' = [sleepq EXCEPT ![r] = Append(@, Head(sleepq[l]))]
  /\ UNCHANGED <<runq, resched, state, timeout, panicked, attrs, active_thread,
                 locks, pended, waking>>

sch_requeue(l, r) ==
  /\ InKernel /\ l # r /\ sleepq[l] # <<>>
  /\ sleepq' = [sleepq EXCEPT ![l] = Tail(@), ![r] = Append(@, Head(sleepq[l]))]
  /\ UNCHANGED <<runq, resched, state, timeout, panicked, attrs, active_thread,
                 locks, pended, waking>>

-----------------------------------------------------------------------------
(* Sleeping: the active thread prepares, tests its condition and then      *)
(* continues or cancels.                                                   *)

\* Mutant: the test for pending signals is dropped.
MutPrepareIgnoresSignal(e, timed) ==
  /\ InKernel /\ active_thread # Idle /\ locks < MaxLocks
  /\ state' = [state EXCEPT ![active_thread] = @ \cup {"TH_SLEEP"}]
  /\ sleepq' = [sleepq EXCEPT ![e] = Append(@, active_thread)]
  /\ timeout' = [timeout EXCEPT ![active_thread] = timed]
  /\ locks' = locks + 1
  /\ pc' = [pc EXCEPT ![active_thread] = "prepared"]
  /\ UNCHANGED <<runq, resched, panicked, active_thread, prio, policy, sigpend,
                 pended, waking>>

\* With an unblocked signal pending it returns -EINTR and changes nothing.
sch_prepare_sleep(e, timed) ==
  /\ InKernel /\ active_thread # Idle /\ locks < MaxLocks
  /\ ~sigpend[active_thread]
  /\ state' = [state EXCEPT ![active_thread] = @ \cup {"TH_SLEEP"}]
  /\ sleepq' = [sleepq EXCEPT ![e] = Append(@, active_thread)]
  /\ timeout' = [timeout EXCEPT ![active_thread] = timed]
  /\ locks' = locks + 1
  /\ pc' = [pc EXCEPT ![active_thread] = "prepared"]
  /\ UNCHANGED <<runq, resched, panicked, active_thread, prio, policy, sigpend,
                 pended, waking>>

\* Mutant: a thread that is still going to sleep does not ask for a switch.
MutContinueNoSwitch ==
  /\ ThreadRuns /\ pc[active_thread] = "prepared" /\ locks = 1
  /\ locks' = 0
  /\ pended' = (resched # 0)
  /\ pc' = [pc EXCEPT ![active_thread] = "run"]
  /\ UNCHANGED <<queues, active_thread, prio, policy, sigpend, waking>>

\* Every caller has released its own scheduler locks.
sch_continue_sleep ==
  /\ ThreadRuns /\ pc[active_thread] = "prepared" /\ locks = 1
  /\ locks' = 0
  /\ resched' = IF "TH_SLEEP" \in state[active_thread] THEN RESCHED_SWITCH ELSE resched
  /\ pended' = (resched' # 0)
  /\ pc' = [pc EXCEPT ![active_thread] = "run"]
  /\ UNCHANGED <<runq, sleepq, state, timeout, panicked, active_thread, prio, policy,
                 sigpend, waking>>

AfterUnlock == IF locks = 1 THEN "unlock" ELSE "run"

\* Mutant: the lock is given back twice.
MutCancelUnlocksTwice ==
  /\ ThreadRuns /\ pc[active_thread] = "prepared"
  /\ \/ Unsleep(active_thread)
     \/ "TH_SLEEP" \notin state[active_thread] /\ UNCHANGED <<queues, pended>>
  /\ locks' = locks - 2
  /\ pc' = [pc EXCEPT ![active_thread] = AfterUnlock]
  /\ UNCHANGED <<active_thread, prio, policy, sigpend, waking>>

\* Its sch_unsleep and the decrement of its sch_unlock are one step: in between
\* the scheduler is locked, and a handler can only ask for the switch that
\* sch_unlock looks for.
sch_cancel_sleep ==
  /\ ThreadRuns /\ pc[active_thread] = "prepared"
  /\ \/ Unsleep(active_thread)
     \/ "TH_SLEEP" \notin state[active_thread] /\ UNCHANGED <<queues, pended>>
  /\ locks' = locks - 1
  /\ pc' = [pc EXCEPT ![active_thread] = AfterUnlock]
  /\ UNCHANGED <<active_thread, prio, policy, sigpend, waking>>

sch_lock ==
  /\ ThreadRuns /\ pc[active_thread] \in {"run", "prepared"} /\ locks < MaxLocks
  /\ locks' = locks + 1
  /\ UNCHANGED <<queues, attrs, active_thread, pended, waking>>

\* A prepared thread keeps the lock sch_prepare_sleep took.
sch_unlock ==
  /\ ThreadRuns
  /\ \/ pc[active_thread] = "run" /\ locks > 0
     \/ pc[active_thread] = "prepared" /\ locks > 1
  /\ locks' = locks - 1
  /\ pc' = [pc EXCEPT ![active_thread] = IF locks = 1 THEN "unlock" ELSE @]
  /\ UNCHANGED <<queues, active_thread, prio, policy, sigpend, pended, waking>>

\* Mutant: sch_unlock does not look at resched.
MutUnlockNoCheck ==
  /\ ThreadRuns /\ pc[active_thread] = "unlock"
  /\ pc' = [pc EXCEPT ![active_thread] = "run"]
  /\ UNCHANGED <<queues, active_thread, locks, pended, prio, policy, sigpend, waking>>

\* The second half of sch_unlock, with interrupts disabled.
UnlockCheck ==
  /\ ThreadRuns /\ pc[active_thread] = "unlock"
  /\ pended' = (resched # 0)
  /\ pc' = [pc EXCEPT ![active_thread] = "run"]
  /\ UNCHANGED <<queues, active_thread, locks, prio, policy, sigpend, waking>>

-----------------------------------------------------------------------------
(* Switching.                                                              *)

\* Mutant: a preempted thread is not put back on the run queue.
MutSwitchForgetsPrev ==
  /\ Running /\ resched # 0 /\ locks = 0 /\ runq # <<>>
  /\ \E q \in IF ~thread_runnable(state[active_thread]) \/ resched = RESCHED_PREEMPT THEN {runq}
              ELSE EnqueueResults(runq, prio, active_thread) :
       active_thread' = Head(q) /\ runq' = Tail(q)
  /\ resched' = 0 /\ pended' = FALSE
  /\ UNCHANGED <<sleepq, state, timeout, panicked, locks, prio, policy, sigpend, pc, waking>>

\* sch_switch ignores the call unless a switch is wanted and allowed.  The
\* idle thread is always runnable, so there is always a thread to dequeue.
\* A zombie wakes its task's thread_event and goes to the zombie list.
sch_switch ==
  /\ Running /\ resched # 0 /\ locks = 0
  /\ \E q \in IF ~thread_runnable(state[active_thread]) THEN {runq}
              ELSE IF resched = RESCHED_PREEMPT THEN InsertResults(runq, prio, active_thread)
              ELSE EnqueueResults(runq, prio, active_thread) :
       active_thread' = Head(q) /\ runq' = Tail(q)
  /\ resched' = 0 /\ pended' = FALSE
  /\ \/ /\ "TH_ZOMBIE" \in state[active_thread]
        /\ pc' = [pc EXCEPT ![active_thread] = "zombie"]
        /\ waking' = IF sleepq[ThreadEvent] = <<>> THEN NoEvent ELSE ThreadEvent
     \/ "TH_ZOMBIE" \notin state[active_thread] /\ UNCHANGED <<pc, waking>>
  /\ UNCHANGED <<sleepq, state, timeout, panicked, locks, prio, policy, sigpend>>

sched_yield ==
  /\ InKernel /\ locks = 0 /\ TopMayRun
  /\ resched' = RESCHED_SWITCH /\ pended' = TRUE
  /\ UNCHANGED <<runq, sleepq, state, timeout, panicked, attrs, active_thread, locks,
                 waking>>

\* Mutant: the expired thread keeps its place at the head of its priority.
MutElapsePreempts ==
  /\ Running /\ policy[active_thread] = "SCHED_RR" /\ TopMayRun
  /\ resched' = RESCHED_PREEMPT
  /\ schedule
  /\ UNCHANGED <<runq, sleepq, state, timeout, panicked, attrs, active_thread, locks,
                 waking>>

\* The timer interrupt finds the quantum used up; timeleft is abstracted to
\* the choice of the moment.
sch_elapse ==
  /\ Running /\ policy[active_thread] = "SCHED_RR" /\ TopMayRun
  /\ resched' = RESCHED_SWITCH
  /\ schedule
  /\ UNCHANGED <<runq, sleepq, state, timeout, panicked, attrs, active_thread, locks,
                 waking>>

-----------------------------------------------------------------------------
(* Suspending, priorities.                                                 *)

\* The assertions of sch_suspend_resume hold: the thread is not suspended yet, or
\* it is.
CanSuspend(th) == Alive(th) /\ th \in Suspendable /\ "TH_SUSPEND" \notin state[th]
CanResume(th)  == Alive(th) /\ "TH_SUSPEND" \in state[th]
AddFlag(th, f) == state' = [state EXCEPT ![th] = @ \cup {f}]

\* Mutant: the suspended thread stays on the run queue.
MutSuspendStaysQueued(th) ==
  /\ InKernel /\ CanSuspend(th)
  /\ resched' = IF th = active_thread THEN RESCHED_SWITCH ELSE resched
  /\ AddFlag(th, "TH_SUSPEND")
  /\ schedule
  /\ UNCHANGED <<runq, sleepq, timeout, panicked, attrs, active_thread, locks, waking>>

sch_suspend(th) ==
  /\ InKernel /\ CanSuspend(th)
  /\ resched' = IF th = active_thread THEN RESCHED_SWITCH ELSE resched
  /\ \/ /\ th # active_thread /\ thread_runnable(state[th])
        /\ runq' \in RemoveResults(runq, th)
     \/ /\ th = active_thread \/ ~thread_runnable(state[th])
        /\ UNCHANGED runq
  /\ AddFlag(th, "TH_SUSPEND")
  /\ schedule
  /\ UNCHANGED <<sleepq, timeout, panicked, attrs, active_thread, locks, waking>>

sch_resume(th) ==
  /\ InKernel /\ CanResume(th)
  /\ LET flags == state[th] \ {"TH_SUSPEND"} IN
       /\ state' = [state EXCEPT ![th] = flags]
       /\ \/ /\ thread_runnable(flags) /\ th # active_thread
             /\ runq_enqueue(runq, prio, th) /\ schedule
          \/ /\ ~thread_runnable(flags) \/ th = active_thread
             /\ UNCHANGED <<runq, resched, pended>>
  /\ UNCHANGED <<sleepq, timeout, panicked, attrs, active_thread, locks, waking>>

\* vfork: the active thread suspends itself and starts the child's thread.
sch_suspend_resume(th) ==
  /\ InKernel /\ CanSuspend(active_thread) /\ CanResume(th) /\ th # active_thread
  /\ thread_runnable(state[th] \ {"TH_SUSPEND"})
  /\ state' = [state EXCEPT ![active_thread] = @ \cup {"TH_SUSPEND"},
                            ![th] = @ \ {"TH_SUSPEND"}]
  /\ resched' = RESCHED_SWITCH
  /\ runq' \in EnqueueResults(runq, prio, th)
  /\ schedule
  /\ UNCHANGED <<sleepq, timeout, panicked, attrs, active_thread, locks, waking>>

\* They do not hold.  Not every caller sees to it: clone suspends the parent of a
\* vfork, and SIGSTOP suspends all threads of its task, that one again.
SuspendAsserts(th) ==
  /\ InKernel /\ Alive(th) /\ th \in Suspendable
  /\ \/ ~CanSuspend(th)  \* sch_suspend(th)
     \/ ~CanResume(th)   \* sch_resume(th)
  /\ panicked' = TRUE
  /\ UNCHANGED <<runq, resched, sleepq, state, timeout, attrs, active_thread, locks,
                 pended, waking>>

\* Mutant: a changed priority never asks for a switch of the active thread.
MutSetprioNoPreempt(th, p) ==
  /\ InKernel /\ th \in PrioThreads /\ Alive(th)
  /\ prio' = [prio EXCEPT ![th] = p]
  /\ \/ th = active_thread /\ UNCHANGED <<runq, resched>>
     \/ /\ th # active_thread /\ thread_runnable(state[th])
        /\ \E q \in RemoveResults(runq, th) : runq_enqueue(q, prio', th)
     \/ /\ th # active_thread /\ ~thread_runnable(state[th])
        /\ UNCHANGED <<runq, resched>>
  /\ schedule
  /\ UNCHANGED <<sleepq, state, timeout, panicked, policy, sigpend, pc, active_thread,
                 locks, waking>>

\* sched_setscheduler and kthread_create set a priority.
sch_setprio(th, p) ==
  /\ InKernel /\ th \in PrioThreads /\ Alive(th)
  /\ prio' = [prio EXCEPT ![th] = p]
  /\ \/ /\ th = active_thread
        /\ resched' = IF resched = 0 /\ runq # <<>> /\ prio[Head(runq)] < p
                      THEN RESCHED_PREEMPT ELSE resched
        /\ UNCHANGED runq
     \/ /\ th # active_thread /\ thread_runnable(state[th])
        /\ \E q \in RemoveResults(runq, th) : runq_enqueue(q, prio', th)
     \/ /\ th # active_thread /\ ~thread_runnable(state[th])
        /\ UNCHANGED <<runq, resched>>
  /\ schedule
  /\ UNCHANGED <<sleepq, state, timeout, panicked, policy, sigpend, pc, active_thread,
                 locks, waking>>

sch_setpolicy(th, pol) ==
  /\ InKernel /\ Alive(th) /\ th # Idle
  /\ policy' = [policy EXCEPT ![th] = pol]
  /\ UNCHANGED <<queues, prio, sigpend, pc, active_thread, locks, pended, waking>>

-----------------------------------------------------------------------------
(* The life of a thread.                                                   *)

\* thread_createfor and kthread_create: the zombies are reaped, a thread is
\* allocated and set up suspended.
thread_create(th, p, pol) ==
  /\ InKernel /\ ~Alive(th)
  /\ pc' = [t \in Threads |-> IF t = th THEN "run"
                              ELSE IF pc[t] = "zombie" THEN "free" ELSE pc[t]]
  /\ state' = [t \in Threads |-> IF t = th THEN {"TH_SUSPEND"}
                                 ELSE IF Alive(t) THEN state[t] ELSE {}]
  /\ prio' = [prio EXCEPT ![th] = p]
  /\ policy' = [policy EXCEPT ![th] = pol]
  /\ sigpend' = [sigpend EXCEPT ![th] = FALSE]
  /\ UNCHANGED <<runq, resched, sleepq, timeout, panicked, active_thread, locks,
                 pended, waking>>

\* The first half of thread_terminate.
sch_stop(th) ==
  /\ InKernel /\ Alive(th) /\ th # Idle
  /\ AddFlag(th, "TH_EXIT")
  /\ UNCHANGED <<runq, resched, sleepq, timeout, panicked, attrs, active_thread,
                 locks, pended, waking>>

sch_testexit ==
  /\ InKernel /\ locks = 0 /\ "TH_EXIT" \in state[active_thread]
  /\ AddFlag(active_thread, "TH_ZOMBIE")
  /\ resched' = RESCHED_SWITCH /\ pended' = TRUE
  /\ UNCHANGED <<runq, sleepq, timeout, panicked, attrs, active_thread, locks, waking>>

\* sig_deliver, on the way back to user mode, takes the pending signal.
sig_deliver ==
  /\ InKernel /\ locks = 0 /\ sigpend[active_thread]
  /\ "TH_EXIT" \notin state[active_thread]
  /\ sigpend' = [sigpend EXCEPT ![active_thread] = FALSE]
  /\ UNCHANGED <<queues, prio, policy, pc, active_thread, locks, pended, waking>>

Halted == panicked /\ UNCHANGED vars

-----------------------------------------------------------------------------
Init ==
  /\ runq = <<>> /\ active_thread = Idle
  /\ resched = 0 /\ locks = 0 /\ pended = FALSE
  /\ state = [th \in Threads |-> {}]
  /\ prio = [th \in Threads |-> IdlePrio]
  /\ policy = [th \in Threads |-> "SCHED_FIFO"]
  /\ sleepq = [e \in Events |-> <<>>]
  /\ timeout = [th \in Threads |-> FALSE]
  /\ sigpend = [th \in Threads |-> FALSE]
  /\ pc = [th \in Threads |-> IF th = Idle THEN "run" ELSE "free"]
  /\ waking = NoEvent /\ panicked = FALSE

Next ==
  \/ \E e \in Events : WakeupBegin(e) \/ sch_wakeone(e)
  \/ WakeupNext \/ WakeupEnd
  \/ \E e \in Events, timed \in BOOLEAN : sch_prepare_sleep(e, timed)
  \/ sch_continue_sleep \/ sch_cancel_sleep
  \/ \E l, r \in Events : sch_requeue(l, r)
  \/ sch_lock \/ sch_unlock \/ UnlockCheck
  \/ sch_switch \/ sched_yield \/ sch_elapse
  \/ \E th \in Threads :
       \/ sleep_expire(th) \/ sch_signal(th)
       \/ sch_suspend(th) \/ sch_resume(th) \/ sch_suspend_resume(th)
       \/ SuspendAsserts(th)
       \/ \E p \in Prio : sch_setprio(th, p)
       \/ \E pol \in Policies : sch_setpolicy(th, pol)
       \/ \E p \in Prio, pol \in Policies : thread_create(th, p, pol)
       \/ sch_stop(th)
  \/ sch_testexit \/ sig_deliver
  \/ Halted

Spec == Init /\ [][Next]_vars

\* The switch exception and a section that runs with interrupts disabled are
\* not held off for ever, a thread leaves its outermost sch_lock section and
\* the sleep protocol, and the timer interrupt keeps coming (it waits while
\* interrupts are disabled, hence strong fairness).
Fairness ==
  /\ WF_vars(sch_switch) /\ WF_vars(WakeupNext) /\ WF_vars(WakeupEnd)
  /\ WF_vars(UnlockCheck) /\ WF_vars(sch_unlock) /\ SF_vars(locks = 1 /\ sch_unlock)
  /\ SF_vars(sch_continue_sleep \/ sch_cancel_sleep)
  /\ SF_vars(sch_elapse)

FairSpec == Spec /\ Fairness
-----------------------------------------------------------------------------
(* Properties.                                                             *)

\* Every variable has its type.
TypeOK ==
  /\ runq \in Seq(Threads) /\ active_thread \in Threads
  /\ resched \in {0, RESCHED_SWITCH, RESCHED_PREEMPT}
  /\ locks \in 0..MaxLocks /\ pended \in BOOLEAN
  /\ state \in [Threads -> SUBSET Flags]
  /\ prio \in [Threads -> Prio \cup {IdlePrio}]
  /\ policy \in [Threads -> {"SCHED_RR", "SCHED_FIFO"}]
  /\ sleepq \in [Events -> Seq(Threads)]
  /\ timeout \in [Threads -> BOOLEAN] /\ sigpend \in [Threads -> BOOLEAN]
  /\ pc \in [Threads -> Places]
  /\ waking \in Events \cup {NoEvent} /\ panicked \in BOOLEAN

Ready(th) == th # active_thread /\ Alive(th) /\ thread_runnable(state[th])

\* No thread is lost or scheduled twice: the run queue (runq_enqueue,
\* runq_remove, runq_dequeue) holds every runnable thread other than the
\* active one exactly once, and no other thread.
RunqExact ==
  /\ NoDuplicates(runq)
  /\ \A th \in Threads : Queued(runq, th) <=> Ready(th)

\* A thread has TH_SLEEP exactly while it is on one sleep queue, once; the
\* intrusive link of a thread is never on two queues.
SleepqExact ==
  /\ \A e \in Events : NoDuplicates(sleepq[e])
  /\ \A th \in Threads, e, f \in Events :
       Queued(sleepq[e], th) /\ Queued(sleepq[f], th) => e = f
  /\ \A th \in Threads :
       (\E e \in Events : Queued(sleepq[e], th)) <=> "TH_SLEEP" \in state[th]

\* The processor is handed over only while preemption is enabled, only to a
\* runnable thread, and to one no ready thread has a better priority than, the
\* thread that gives the processor up included (sch_switch, runq_dequeue).
SwitchPicksBest ==
  [][active_thread' # active_thread =>
       /\ locks = 0 /\ thread_runnable(state[active_thread'])
       /\ \A th \in Threads : Alive(th) /\ thread_runnable(state[th]) =>
                               prio[active_thread'] <= prio[th]]_vars

\* Unless a switch is already wanted, no thread on the run queue has a better
\* priority than the thread that runs, whatever sequence of wakeups, signals,
\* priority changes and suspensions led here.
PriorityRespected ==
  resched = 0 => \A th \in Threads : Queued(runq, th) => prio[active_thread] <= prio[th]

\* A wanted switch is never forgotten: with preemption enabled the switch
\* exception is pended, or sch_unlock is about to look; and the exception is
\* never pended for nothing (sch_switch: "Ignore spurious sch_switch calls").
NoLostResched ==
  /\ pended => resched # 0 /\ locks = 0
  /\ (resched # 0 /\ locks = 0 /\ waking = NoEvent) =>
       pended \/ pc[active_thread] = "unlock"

\* Thread code outside the sleep protocol never executes with TH_SLEEP (the
\* asserts of sch_prepare_sleep and sch_continue_sleep), and with preemption
\* enabled it never executes suspended or dead.
OnlyRunnableRuns ==
  InKernel => /\ "TH_SLEEP" \notin state[active_thread]
              /\ locks = 0 => thread_runnable(state[active_thread])

\* A thread that sleeps has no unblocked pending signal: sch_signal interrupts
\* a sleep with -EINTR and sch_prepare_sleep refuses to start one.
SignalInterruptsSleep ==
  ~panicked => \A th \in Threads :
    "TH_SLEEP" \in state[th] /\ th # active_thread => ~sigpend[th]

\* A sleep timer never outlives the sleep it was armed for: every way of
\* waking a thread stops it.
TimerOnlyWhileAsleep == \A th \in Threads : timeout[th] => "TH_SLEEP" \in state[th]

\* Round robin: with all threads SCHED_RR, of one priority and not signalled,
\* a thread that is ready to run gets the processor, however the other threads
\* lock, sleep, wake each other, create threads and exit.
ReadyThreadRuns ==
  \A th \in Threads \ {Idle} : Ready(th) ~> (active_thread = th \/ panicked)

\* No wakeup, by an event, a signal or a timeout, fails an assertion, whatever
\* state the sleeping thread has been brought into ("A thread can have sleep and
\* suspend state simultaneously").
WakingNeverFails ==
  [][(\/ WakeupNext \/ \E e \in Events : sch_wakeone(e)
      \/ \E th \in Threads : sleep_expire(th) \/ sch_signal(th)) => ~panicked']_vars
=============================================================================
