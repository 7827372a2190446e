---------------------------- MODULE SchedProofs ----------------------------
(***************************************************************************)
(* Proofs about the scheduler for any number of threads, events and        *)
(* priorities.                                                             *)
(***************************************************************************)
EXTENDS Sched, RunQueueProofs

(* What ties the control state to the thread flags.                        *)
Structure ==
  /\ Alive(active_thread) /\ Alive(Idle) /\ pc[Idle] # "prepared" /\ state[Idle] = {}
  /\ \A th \in Threads : "TH_SLEEP" \in state[th] => Alive(th)
  /\ \A th \in Threads : pc[th] = "prepared" => th = active_thread /\ locks > 0
  /\ \A th \in Threads : Alive(th) /\ "TH_ZOMBIE" \in state[th] =>
       th = active_thread /\ pended /\ "TH_SLEEP" \notin state[th]
  /\ "TH_SLEEP" \in state[active_thread] => pc[active_thread] = "prepared" \/ pended
  /\ "TH_SUSPEND" \in state[active_thread] => resched # 0
  /\ pc[active_thread] = "unlock" => locks = 0

(* The queues and the state they mirror.                                   *)
Queues == RunqExact /\ Sorted(runq, prio) /\ SleepqExact /\ PriorityRespected

(* The inductive invariant.                                                *)
IInv == TypeOK /\ Queues /\ NoLostResched /\ Structure
-----------------------------------------------------------------------------
(* Lemmas the actions share.                                               *)

\* A thread is runnable when it has none of three flags.
LEMMA RunnableFlags ==
  \A f : thread_runnable(f) <=>
           "TH_SLEEP" \notin f /\ "TH_SUSPEND" \notin f /\ "TH_ZOMBIE" \notin f
  BY DEF thread_runnable

\* Priorities are numbers.
LEMMA PrioType ==
  ASSUME TypeOK PROVE prio \in [Threads -> Nat]
  BY Zenon, SchedAssumption DEF TypeOK

\* runq_enqueue of a thread that becomes ready keeps the run queue exact and
\* ordered.
LEMMA EnqueueReady ==
  ASSUME TypeOK, RunqExact, Sorted(runq, prio),
         NEW th \in Threads, th # active_thread, ~Ready(th),
         runq' \in EnqueueResults(runq, prio, th),
         prio' = prio, active_thread' = active_thread,
         \A t \in Threads : Alive(t)' <=> Alive(t),
         Alive(th), thread_runnable(state'[th]),
         \A t \in Threads \ {th, active_thread} :
           thread_runnable(state'[t]) <=> thread_runnable(state[t])
  PROVE  /\ RunqExact' /\ Sorted(runq, prio)' /\ runq' \in Seq(Threads)
         /\ \A t : Queued(runq', t) <=> Queued(runq, t) \/ t = th
<1>1. prio \in [Threads -> Nat] /\ runq \in Seq(Threads)
  BY PrioType DEF TypeOK
<1>2. NoDuplicates(runq) /\ ~Queued(runq, th)
  BY DEF RunqExact
<1>3. /\ runq' \in Seq(Threads) /\ NoDuplicates(runq') /\ Sorted(runq', prio)
      /\ \A t : Queued(runq', t) <=> Queued(runq, t) \/ t = th
  BY <1>1, <1>2, EnqueueFacts
<1>4. \A t \in Threads : Queued(runq', t) <=> Ready(t)'
  BY <1>3 DEF RunqExact, Ready
<1> QED BY <1>3, <1>4 DEF RunqExact

\* Its test against active_thread keeps PriorityRespected.
LEMMA EnqueuePriority ==
  ASSUME TypeOK, PriorityRespected, NEW th \in Threads,
         \A t : Queued(runq', t) <=> Queued(runq, t) \/ t = th,
         prio' = prio, active_thread' = active_thread,
         resched' = IF prio[th] < prio[active_thread] /\ resched = 0
                    THEN RESCHED_PREEMPT ELSE resched
  PROVE  /\ PriorityRespected' /\ resched' \in {0, RESCHED_SWITCH, RESCHED_PREEMPT}
         /\ resched # 0 => resched' # 0
<1>1. prio \in [Threads -> Nat] /\ active_thread \in Threads
      /\ resched \in {0, RESCHED_SWITCH, RESCHED_PREEMPT}
  BY PrioType DEF TypeOK
<1>2. resched' \in {0, RESCHED_SWITCH, RESCHED_PREEMPT} /\ (resched # 0 => resched' # 0)
  BY <1>1 DEF RESCHED_PREEMPT, RESCHED_SWITCH
<1>3. ASSUME resched' = 0, NEW t \in Threads, Queued(runq', t)
      PROVE  prio[active_thread] <= prio[t]
  <2>1. resched = 0 /\ ~(prio[th] < prio[active_thread])
    BY <1>3 DEF RESCHED_PREEMPT
  <2>2. CASE t = th  BY <1>1, <2>1, <2>2
  <2>3. CASE Queued(runq, t)  BY <2>1, <2>3 DEF PriorityRespected
  <2> QED BY <1>3, <2>2, <2>3
<1> QED BY <1>2, <1>3 DEF PriorityRespected
\* Only the flags that decide whether a thread other than the active one is
\* ready matter to the run queue.
LEMMA RunqUnchanged ==
  ASSUME TypeOK, RunqExact, Sorted(runq, prio), PriorityRespected,
         UNCHANGED <<runq, active_thread, prio>>, resched' = 0 => resched = 0,
         \A t \in Threads \ {active_thread} :
           Alive(t)' /\ thread_runnable(state'[t]) <=> Alive(t) /\ thread_runnable(state[t])
  PROVE  RunqExact' /\ Sorted(runq, prio)' /\ PriorityRespected'
<1>1. Sorted(runq, prio)'
  BY DEF Sorted
<1>2. RunqExact'
  BY DEF RunqExact, Ready
<1>3. PriorityRespected'
  BY DEF PriorityRespected
<1> QED BY <1>1, <1>2, <1>3

\* Taking a sleeper off its queue: sch_wakeup, sch_wakeone and sch_unsleep.
LEMMA WakeKeeps ==
  ASSUME IInv, NEW e \in Events, NEW i \in 1..Len(sleepq[e]), NEW enq \in BOOLEAN,
         enq <=> sleepq[e][i] # active_thread,
         Wake(e, i, enq), prio' = prio, active_thread' = active_thread,
         \A t \in Threads : Alive(t)' <=> Alive(t)
  PROVE  /\ Queues'
         /\ runq' \in Seq(Threads) /\ resched' \in {0, RESCHED_SWITCH, RESCHED_PREEMPT}
         /\ sleepq' \in [Events -> Seq(Threads)] /\ state' \in [Threads -> SUBSET Flags]
         /\ timeout' \in [Threads -> BOOLEAN] /\ panicked' \in BOOLEAN
         /\ \A t \in Threads : /\ state'[t] \subseteq state[t]
                               /\ state[t] \subseteq state'[t] \cup {"TH_SLEEP"}
         /\ resched # 0 => resched' # 0
<1> DEFINE th == sleepq[e][i]
           flags == state[th] \ {"TH_SLEEP"}
<1>1. /\ sleepq[e] \in Seq(Threads) /\ th \in Threads /\ active_thread \in Threads
      /\ state \in [Threads -> SUBSET Flags] /\ timeout \in [Threads -> BOOLEAN]
      /\ resched \in {0, RESCHED_SWITCH, RESCHED_PREEMPT} /\ runq \in Seq(Threads)
      /\ sleepq \in [Events -> Seq(Threads)] /\ panicked \in BOOLEAN /\ TypeOK
  BY DEF IInv, TypeOK
<1>2. RunqExact /\ Sorted(runq, prio) /\ SleepqExact /\ PriorityRespected /\ Structure
  BY DEF IInv, Queues
<1>3. Queued(sleepq[e], th)
  BY <1>1 DEF Queued
<1>4. "TH_SLEEP" \in state[th] /\ Alive(th)
  BY <1>1, <1>2, <1>3 DEF SleepqExact, Structure
<1>5. CASE enq /\ ~thread_runnable(flags)
  <2>1. panicked' = TRUE /\ UNCHANGED <<runq, resched, sleepq, state, timeout>>
    BY <1>5 DEF Wake
  <2>2. RunqExact' /\ Sorted(runq, prio)' /\ PriorityRespected'
    BY <1>1, <1>2, <2>1, RunqUnchanged
  <2>3. SleepqExact'
    BY <1>2, <2>1 DEF SleepqExact
  <2> QED BY <1>1, <2>1, <2>2, <2>3 DEF Queues
<1>6. CASE enq => thread_runnable(flags)
  <2> DEFINE q == queue_remove(sleepq[e], i)
  <2>1. /\ sleepq' = [sleepq EXCEPT ![e] = q]
        /\ state' = [state EXCEPT ![th] = flags]
        /\ timeout' = [timeout EXCEPT ![th] = FALSE]
        /\ IF enq THEN runq_enqueue(runq, prio, th) ELSE UNCHANGED <<runq, resched>>
        /\ panicked' = panicked
    BY <1>6 DEF Wake
  <2>2. /\ q \in Seq(Threads) /\ NoDuplicates(q)
        /\ \A t : Queued(q, t) <=> Queued(sleepq[e], t) /\ t # th
    BY <1>1, <1>2, RemoveAtQueue DEF SleepqExact
  <2> HIDE DEF q, th, flags
  <2>3. SleepqExact'
    <3>1. \A f \in Events : NoDuplicates(sleepq'[f])
      BY <1>1, <1>2, <2>1, <2>2 DEF SleepqExact
    <3>2. \A t \in Threads, f \in Events :
            Queued(sleepq'[f], t) <=> Queued(sleepq[f], t) /\ ~(f = e /\ t = th)
      BY <1>1, <2>1, <2>2
    <3>3. \A f \in Events : Queued(sleepq[f], th) => f = e
      BY <1>1, <1>2, <1>3 DEF SleepqExact
    <3>4. \A t \in Threads : "TH_SLEEP" \in state'[t] <=> "TH_SLEEP" \in state[t] /\ t # th
      BY <1>1, <2>1 DEF flags
    <3>5. \A t \in Threads, f, g \in Events :
            Queued(sleepq'[f], t) /\ Queued(sleepq'[g], t) => f = g
      BY <1>2, <3>2 DEF SleepqExact
    <3>6. \A t \in Threads :
            (\E f \in Events : Queued(sleepq'[f], t)) <=> "TH_SLEEP" \in state'[t]
      BY <1>2, <3>2, <3>3, <3>4 DEF SleepqExact
    <3> QED BY <3>1, <3>5, <3>6 DEF SleepqExact
  <2>4. state' \in [Threads -> SUBSET Flags]
        /\ \A t \in Threads : /\ state'[t] \subseteq state[t]
                              /\ state[t] \subseteq state'[t] \cup {"TH_SLEEP"}
    BY <1>1, <2>1 DEF flags
  <2>5. CASE enq
    <3>1. /\ runq' \in EnqueueResults(runq, prio, th)
          /\ resched' = IF prio[th] < prio[active_thread] /\ resched = 0
                        THEN RESCHED_PREEMPT ELSE resched
      BY <2>1, <2>5 DEF runq_enqueue
    <3>2. th # active_thread /\ ~Ready(th) /\ thread_runnable(state'[th])
      BY <1>1, <1>4, <1>6, <2>1, <2>5, RunnableFlags DEF Ready, th
    <3>3. \A t \in Threads \ {th, active_thread} :
            thread_runnable(state'[t]) <=> thread_runnable(state[t])
      BY <1>1, <2>1
    <3>4. /\ RunqExact' /\ Sorted(runq, prio)' /\ runq' \in Seq(Threads)
          /\ \A t : Queued(runq', t) <=> Queued(runq, t) \/ t = th
      BY <1>1, <1>2, <1>4, <3>1, <3>2, <3>3, EnqueueReady
    <3>5. /\ PriorityRespected' /\ resched' \in {0, RESCHED_SWITCH, RESCHED_PREEMPT}
          /\ resched # 0 => resched' # 0
      BY <1>1, <1>2, <3>1, <3>4, EnqueuePriority
    <3> QED BY <1>1, <2>1, <2>2, <2>3, <2>4, <3>4, <3>5 DEF Queues
  <2>6. CASE ~enq
    <3>1. UNCHANGED <<runq, resched>> /\ th = active_thread
      BY <2>1, <2>6 DEF th
    <3>2. \A t \in Threads \ {active_thread} : state'[t] = state[t] /\ (Alive(t)' <=> Alive(t))
      BY <1>1, <2>1, <3>1
    <3>3. RunqExact' /\ Sorted(runq, prio)' /\ PriorityRespected'
      BY <1>1, <1>2, <3>1, <3>2, RunqUnchanged
    <3> QED BY <1>1, <2>1, <2>2, <2>3, <2>4, <3>1, <3>3 DEF Queues
  <2> QED BY <2>5, <2>6
<1> QED BY <1>5, <1>6

\* The sleep queues mirror TH_SLEEP only.
LEMMA SleepqUnchanged ==
  ASSUME SleepqExact, sleepq' = sleepq,
         \A t \in Threads : "TH_SLEEP" \in state'[t] <=> "TH_SLEEP" \in state[t]
  PROVE  SleepqExact'
  BY DEF SleepqExact

\* One thread is now on the sleep queue of e, and only there.
LEMMA SleepqMoved ==
  ASSUME SleepqExact, NEW th \in Threads, NEW e \in Events,
         \A f \in Events : NoDuplicates(sleepq'[f]),
         \A t \in Threads, f \in Events : t # th =>
           (Queued(sleepq'[f], t) <=> Queued(sleepq[f], t)),
         \A f \in Events : Queued(sleepq'[f], th) <=> f = e,
         "TH_SLEEP" \in state'[th],
         \A t \in Threads : t # th => ("TH_SLEEP" \in state'[t] <=> "TH_SLEEP" \in state[t])
  PROVE  SleepqExact'
<1>1. ASSUME NEW t \in Threads, NEW f \in Events, NEW g \in Events,
             Queued(sleepq'[f], t), Queued(sleepq'[g], t)
      PROVE  f = g
  <2>1. CASE t = th  BY <1>1, <2>1
  <2>2. CASE t # th
    <3>1. Queued(sleepq[f], t) /\ Queued(sleepq[g], t)
      BY <1>1, <2>2
    <3> QED BY <3>1 DEF SleepqExact
  <2> QED BY <2>1, <2>2
<1>2. ASSUME NEW t \in Threads
      PROVE  (\E f \in Events : Queued(sleepq'[f], t)) <=> "TH_SLEEP" \in state'[t]
  <2>1. CASE t = th  BY <2>1
  <2>2. CASE t # th
    <3>1. (\E f \in Events : Queued(sleepq'[f], t)) <=>
          (\E f \in Events : Queued(sleepq[f], t))
      BY <2>2
    <3>2. (\E f \in Events : Queued(sleepq[f], t)) <=> "TH_SLEEP" \in state[t]
      BY DEF SleepqExact
    <3> QED BY <2>2, <3>1, <3>2
  <2> QED BY <2>1, <2>2
<1> QED BY <1>1, <1>2 DEF SleepqExact

\* A step that leaves the queues, the flags and the priorities alone.
LEMMA QueuesUnchanged ==
  ASSUME IInv, UNCHANGED <<runq, sleepq, state, prio, active_thread>>,
         resched' = 0 => resched = 0, \A t \in Threads : Alive(t)' <=> Alive(t)
  PROVE  Queues'
<1>1. RunqExact' /\ Sorted(runq, prio)' /\ PriorityRespected'
  BY RunqUnchanged DEF IInv, Queues
<1>2. SleepqExact'
  BY SleepqUnchanged DEF IInv, Queues
<1> QED BY <1>1, <1>2 DEF Queues

-----------------------------------------------------------------------------
(* One lemma for each action: it preserves the inductive invariant.        *)

\* sch_wakeup, interrupts disabled.
LEMMA WakeupBeginInv ==
  ASSUME IInv, NEW e \in Events, WakeupBegin(e) PROVE IInv'
<1>1. TypeOK'
  BY DEF IInv, TypeOK, WakeupBegin, queues, attrs
<1>2. Queues'
  BY QueuesUnchanged DEF WakeupBegin, queues, attrs, Alive
<1>3. NoLostResched'
  BY SchedAssumption DEF IInv, NoLostResched, WakeupBegin, queues, attrs
<1>4. Structure'
  BY DEF IInv, Structure, Alive, WakeupBegin, queues, attrs
<1> QED BY <1>1, <1>2, <1>3, <1>4 DEF IInv

\* sch_wakeup, one sleeper.
LEMMA WakeupNextInv ==
  ASSUME IInv, WakeupNext PROVE IInv'
<1> USE DEF attrs
<1>1. /\ waking \in Events /\ sleepq[waking] \in Seq(Threads) /\ sleepq[waking] # <<>>
      /\ prio' = prio /\ active_thread' = active_thread
      /\ \A t \in Threads : Alive(t)' <=> Alive(t)
      /\ Wake(waking, 1, sleepq[waking][1] # active_thread)
  BY DEF IInv, TypeOK, WakeupNext, Alive
<1>2. 1 \in 1..Len(sleepq[waking]) /\ (sleepq[waking][1] # active_thread) \in BOOLEAN
  BY <1>1, EmptySeq
<1>3. /\ Queues'
      /\ runq' \in Seq(Threads) /\ resched' \in {0, RESCHED_SWITCH, RESCHED_PREEMPT}
      /\ sleepq' \in [Events -> Seq(Threads)] /\ state' \in [Threads -> SUBSET Flags]
      /\ timeout' \in [Threads -> BOOLEAN] /\ panicked' \in BOOLEAN
      /\ \A t \in Threads : /\ state'[t] \subseteq state[t]
                            /\ state[t] \subseteq state'[t] \cup {"TH_SLEEP"}
      /\ resched # 0 => resched' # 0
  BY Zenon, <1>1, <1>2, WakeKeeps
<1>4. TypeOK'
  BY <1>3 DEF IInv, TypeOK, WakeupNext
<1>5. NoLostResched'
  BY <1>3 DEF IInv, NoLostResched, WakeupNext
<1>6. Structure'
  BY <1>3, SchedAssumption DEF IInv, TypeOK, Structure, Alive, WakeupNext
<1> QED BY <1>3, <1>4, <1>5, <1>6 DEF IInv

\* sch_wakeup, interrupts enabled.
LEMMA WakeupEndInv ==
  ASSUME IInv, WakeupEnd PROVE IInv'
<1> USE DEF queues, attrs, WakeupEnd, schedule
<1>1. TypeOK'
  BY DEF IInv, TypeOK
<1>2. Queues'
  BY QueuesUnchanged DEF Alive
<1>3. NoLostResched'
  BY Zenon DEF IInv, NoLostResched
<1>4. Structure'
  BY Zenon DEF IInv, Structure, Alive
<1> QED BY <1>1, <1>2, <1>3, <1>4 DEF IInv

\* sch_wakeone, when no interrupt handler calls it on the event the active
\* thread is about to sleep on.
LEMMA WakeoneInv ==
  ASSUME IInv, IsrWakeone = {}, NEW e \in Events, sch_wakeone(e) PROVE IInv'
<1> USE DEF attrs
<1>1. PICK i \in TopSleeper(e) : Wake(e, i, WakeoneEnqueues(e))
  BY DEF sch_wakeone
<1>2. /\ prio' = prio /\ active_thread' = active_thread
      /\ \A t \in Threads : Alive(t)' <=> Alive(t)
      /\ ~Queued(sleepq[e], active_thread) /\ sleepq[e] \in Seq(Threads)
  BY DEF sch_wakeone, IInv, TypeOK, Alive
<1>3. i \in 1..Len(sleepq[e]) /\ Len(sleepq[e]) \in 1..Len(sleepq[e])
  BY <1>2 DEF TopSleeper
<1>4. sleepq[e][i] # active_thread /\ WakeoneEnqueues(e) = TRUE
  BY <1>2, <1>3 DEF WakeoneEnqueues, Queued
<1>5. /\ Queues'
      /\ runq' \in Seq(Threads) /\ resched' \in {0, RESCHED_SWITCH, RESCHED_PREEMPT}
      /\ sleepq' \in [Events -> Seq(Threads)] /\ state' \in [Threads -> SUBSET Flags]
      /\ timeout' \in [Threads -> BOOLEAN] /\ panicked' \in BOOLEAN
      /\ \A t \in Threads : /\ state'[t] \subseteq state[t]
                            /\ state[t] \subseteq state'[t] \cup {"TH_SLEEP"}
      /\ resched # 0 => resched' # 0
  BY Zenon, <1>1, <1>2, <1>3, <1>4, WakeKeeps
<1>6. TypeOK'
  BY <1>5 DEF IInv, TypeOK, sch_wakeone, schedule
<1>7. NoLostResched'
  BY Zenon, <1>5 DEF IInv, NoLostResched, sch_wakeone, schedule
<1>8. Structure'
  BY <1>5, SchedAssumption DEF IInv, TypeOK, Structure, Alive, sch_wakeone, schedule
<1> QED BY <1>5, <1>6, <1>7, <1>8 DEF IInv

\* sch_unsleep of a sleeper, by a caller that changes neither priorities nor
\* the control state.
LEMMA UnsleepKeeps ==
  ASSUME IInv, NEW th \in Threads, Unsleep(th),
         prio' = prio, active_thread' = active_thread,
         \A t \in Threads : Alive(t)' <=> Alive(t)
  PROVE  /\ Queues'
         /\ runq' \in Seq(Threads) /\ resched' \in {0, RESCHED_SWITCH, RESCHED_PREEMPT}
         /\ sleepq' \in [Events -> Seq(Threads)] /\ state' \in [Threads -> SUBSET Flags]
         /\ timeout' \in [Threads -> BOOLEAN] /\ panicked' \in BOOLEAN
         /\ \A t \in Threads : /\ state'[t] \subseteq state[t]
                               /\ state[t] \subseteq state'[t] \cup {"TH_SLEEP"}
         /\ resched # 0 => resched' # 0
         /\ th = active_thread => /\ resched' = resched /\ pended' = pended
                                  /\ "TH_SLEEP" \notin state'[th]
         /\ th # active_thread => pended' = (pended \/ (locks = 0 /\ resched' # 0))
<1>0. PICK e \in Events : \E i \in 1..Len(sleepq[e]) :
        sleepq[e][i] = th /\ Wake(e, i, th # active_thread)
  BY DEF Unsleep
<1>1. PICK i \in 1..Len(sleepq[e]) :
        sleepq[e][i] = th /\ Wake(e, i, th # active_thread)
  BY <1>0
<1>2. (th # active_thread) \in BOOLEAN
  OBVIOUS
<1>3. /\ Queues'
      /\ runq' \in Seq(Threads) /\ resched' \in {0, RESCHED_SWITCH, RESCHED_PREEMPT}
      /\ sleepq' \in [Events -> Seq(Threads)] /\ state' \in [Threads -> SUBSET Flags]
      /\ timeout' \in [Threads -> BOOLEAN] /\ panicked' \in BOOLEAN
      /\ \A t \in Threads : /\ state'[t] \subseteq state[t]
                            /\ state[t] \subseteq state'[t] \cup {"TH_SLEEP"}
      /\ resched # 0 => resched' # 0
  BY Zenon, <1>1, <1>2, WakeKeeps
<1>4. th = active_thread => /\ resched' = resched /\ pended' = pended
                            /\ "TH_SLEEP" \notin state'[th]
  <2>1. pended' = pended \/ th # active_thread
    BY DEF Unsleep
  <2>2. state \in [Threads -> SUBSET Flags]
    BY DEF IInv, TypeOK
  <2> QED BY <1>1, <2>1, <2>2 DEF Wake
<1>5. th # active_thread => pended' = (pended \/ (locks = 0 /\ resched' # 0))
  BY DEF Unsleep, schedule
<1> QED BY <1>3, <1>4, <1>5

\* sleep_expire.
LEMMA ExpireInv ==
  ASSUME IInv, NEW th \in Threads, sleep_expire(th) PROVE IInv'
<1> USE DEF attrs
<1>1. Unsleep(th) /\ prio' = prio /\ active_thread' = active_thread
      /\ \A t \in Threads : Alive(t)' <=> Alive(t)
  BY DEF sleep_expire, Alive
<1>2. /\ Queues'
      /\ runq' \in Seq(Threads) /\ resched' \in {0, RESCHED_SWITCH, RESCHED_PREEMPT}
      /\ sleepq' \in [Events -> Seq(Threads)] /\ state' \in [Threads -> SUBSET Flags]
      /\ timeout' \in [Threads -> BOOLEAN] /\ panicked' \in BOOLEAN
      /\ \A t \in Threads : /\ state'[t] \subseteq state[t]
                            /\ state[t] \subseteq state'[t] \cup {"TH_SLEEP"}
      /\ resched # 0 => resched' # 0
      /\ th = active_thread => /\ resched' = resched /\ pended' = pended
                               /\ "TH_SLEEP" \notin state'[th]
      /\ th # active_thread => pended' = (pended \/ (locks = 0 /\ resched' # 0))
  BY <1>1, UnsleepKeeps
<1>3. TypeOK'
  BY <1>2 DEF IInv, TypeOK, sleep_expire
<1>4. NoLostResched'
  <2>1. CASE th = active_thread
    BY <1>1, <1>2, <2>1 DEF IInv, NoLostResched, sleep_expire
  <2>2. CASE th # active_thread
    <3>1. pended' = (pended \/ (locks = 0 /\ resched' # 0)) /\ (resched # 0 => resched' # 0)
      BY <1>2, <2>2
    <3> QED BY Zenon, <3>1 DEF IInv, NoLostResched, sleep_expire
  <2> QED BY <2>1, <2>2
<1>5. Structure'
  BY <1>2, SchedAssumption DEF IInv, TypeOK, Structure, Alive, sleep_expire
<1> QED BY <1>2, <1>3, <1>4, <1>5 DEF IInv

\* sch_signal.
LEMMA SignalInv ==
  ASSUME IInv, NEW th \in Threads, sch_signal(th) PROVE IInv'
<1>0. /\ prio' = prio /\ policy' = policy /\ pc' = pc /\ active_thread' = active_thread
      /\ locks' = locks /\ waking' = waking
      /\ sigpend' = [sigpend EXCEPT ![th] = TRUE] /\ sigpend' \in [Threads -> BOOLEAN]
      /\ waking = NoEvent
  BY DEF sch_signal, Running, IInv, TypeOK
<1>1. CASE /\ th = active_thread /\ resched' = RESCHED_PREEMPT /\ schedule
           /\ UNCHANGED <<runq, sleepq, state, timeout, panicked>>
  <2>0. resched' # 0 /\ resched' \in {0, RESCHED_SWITCH, RESCHED_PREEMPT}
    BY <1>1 DEF RESCHED_PREEMPT
  <2>1. TypeOK'
    BY <1>0, <1>1, <2>0 DEF IInv, TypeOK, schedule
  <2>2. Queues'
    BY <1>0, <1>1, <2>0, QueuesUnchanged DEF Alive
  <2>3. NoLostResched'
    BY Zenon, <1>0, <1>1, <2>0 DEF IInv, NoLostResched, schedule
  <2>4. Structure'
    BY Zenon, <1>0, <1>1, <2>0 DEF IInv, Structure, Alive, schedule
  <2> QED BY <2>1, <2>2, <2>3, <2>4 DEF IInv
<1>2. CASE th # active_thread /\ Unsleep(th)
  <2>1. /\ Queues'
        /\ runq' \in Seq(Threads) /\ resched' \in {0, RESCHED_SWITCH, RESCHED_PREEMPT}
        /\ sleepq' \in [Events -> Seq(Threads)] /\ state' \in [Threads -> SUBSET Flags]
        /\ timeout' \in [Threads -> BOOLEAN] /\ panicked' \in BOOLEAN
        /\ \A t \in Threads : /\ state'[t] \subseteq state[t]
                              /\ state[t] \subseteq state'[t] \cup {"TH_SLEEP"}
        /\ resched # 0 => resched' # 0
        /\ th # active_thread => pended' = (pended \/ (locks = 0 /\ resched' # 0))
    BY <1>0, <1>2, UnsleepKeeps DEF Alive
  <2>2. TypeOK'
    BY Zenon, <1>0, <1>2, <2>1 DEF IInv, TypeOK
  <2>3. NoLostResched'
    <3>1. pended' = (pended \/ (locks = 0 /\ resched' # 0)) /\ (resched # 0 => resched' # 0)
      BY <1>2, <2>1
    <3> QED BY Zenon, <1>0, <3>1 DEF IInv, NoLostResched
  <2>4. Structure'
    BY <1>0, <1>2, <2>1, SchedAssumption DEF IInv, TypeOK, Structure, Alive
  <2> QED BY <2>1, <2>2, <2>3, <2>4 DEF IInv
<1>3. CASE UNCHANGED <<queues, pended>>
  <2> USE DEF queues
  <2>1. TypeOK'
    BY <1>0, <1>3 DEF IInv, TypeOK
  <2>2. Queues'
    BY <1>0, <1>3, QueuesUnchanged DEF Alive
  <2>3. NoLostResched'
    BY <1>0, <1>3 DEF IInv, NoLostResched
  <2>4. Structure'
    BY <1>0, <1>3 DEF IInv, Structure, Alive
  <2> QED BY <2>1, <2>2, <2>3, <2>4 DEF IInv
<1> QED BY <1>1, <1>2, <1>3 DEF sch_signal

\* sch_requeue: the thread stays on exactly one sleep queue.
LEMMA RequeueInv ==
  ASSUME IInv, NEW l \in Events, NEW r \in Events, sch_requeue(l, r) PROVE IInv'
<1> DEFINE th == Head(sleepq[l])
           ql == Tail(sleepq[l])
           qr == Append(sleepq[r], th)
<1>0. /\ UNCHANGED <<runq, resched, state, timeout, panicked, prio, policy, sigpend, pc,
                     active_thread, locks, pended, waking>>
      /\ l # r /\ sleepq[l] # <<>> /\ sleepq \in [Events -> Seq(Threads)]
      /\ sleepq' = [sleepq EXCEPT ![l] = ql, ![r] = qr]
      /\ SleepqExact
  BY DEF sch_requeue, attrs, IInv, TypeOK, Queues
<1>1. /\ th \in Threads /\ ql \in Seq(Threads) /\ NoDuplicates(ql)
      /\ Queued(sleepq[l], th)
      /\ \A t : Queued(ql, t) <=> Queued(sleepq[l], t) /\ t # th
  BY Zenon, <1>0, DequeueFacts DEF SleepqExact
<1>2. ~Queued(sleepq[r], th)
  BY Zenon, <1>0, <1>1 DEF SleepqExact
<1>3. /\ qr \in Seq(Threads) /\ NoDuplicates(qr)
      /\ \A t : Queued(qr, t) <=> Queued(sleepq[r], t) \/ t = th
  <2>1. sleepq[r] \in Seq(Threads) /\ NoDuplicates(sleepq[r])
    BY Zenon, <1>0 DEF SleepqExact
  <2> QED BY Zenon, <1>1, <1>2, <2>1, AppendFacts
<1> HIDE DEF th, ql, qr
<1>4. /\ sleepq'[l] = ql /\ sleepq'[r] = qr
      /\ \A e \in Events : e # l /\ e # r => sleepq'[e] = sleepq[e]
      /\ sleepq' \in [Events -> Seq(Threads)]
  BY <1>0, <1>1, <1>3
<1>5. \A e \in Events : NoDuplicates(sleepq'[e])
  BY <1>0, <1>1, <1>3, <1>4 DEF SleepqExact
<1>6. \A t \in Threads, e \in Events : t # th =>
        (Queued(sleepq'[e], t) <=> Queued(sleepq[e], t))
  BY <1>1, <1>3, <1>4
<1>7. \A e \in Events : Queued(sleepq'[e], th) <=> e = r
  BY <1>0, <1>1, <1>3, <1>4 DEF SleepqExact
<1>8. SleepqExact'
  <2>1. "TH_SLEEP" \in state[th]
    BY <1>0, <1>1 DEF SleepqExact
  <2> QED BY Zenon, <1>0, <1>1, <1>5, <1>6, <1>7, <2>1, SleepqMoved
<1>9. Queues'
  <2>1. RunqExact' /\ Sorted(runq, prio)' /\ PriorityRespected'
    BY <1>0, RunqUnchanged DEF IInv, Queues, Alive
  <2> QED BY <1>8, <2>1 DEF Queues
<1>10. TypeOK'
  BY Zenon, <1>0, <1>4 DEF IInv, TypeOK
<1>11. NoLostResched' /\ Structure'
  BY <1>0 DEF IInv, NoLostResched, Structure, Alive
<1> QED BY <1>9, <1>10, <1>11 DEF IInv

\* The thread that runs is not asleep outside the sleep protocol.
LEMMA ActiveAwake ==
  ASSUME IInv, ThreadRuns, pc[active_thread] # "prepared"
  PROVE  /\ "TH_SLEEP" \notin state[active_thread]
         /\ \A th \in Threads : pc[th] # "prepared"
         /\ \A th \in Threads : Alive(th) => "TH_ZOMBIE" \notin state[th]
  BY DEF IInv, Structure, ThreadRuns

\* sch_prepare_sleep: the active thread goes on a sleep queue.
LEMMA PrepareInv ==
  ASSUME IInv, NEW e \in Events, NEW timed \in BOOLEAN, sch_prepare_sleep(e, timed)
  PROVE  IInv'
<1> DEFINE th == active_thread
           q == Append(sleepq[e], th)
<1>0. /\ UNCHANGED <<runq, resched, panicked, active_thread, prio, policy, sigpend,
                     pended, waking>>
      /\ ThreadRuns /\ ~pended /\ pc[th] = "run" /\ th # Idle /\ locks < MaxLocks
      /\ state' = [state EXCEPT ![th] = @ \cup {"TH_SLEEP"}]
      /\ sleepq' = [sleepq EXCEPT ![e] = q]
      /\ timeout' = [timeout EXCEPT ![th] = timed]
      /\ locks' = locks + 1
      /\ pc' = [pc EXCEPT ![th] = "prepared"]
  BY DEF sch_prepare_sleep, InKernel, ThreadRuns
<1>1. /\ th \in Threads /\ locks \in 0..MaxLocks /\ sleepq \in [Events -> Seq(Threads)]
      /\ state \in [Threads -> SUBSET Flags] /\ pc \in [Threads -> Places]
      /\ SleepqExact /\ MaxLocks \in Nat
  BY SchedAssumption DEF IInv, TypeOK, Queues
<1>2. /\ "TH_SLEEP" \notin state[th]
      /\ \A t \in Threads : pc[t] # "prepared"
      /\ \A t \in Threads : Alive(t) => "TH_ZOMBIE" \notin state[t]
  BY <1>0, ActiveAwake
<1>3. \A f \in Events : ~Queued(sleepq[f], th)
  BY <1>1, <1>2 DEF SleepqExact
<1>4. /\ q \in Seq(Threads) /\ NoDuplicates(q)
      /\ \A t : Queued(q, t) <=> Queued(sleepq[e], t) \/ t = th
  BY <1>1, <1>3, AppendFacts DEF SleepqExact
<1>5. TypeOK'
  BY <1>0, <1>1, <1>4 DEF IInv, TypeOK, Flags, Places
<1>6. SleepqExact'
  <2> HIDE DEF th, q
  <2>1. /\ sleepq'[e] = q /\ \A f \in Events : f # e => sleepq'[f] = sleepq[f]
        /\ "TH_SLEEP" \in state'[th] /\ \A t \in Threads : t # th => state'[t] = state[t]
    BY <1>0, <1>1
  <2>2. \A f \in Events : NoDuplicates(sleepq'[f])
    BY <1>1, <1>4, <2>1 DEF SleepqExact
  <2>3. \A t \in Threads, f \in Events : t # th =>
          (Queued(sleepq'[f], t) <=> Queued(sleepq[f], t))
    BY <1>4, <2>1
  <2>4. \A f \in Events : Queued(sleepq'[f], th) <=> f = e
    BY <1>3, <1>4, <2>1
  <2> QED BY Zenon, <1>1, <2>1, <2>2, <2>3, <2>4, SleepqMoved
<1>7. Queues'
  <2>1. \A t \in Threads \ {th} : state'[t] = state[t] /\ pc'[t] = pc[t]
    BY <1>0, <1>1
  <2>2. RunqExact' /\ Sorted(runq, prio)' /\ PriorityRespected'
    BY <1>0, <2>1, RunqUnchanged DEF IInv, Queues, Alive
  <2> QED BY <1>6, <2>2 DEF Queues
<1>8. NoLostResched'
  BY <1>0, <1>1 DEF IInv, NoLostResched
<1>9. Structure'
  <2>1. \A t \in Threads \ {th} : state'[t] = state[t] /\ pc'[t] = pc[t]
    BY <1>0, <1>1
  <2>2. pc'[th] = "prepared" /\ state'[th] = state[th] \cup {"TH_SLEEP"}
    BY <1>0, <1>1
  <2> QED BY <1>0, <1>1, <1>2, <2>1, <2>2, SchedAssumption DEF IInv, Structure, Alive
<1> QED BY <1>5, <1>7, <1>8, <1>9 DEF IInv

\* sch_continue_sleep.
LEMMA ContinueInv ==
  ASSUME IInv, sch_continue_sleep PROVE IInv'
<1> DEFINE th == active_thread
<1>0. /\ UNCHANGED <<runq, sleepq, state, timeout, panicked, active_thread, prio, policy,
                     sigpend, waking>>
      /\ ThreadRuns /\ pc[th] = "prepared" /\ locks = 1 /\ locks' = 0
      /\ resched' = IF "TH_SLEEP" \in state[th] THEN RESCHED_SWITCH ELSE resched
      /\ pended' = (resched' # 0)
      /\ pc' = [pc EXCEPT ![th] = "run"]
      /\ th \in Threads /\ pc \in [Threads -> Places] /\ MaxLocks \in Nat
      /\ resched \in {0, RESCHED_SWITCH, RESCHED_PREEMPT} /\ pended = FALSE
  BY SchedAssumption DEF sch_continue_sleep, IInv, TypeOK, ThreadRuns
<1>1. /\ resched' \in {0, RESCHED_SWITCH, RESCHED_PREEMPT} /\ pended' \in BOOLEAN
      /\ resched # 0 => resched' # 0
      /\ "TH_SLEEP" \in state[th] => resched' # 0
      /\ pended' <=> resched' # 0
  <2>1. CASE "TH_SLEEP" \in state[th]
    <3>0. RESCHED_SWITCH # 0
      BY DEF RESCHED_SWITCH
    <3>1. resched' = RESCHED_SWITCH /\ RESCHED_SWITCH # 0
      BY Zenon, <1>0, <2>1, <3>0
    <3>2. pended' = (resched' # 0)
      BY <1>0
    <3> QED BY Zenon, <2>1, <3>1, <3>2
  <2>2. CASE "TH_SLEEP" \notin state[th]
    <3>1. resched' = resched
      BY <1>0, <2>2
    <3> QED BY Zenon, <1>0, <2>2, <3>1
  <2> QED BY <2>1, <2>2
<1>2. pc'[th] = "run" /\ \A t \in Threads \ {th} : pc'[t] = pc[t]
  BY <1>0
<1>3. TypeOK'
  BY <1>0, <1>1 DEF IInv, TypeOK, Places
<1>4. Queues'
  BY <1>0, <1>1, <1>2, QueuesUnchanged DEF Alive
<1>5. NoLostResched'
  BY Zenon, <1>0, <1>1 DEF NoLostResched
<1>6. Structure'
  BY <1>0, <1>1, <1>2 DEF IInv, Structure, Alive
<1> QED BY <1>3, <1>4, <1>5, <1>6 DEF IInv

\* sch_lock.
LEMMA LockInv ==
  ASSUME IInv, sch_lock PROVE IInv'
<1> USE DEF queues, attrs
<1>0. locks \in 0..MaxLocks /\ MaxLocks \in Nat
  BY SchedAssumption DEF IInv, TypeOK
<1>1. TypeOK'
  BY <1>0 DEF IInv, TypeOK, sch_lock
<1>2. Queues'
  BY QueuesUnchanged DEF sch_lock, Alive
<1>3. NoLostResched'
  BY <1>0 DEF IInv, NoLostResched, sch_lock, ThreadRuns
<1>4. Structure'
  BY <1>0 DEF IInv, Structure, Alive, sch_lock
<1> QED BY <1>1, <1>2, <1>3, <1>4 DEF IInv

\* sch_unlock up to the test of resched.
LEMMA UnlockInv ==
  ASSUME IInv, sch_unlock PROVE IInv'
<1> DEFINE th == active_thread
<1>0. /\ UNCHANGED <<runq, resched, sleepq, state, timeout, panicked, active_thread, prio,
                     policy, sigpend, pended, waking>>
      /\ ThreadRuns /\ pended = FALSE /\ locks' = locks - 1
      /\ \/ pc[th] = "run" /\ locks > 0
         \/ pc[th] = "prepared" /\ locks > 1
      /\ pc' = [pc EXCEPT ![th] = IF locks = 1 THEN "unlock" ELSE @]
      /\ th \in Threads /\ pc \in [Threads -> Places]
      /\ locks \in 0..MaxLocks /\ MaxLocks \in Nat
  BY SchedAssumption DEF sch_unlock, queues, IInv, TypeOK, ThreadRuns
<1>1. /\ pc'[th] = (IF locks = 1 THEN "unlock" ELSE pc[th])
      /\ \A t \in Threads \ {th} : pc'[t] = pc[t]
  BY <1>0
<1>2. TypeOK'
  BY <1>0 DEF IInv, TypeOK, Places
<1>3. Queues'
  BY <1>0, <1>1, QueuesUnchanged DEF Alive
<1>4. NoLostResched'
  BY <1>0, <1>1 DEF IInv, NoLostResched
<1>5. Structure'
  BY <1>0, <1>1 DEF IInv, Structure, Alive
<1> QED BY <1>2, <1>3, <1>4, <1>5 DEF IInv

\* sch_unlock after locks dropped to 0.
LEMMA UnlockCheckInv ==
  ASSUME IInv, UnlockCheck PROVE IInv'
<1> DEFINE th == active_thread
<1>0. /\ UNCHANGED <<runq, resched, sleepq, state, timeout, panicked, active_thread, prio,
                     policy, sigpend, locks, waking>>
      /\ ThreadRuns /\ pended = FALSE /\ pc[th] = "unlock"
      /\ pended' = (resched # 0) /\ pc' = [pc EXCEPT ![th] = "run"]
      /\ th \in Threads /\ pc \in [Threads -> Places] /\ locks = 0
  BY DEF UnlockCheck, queues, IInv, TypeOK, ThreadRuns, Structure
<1>1. pc'[th] = "run" /\ \A t \in Threads \ {th} : pc'[t] = pc[t]
  BY <1>0
<1>2. TypeOK'
  BY <1>0 DEF IInv, TypeOK, Places
<1>3. Queues'
  BY <1>0, <1>1, QueuesUnchanged DEF Alive
<1>4. NoLostResched'
  BY Zenon, <1>0, <1>1 DEF IInv, NoLostResched
<1>5. Structure'
  BY <1>0, <1>1 DEF IInv, Structure, Alive
<1> QED BY <1>2, <1>3, <1>4, <1>5 DEF IInv

\* sch_cancel_sleep: the thread leaves the sleep protocol, awake.
LEMMA CancelInv ==
  ASSUME IInv, sch_cancel_sleep PROVE IInv'
<1> DEFINE th == active_thread
<1>0. /\ ThreadRuns /\ pended = FALSE /\ pc[th] = "prepared"
      /\ locks' = locks - 1
      /\ pc' = [pc EXCEPT ![th] = AfterUnlock]
      /\ UNCHANGED <<active_thread, prio, policy, sigpend, waking>>
      /\ th \in Threads /\ pc \in [Threads -> Places] /\ state \in [Threads -> SUBSET Flags]
      /\ locks \in 0..MaxLocks /\ MaxLocks \in Nat /\ locks > 0
  BY SchedAssumption DEF sch_cancel_sleep, IInv, TypeOK, ThreadRuns, Structure
<1>1. /\ pc'[th] = (IF locks = 1 THEN "unlock" ELSE "run")
      /\ \A t \in Threads \ {th} : pc'[t] = pc[t]
  BY <1>0 DEF AfterUnlock
<1>2. CASE "TH_SLEEP" \notin state[th] /\ UNCHANGED <<queues, pended>>
  <2> USE DEF queues
  <2>1. TypeOK'
    <3>1. locks' \in 0..MaxLocks  BY <1>0
    <3>2. pc' \in [Threads -> Places]  BY <1>0 DEF Places, AfterUnlock
    <3> QED BY Zenon, <1>0, <1>2, <3>1, <3>2 DEF IInv, TypeOK
  <2>2. Queues'
    BY <1>0, <1>1, <1>2, QueuesUnchanged DEF Alive
  <2>3. NoLostResched'
    BY <1>0, <1>1, <1>2 DEF IInv, NoLostResched
  <2>4. Structure'
    BY <1>0, <1>1, <1>2 DEF IInv, Structure, Alive
  <2> QED BY <2>1, <2>2, <2>3, <2>4 DEF IInv
<1>3. CASE Unsleep(th)
  <2>1. /\ Queues'
        /\ runq' \in Seq(Threads) /\ resched' \in {0, RESCHED_SWITCH, RESCHED_PREEMPT}
        /\ sleepq' \in [Events -> Seq(Threads)] /\ state' \in [Threads -> SUBSET Flags]
        /\ timeout' \in [Threads -> BOOLEAN] /\ panicked' \in BOOLEAN
        /\ \A t \in Threads : /\ state'[t] \subseteq state[t]
                              /\ state[t] \subseteq state'[t] \cup {"TH_SLEEP"}
        /\ resched # 0 => resched' # 0
        /\ resched' = resched /\ pended' = pended
        /\ "TH_SLEEP" \notin state'[th]
    BY <1>0, <1>1, <1>3, UnsleepKeeps DEF Alive
  <2>2. TypeOK'
    <3>1. pc' \in [Threads -> Places] /\ locks' \in 0..MaxLocks /\ pended' \in BOOLEAN
      <4>1. pended' \in BOOLEAN
        BY Zenon, <1>0, <2>1
      <4>2. locks' \in 0..MaxLocks
        BY <1>0
      <4>3. pc' \in [Threads -> Places]
        BY <1>0 DEF Places, AfterUnlock
      <4> QED BY <4>1, <4>2, <4>3
    <3>2. /\ active_thread' \in Threads /\ prio' \in [Threads -> Prio \cup {IdlePrio}]
          /\ policy' \in [Threads -> {"SCHED_RR", "SCHED_FIFO"}]
          /\ sigpend' \in [Threads -> BOOLEAN] /\ waking' \in Events \cup {NoEvent}
      BY <1>0 DEF IInv, TypeOK
    <3> QED BY <2>1, <3>1, <3>2 DEF TypeOK
  <2>3. NoLostResched'
    BY <1>0, <1>1, <2>1 DEF IInv, NoLostResched
  <2>4. Structure'
    BY <1>0, <1>1, <2>1, SchedAssumption DEF IInv, Structure, Alive
  <2> QED BY <2>1, <2>2, <2>3, <2>4 DEF IInv
<1> QED BY <1>2, <1>3 DEF sch_cancel_sleep

\* sched_yield and sch_elapse ask for a switch.
LEMMA AskSwitchInv ==
  ASSUME IInv, Running, resched' = RESCHED_SWITCH, schedule,
         UNCHANGED <<runq, sleepq, state, timeout, panicked, attrs, active_thread, locks,
                     waking>>
  PROVE  IInv'
<1>0. resched' # 0 /\ resched' \in {0, RESCHED_SWITCH, RESCHED_PREEMPT}
  BY DEF RESCHED_SWITCH
<1>1. TypeOK'
  BY <1>0 DEF IInv, TypeOK, schedule, attrs
<1>2. Queues'
  BY <1>0, QueuesUnchanged DEF Alive, attrs
<1>3. NoLostResched'
  BY Zenon, <1>0 DEF IInv, NoLostResched, schedule, attrs
<1>4. Structure'
  BY Zenon, <1>0 DEF IInv, Structure, Alive, schedule, attrs
<1> QED BY <1>1, <1>2, <1>3, <1>4 DEF IInv

\* sched_yield.
LEMMA YieldInv ==
  ASSUME IInv, sched_yield PROVE IInv'
<1>1. schedule
  <2>1. locks = 0 /\ resched' # 0 /\ pended' = TRUE
    BY DEF sched_yield, RESCHED_SWITCH
  <2>2. (pended \/ (locks = 0 /\ resched' # 0)) = TRUE
    BY <2>1, Zenon
  <2> QED BY Zenon, <2>1, <2>2 DEF schedule
<1> QED BY <1>1, AskSwitchInv DEF sched_yield, InKernel, ThreadRuns

\* sch_elapse.
LEMMA ElapseInv ==
  ASSUME IInv, sch_elapse PROVE IInv'
  BY AskSwitchInv DEF sch_elapse

\* sch_setpolicy and sig_deliver touch neither queue nor flag.
LEMMA AttrsInv ==
  ASSUME IInv, policy' \in [Threads -> {"SCHED_RR", "SCHED_FIFO"}],
         sigpend' \in [Threads -> BOOLEAN],
         UNCHANGED <<queues, prio, pc, active_thread, locks, pended, waking>>
  PROVE  IInv'
<1> USE DEF queues
<1>1. TypeOK'
  BY DEF IInv, TypeOK
<1>2. Queues'
  BY QueuesUnchanged DEF Alive
<1>3. NoLostResched' /\ Structure'
  BY DEF IInv, NoLostResched, Structure, Alive
<1> QED BY <1>1, <1>2, <1>3 DEF IInv

\* sch_setpolicy.
LEMMA SetpolicyInv ==
  ASSUME IInv, NEW th \in Threads, NEW pol \in Policies, sch_setpolicy(th, pol) PROVE IInv'
<1>1. /\ policy' \in [Threads -> {"SCHED_RR", "SCHED_FIFO"}]
      /\ sigpend' \in [Threads -> BOOLEAN]
  BY SchedAssumption DEF IInv, TypeOK, sch_setpolicy
<1> QED BY <1>1, AttrsInv DEF sch_setpolicy

\* sig_deliver.
LEMMA DeliverInv ==
  ASSUME IInv, sig_deliver PROVE IInv'
<1>1. /\ policy' \in [Threads -> {"SCHED_RR", "SCHED_FIFO"}]
      /\ sigpend' \in [Threads -> BOOLEAN]
  BY DEF IInv, TypeOK, sig_deliver
<1> QED BY <1>1, AttrsInv DEF sig_deliver

\* sch_stop: TH_EXIT is none of the flags the queues depend on.
LEMMA StopInv ==
  ASSUME IInv, NEW th \in Threads, sch_stop(th) PROVE IInv'
<1>0. /\ UNCHANGED <<runq, resched, sleepq, timeout, panicked, prio, policy, sigpend, pc,
                     active_thread, locks, pended, waking>>
      /\ th # Idle /\ state' = [state EXCEPT ![th] = @ \cup {"TH_EXIT"}]
      /\ state \in [Threads -> SUBSET Flags]
  BY DEF sch_stop, AddFlag, attrs, IInv, TypeOK
<1>1. /\ state' \in [Threads -> SUBSET Flags] /\ state'[Idle] = state[Idle]
      /\ \A t \in Threads : state'[t] \ {"TH_EXIT"} = state[t] \ {"TH_EXIT"}
  BY <1>0, SchedAssumption DEF Flags
<1>2. \A t \in Threads : /\ thread_runnable(state'[t]) <=> thread_runnable(state[t])
                         /\ "TH_SLEEP" \in state'[t] <=> "TH_SLEEP" \in state[t]
                         /\ "TH_SUSPEND" \in state'[t] <=> "TH_SUSPEND" \in state[t]
                         /\ "TH_ZOMBIE" \in state'[t] <=> "TH_ZOMBIE" \in state[t]
  BY <1>1, RunnableFlags
<1>3. TypeOK'
  BY <1>0, <1>1 DEF IInv, TypeOK
<1>4. Queues'
  BY <1>0, <1>2, RunqUnchanged, SleepqUnchanged DEF IInv, Queues, Alive
<1>5. NoLostResched'
  BY <1>0 DEF IInv, NoLostResched
<1>6. Structure'
  BY <1>0, <1>1, <1>2 DEF IInv, TypeOK, Structure, Alive
<1> QED BY <1>3, <1>4, <1>5, <1>6 DEF IInv

\* sch_testexit: the active thread becomes a zombie and asks for a switch.
LEMMA TestexitInv ==
  ASSUME IInv, sch_testexit PROVE IInv'
<1> DEFINE th == active_thread
<1>0. /\ UNCHANGED <<runq, sleepq, timeout, panicked, prio, policy, sigpend, pc,
                     active_thread, locks, waking>>
      /\ ThreadRuns /\ pc[th] = "run" /\ locks = 0 /\ "TH_EXIT" \in state[th]
      /\ state' = [state EXCEPT ![th] = @ \cup {"TH_ZOMBIE"}]
      /\ resched' = RESCHED_SWITCH /\ pended' = TRUE
      /\ th \in Threads /\ state \in [Threads -> SUBSET Flags] /\ state[Idle] = {}
  BY DEF sch_testexit, InKernel, AddFlag, attrs, IInv, TypeOK, Structure
<1>1. resched' # 0 /\ resched' \in {0, RESCHED_SWITCH, RESCHED_PREEMPT} /\ th # Idle
  BY <1>0 DEF RESCHED_SWITCH
<1>2. /\ state' \in [Threads -> SUBSET Flags]
      /\ \A t \in Threads \ {th} : state'[t] = state[t]
      /\ state'[th] = state[th] \cup {"TH_ZOMBIE"}
  BY <1>0 DEF Flags
<1>3. "TH_SLEEP" \notin state[th]
  BY <1>0, ActiveAwake
<1>4. TypeOK'
  BY <1>0, <1>1, <1>2 DEF IInv, TypeOK
<1>5. Queues'
  BY <1>0, <1>1, <1>2, RunqUnchanged, SleepqUnchanged DEF IInv, Queues, Alive
<1>6. NoLostResched'
  BY <1>0, <1>1 DEF NoLostResched
<1>7. Structure'
  BY <1>0, <1>1, <1>2, <1>3, SchedAssumption DEF IInv, Structure, Alive, ThreadRuns
<1> QED BY <1>4, <1>5, <1>6, <1>7 DEF IInv

\* sch_suspend: a ready thread leaves the run queue, the active thread asks for
\* a switch.
LEMMA SuspendInv ==
  ASSUME IInv, NEW th \in Threads, sch_suspend(th) PROVE IInv'
<1>0. /\ UNCHANGED <<sleepq, timeout, panicked, prio, policy, sigpend, pc, active_thread,
                     locks, waking>>
      /\ ThreadRuns /\ pended = FALSE /\ waking = NoEvent
      /\ pc[active_thread] = "run" /\ Alive(th) /\ th # Idle
      /\ resched' = IF th = active_thread THEN RESCHED_SWITCH ELSE resched
      /\ state' = [state EXCEPT ![th] = @ \cup {"TH_SUSPEND"}]
      /\ pended' = (pended \/ (locks = 0 /\ resched' # 0))
      /\ \/ /\ th # active_thread /\ thread_runnable(state[th])
            /\ runq' \in RemoveResults(runq, th)
         \/ /\ th = active_thread \/ ~thread_runnable(state[th])
            /\ UNCHANGED runq
  BY SchedAssumption DEF sch_suspend, CanSuspend, AddFlag, attrs, InKernel, ThreadRuns,
     Running, schedule, IInv, TypeOK
<1>1. /\ TypeOK /\ state \in [Threads -> SUBSET Flags] /\ active_thread \in Threads
      /\ RunqExact /\ Sorted(runq, prio) /\ SleepqExact /\ PriorityRespected
      /\ prio \in [Threads -> Nat] /\ runq \in Seq(Threads)
  BY PrioType DEF IInv, TypeOK, Queues
<1>2. /\ state' \in [Threads -> SUBSET Flags]
      /\ \A t \in Threads \ {th} : state'[t] = state[t]
      /\ state'[th] = state[th] \cup {"TH_SUSPEND"} /\ ~thread_runnable(state'[th])
  BY <1>0, <1>1, RunnableFlags DEF Flags
<1>3. /\ resched' \in {0, RESCHED_SWITCH, RESCHED_PREEMPT} /\ (resched # 0 => resched' # 0)
      /\ th = active_thread => resched' # 0
  <2>1. RESCHED_SWITCH # 0 /\ resched \in {0, RESCHED_SWITCH, RESCHED_PREEMPT}
    BY <1>1 DEF TypeOK, RESCHED_SWITCH
  <2> QED BY <1>0, <2>1
<1>4. SleepqExact'
  BY <1>0, <1>1, <1>2, SleepqUnchanged
<1>5. RunqExact' /\ Sorted(runq, prio)' /\ PriorityRespected' /\ runq' \in Seq(Threads)
  <2>1. CASE runq' = runq
    <3>1. \A t \in Threads \ {active_thread} :
           Alive(t)' /\ thread_runnable(state'[t]) <=> Alive(t) /\ thread_runnable(state[t])
      <4>1. th # active_thread => ~thread_runnable(state[th])
        <5>1. CASE runq' \in RemoveResults(runq, th)
          <6>1. \A t : Queued(runq', t) <=> Queued(runq, t) /\ t # th
            BY <1>1, <5>1, RemoveFacts DEF RunqExact
          <6> QED BY <1>0, <1>1, <2>1, <6>1 DEF RunqExact, Ready
        <5> QED BY <1>0, <5>1
      <4> QED BY <1>0, <1>2, <4>1 DEF Alive
    <3> QED BY Zenon, <1>0, <1>1, <1>3, <2>1, <3>1, RunqUnchanged
  <2>2. CASE /\ th # active_thread /\ thread_runnable(state[th])
             /\ runq' \in RemoveResults(runq, th)
    <3>1. /\ runq' \in Seq(Threads) /\ NoDuplicates(runq') /\ Sorted(runq', prio)
          /\ \A t : Queued(runq', t) <=> Queued(runq, t) /\ t # th
      BY <1>1, <2>2, RemoveFacts DEF RunqExact
    <3>2. RunqExact'
      BY Zenon, <1>0, <1>1, <1>2, <3>1 DEF RunqExact, Ready, Alive
    <3>3. PriorityRespected'
      BY <1>0, <1>1, <1>3, <3>1 DEF PriorityRespected
    <3>4. Sorted(runq, prio)'
      BY <1>0, <3>1
    <3> QED BY <3>1, <3>2, <3>3, <3>4
  <2> QED BY <1>0, <2>1, <2>2
<1>6. Queues'
  BY <1>4, <1>5 DEF Queues
<1>7. TypeOK'
  <2>1. pended' \in BOOLEAN  BY <1>0
  <2> QED BY Zenon, <1>0, <1>1, <1>2, <1>3, <1>5, <2>1 DEF TypeOK
<1>8. NoLostResched'
  BY Zenon, <1>0, <1>3 DEF IInv, NoLostResched
<1>9. Structure'
  <2>1. /\ "TH_SLEEP" \notin state[active_thread]
        /\ \A t \in Threads : pc[t] # "prepared"
        /\ \A t \in Threads : Alive(t) => "TH_ZOMBIE" \notin state[t]
    BY <1>0, ActiveAwake
  <2>2. \A t \in Threads : /\ "TH_SLEEP" \in state'[t] <=> "TH_SLEEP" \in state[t]
                           /\ "TH_ZOMBIE" \in state'[t] <=> "TH_ZOMBIE" \in state[t]
    BY <1>1, <1>2
  <2> QED BY Zenon, <1>0, <1>1, <1>2, <1>3, <2>1, <2>2, SchedAssumption DEF IInv, Structure, Alive
<1> QED BY <1>6, <1>7, <1>8, <1>9 DEF IInv

\* sch_resume: the thread goes back on the run queue unless it still sleeps.
LEMMA ResumeInv ==
  ASSUME IInv, NEW th \in Threads, sch_resume(th) PROVE IInv'
<1> DEFINE flags == state[th] \ {"TH_SUSPEND"}
<1>0. /\ UNCHANGED <<sleepq, timeout, panicked, prio, policy, sigpend, pc, active_thread,
                     locks, waking>>
      /\ ThreadRuns /\ pended = FALSE /\ pc[active_thread] = "run" /\ waking = NoEvent
      /\ Alive(th) /\ "TH_SUSPEND" \in state[th]
      /\ state' = [state EXCEPT ![th] = flags]
      /\ \/ /\ thread_runnable(flags) /\ th # active_thread
            /\ runq_enqueue(runq, prio, th) /\ schedule
         \/ /\ ~thread_runnable(flags) \/ th = active_thread
            /\ UNCHANGED <<runq, resched, pended>>
  BY DEF sch_resume, CanResume, attrs, InKernel, ThreadRuns, Running, IInv, TypeOK
<1>1. /\ TypeOK /\ state \in [Threads -> SUBSET Flags] /\ active_thread \in Threads
      /\ RunqExact /\ Sorted(runq, prio) /\ SleepqExact /\ PriorityRespected
  BY DEF IInv, TypeOK, Queues
<1>2. /\ state' \in [Threads -> SUBSET Flags]
      /\ \A t \in Threads \ {th} : state'[t] = state[t]
      /\ state'[th] = flags
  BY <1>0, <1>1 DEF Flags
<1>3. SleepqExact'
  BY <1>0, <1>1, <1>2, SleepqUnchanged
<1>4. /\ RunqExact' /\ Sorted(runq, prio)' /\ PriorityRespected' /\ runq' \in Seq(Threads)
      /\ resched' \in {0, RESCHED_SWITCH, RESCHED_PREEMPT} /\ (resched # 0 => resched' # 0)
  <2>1. CASE /\ thread_runnable(flags) /\ th # active_thread
             /\ runq_enqueue(runq, prio, th)
    <3>1. /\ runq' \in EnqueueResults(runq, prio, th)
          /\ resched' = IF prio[th] < prio[active_thread] /\ resched = 0
                        THEN RESCHED_PREEMPT ELSE resched
      BY <2>1 DEF runq_enqueue
    <3>2. ~Ready(th) /\ \A t \in Threads : Alive(t)' <=> Alive(t)
      BY <1>0, RunnableFlags DEF Ready, Alive
    <3>3. /\ RunqExact' /\ Sorted(runq, prio)' /\ runq' \in Seq(Threads)
          /\ \A t : Queued(runq', t) <=> Queued(runq, t) \/ t = th
      BY Zenon, <1>0, <1>1, <1>2, <2>1, <3>1, <3>2, EnqueueReady
    <3>4. /\ PriorityRespected' /\ resched' \in {0, RESCHED_SWITCH, RESCHED_PREEMPT}
          /\ resched # 0 => resched' # 0
      BY Zenon, <1>0, <1>1, <3>1, <3>3, EnqueuePriority
    <3> QED BY <3>3, <3>4
  <2>2. CASE /\ ~thread_runnable(flags) \/ th = active_thread
             /\ UNCHANGED <<runq, resched>>
    <3>1. \A t \in Threads \ {active_thread} :
           Alive(t)' /\ thread_runnable(state'[t]) <=> Alive(t) /\ thread_runnable(state[t])
      BY <1>0, <1>2, <2>2, RunnableFlags DEF Alive
    <3> QED BY Zenon, <1>0, <1>1, <2>2, <3>1, RunqUnchanged DEF TypeOK
  <2> QED BY <1>0, <2>1, <2>2
<1>5. Queues'
  BY <1>3, <1>4 DEF Queues
<1>6. pended' \in BOOLEAN /\ (pended' => locks = 0 /\ resched' # 0)
      /\ ((resched' # 0 /\ locks = 0) => pended' \/ pc[active_thread] = "unlock")
  <2>1. CASE schedule
    BY Zenon, <1>0, <2>1 DEF schedule
  <2>2. CASE UNCHANGED <<resched, pended>>
    BY Zenon, <1>0, <1>1, <2>2 DEF IInv, NoLostResched
  <2> QED BY <1>0, <2>1, <2>2
<1>7. TypeOK'
  BY Zenon, <1>0, <1>1, <1>2, <1>4, <1>6 DEF TypeOK
<1>8. NoLostResched'
  BY <1>0, <1>6 DEF NoLostResched
<1>9. Structure'
  <2>1. /\ "TH_SLEEP" \notin state[active_thread]
        /\ \A t \in Threads : pc[t] # "prepared"
        /\ \A t \in Threads : Alive(t) => "TH_ZOMBIE" \notin state[t]
    BY <1>0, ActiveAwake
  <2>2. \A t \in Threads : /\ "TH_SLEEP" \in state'[t] <=> "TH_SLEEP" \in state[t]
                           /\ "TH_ZOMBIE" \in state'[t] <=> "TH_ZOMBIE" \in state[t]
                           /\ "TH_SUSPEND" \in state'[t] => "TH_SUSPEND" \in state[t]
                           /\ state[t] = {} => state'[t] = {}
    BY <1>1, <1>2
  <2> QED BY <1>0, <1>1, <1>4, <2>1, <2>2, SchedAssumption DEF IInv, Structure, Alive
<1> QED BY <1>5, <1>7, <1>8, <1>9 DEF IInv

\* sch_suspend_resume: the active thread is suspended, th becomes ready.
LEMMA SuspendResumeInv ==
  ASSUME IInv, NEW th \in Threads, sch_suspend_resume(th) PROVE IInv'
<1> DEFINE at == active_thread
<1>0. /\ UNCHANGED <<sleepq, timeout, panicked, prio, policy, sigpend, pc, active_thread,
                     locks, waking>>
      /\ ThreadRuns /\ pended = FALSE /\ pc[at] = "run" /\ waking = NoEvent
      /\ at # Idle /\ Alive(th) /\ "TH_SUSPEND" \in state[th] /\ th # at
      /\ thread_runnable(state[th] \ {"TH_SUSPEND"})
      /\ state' = [state EXCEPT ![at] = @ \cup {"TH_SUSPEND"}, ![th] = @ \ {"TH_SUSPEND"}]
      /\ resched' = RESCHED_SWITCH
      /\ runq' \in EnqueueResults(runq, prio, th)
      /\ pended' = (pended \/ (locks = 0 /\ resched' # 0))
  BY SchedAssumption DEF sch_suspend_resume, CanSuspend, CanResume, attrs, InKernel,
     ThreadRuns, Running, schedule, IInv, TypeOK
<1>1. /\ TypeOK /\ state \in [Threads -> SUBSET Flags] /\ at \in Threads
      /\ RunqExact /\ Sorted(runq, prio) /\ SleepqExact
  BY DEF IInv, TypeOK, Queues
<1>2. /\ state' \in [Threads -> SUBSET Flags]
      /\ \A t \in Threads \ {th, at} : state'[t] = state[t]
      /\ state'[th] = state[th] \ {"TH_SUSPEND"}
      /\ state'[at] = state[at] \cup {"TH_SUSPEND"}
  BY <1>0, <1>1 DEF Flags
<1>3. resched' # 0 /\ resched' \in {0, RESCHED_SWITCH, RESCHED_PREEMPT}
  BY <1>0 DEF RESCHED_SWITCH
<1>4. SleepqExact'
  <2>1. \A t \in Threads : "TH_SLEEP" \in state'[t] <=> "TH_SLEEP" \in state[t]
    BY <1>1, <1>2
  <2> QED BY <1>0, <1>1, <2>1, SleepqUnchanged
<1>5. RunqExact' /\ Sorted(runq, prio)' /\ runq' \in Seq(Threads)
  <2>1. ~Ready(th) /\ \A t \in Threads : Alive(t)' <=> Alive(t)
    BY <1>0, RunnableFlags DEF Ready, Alive
  <2> QED BY Zenon, <1>0, <1>1, <1>2, <2>1, EnqueueReady
<1>6. Queues'
  BY <1>3, <1>4, <1>5 DEF Queues, PriorityRespected
<1>7. TypeOK'
  <2>1. pended' \in BOOLEAN  BY <1>0
  <2> QED BY Zenon, <1>0, <1>1, <1>2, <1>3, <1>5, <2>1 DEF TypeOK
<1>8. NoLostResched'
  BY Zenon, <1>0, <1>3 DEF NoLostResched
<1>9. Structure'
  <2>1. /\ "TH_SLEEP" \notin state[active_thread]
        /\ \A t \in Threads : pc[t] # "prepared"
        /\ \A t \in Threads : Alive(t) => "TH_ZOMBIE" \notin state[t]
    BY <1>0, ActiveAwake
  <2>2. \A t \in Threads : /\ "TH_SLEEP" \in state'[t] <=> "TH_SLEEP" \in state[t]
                           /\ "TH_ZOMBIE" \in state'[t] <=> "TH_ZOMBIE" \in state[t]
    BY <1>1, <1>2
  <2>3. th # Idle
    BY <1>0 DEF IInv, Structure
  <2>4. state'[Idle] = state[Idle]
    BY <1>0, <1>2, <2>3, SchedAssumption
  <2> QED BY <1>0, <1>1, <1>3, <2>1, <2>2, <2>4, SchedAssumption DEF IInv, Structure, Alive
<1> QED BY <1>6, <1>7, <1>8, <1>9 DEF IInv

\* A failing assertion stops the machine and changes nothing else.
LEMMA SuspendAssertsInv ==
  ASSUME IInv, NEW th \in Threads, SuspendAsserts(th) PROVE IInv'
<1>1. /\ UNCHANGED <<runq, resched, sleepq, state, timeout, prio, policy, sigpend, pc,
                     active_thread, locks, pended, waking>>
      /\ panicked' \in BOOLEAN
  BY DEF SuspendAsserts, attrs
<1> QED BY <1>1 DEF IInv, TypeOK, Queues, RunqExact, SleepqExact, PriorityRespected,
           NoLostResched, Structure, Ready, Alive

\* sch_setprio: a ready thread is queued again at its new priority.
LEMMA SetprioInv ==
  ASSUME IInv, NEW th \in Threads, NEW p \in Prio, sch_setprio(th, p) PROVE IInv'
<1> DEFINE at == active_thread
<1>0. /\ UNCHANGED <<sleepq, state, timeout, panicked, policy, sigpend, pc, active_thread,
                     locks, waking>>
      /\ pended = FALSE /\ waking = NoEvent /\ Alive(th)
      /\ prio' = [prio EXCEPT ![th] = p]
      /\ pended' = (pended \/ (locks = 0 /\ resched' # 0))
      /\ \/ /\ th = at
            /\ resched' = IF resched = 0 /\ runq # <<>> /\ prio[Head(runq)] < p
                          THEN RESCHED_PREEMPT ELSE resched
            /\ UNCHANGED runq
         \/ /\ th # at /\ thread_runnable(state[th])
            /\ \E q \in RemoveResults(runq, th) : runq_enqueue(q, prio', th)
         \/ /\ th # at /\ ~thread_runnable(state[th])
            /\ UNCHANGED <<runq, resched>>
  BY Zenon DEF sch_setprio, InKernel, ThreadRuns, Running, schedule, IInv, TypeOK
<1>1. /\ TypeOK /\ at \in Threads /\ runq \in Seq(Threads)
      /\ RunqExact /\ Sorted(runq, prio) /\ SleepqExact /\ PriorityRespected
      /\ prio \in [Threads -> Nat] /\ p \in Nat /\ NoDuplicates(runq)
      /\ resched \in {0, RESCHED_SWITCH, RESCHED_PREEMPT}
  BY PrioType, SchedAssumption DEF IInv, TypeOK, Queues, RunqExact
<1>2. /\ prio' \in [Threads -> Nat] /\ prio' \in [Threads -> Prio \cup {IdlePrio}]
      /\ prio'[th] = p /\ \A t \in Threads \ {th} : prio'[t] = prio[t]
  BY <1>0, <1>1 DEF TypeOK
<1>3. \A t \in Threads : Ready(t)' <=> Ready(t)
  BY <1>0 DEF Ready, Alive
<1>4. /\ runq' \in Seq(Threads) /\ RunqExact' /\ Sorted(runq, prio)' /\ PriorityRespected'
      /\ resched' \in {0, RESCHED_SWITCH, RESCHED_PREEMPT} /\ (resched # 0 => resched' # 0)
  <2>1. CASE /\ th = at
             /\ resched' = IF resched = 0 /\ runq # <<>> /\ prio[Head(runq)] < p
                           THEN RESCHED_PREEMPT ELSE resched
             /\ UNCHANGED runq
    <3>1. ~Queued(runq, th)
      BY <1>1, <2>1 DEF RunqExact, Ready
    <3>2. Sorted(runq, prio)'
      BY Zenon, <1>0, <1>1, <2>1, <3>1, SortedOther
    <3>3. resched' \in {0, RESCHED_SWITCH, RESCHED_PREEMPT} /\ (resched # 0 => resched' # 0)
      BY <1>1, <2>1 DEF RESCHED_PREEMPT
    <3>4. ASSUME resched' = 0, NEW t \in Threads, Queued(runq, t)
          PROVE  prio'[at] <= prio'[t]
      <4>1. runq # <<>>
        BY <3>4, EmptySeq DEF Queued
      <4>2. Head(runq) \in Threads /\ prio[Head(runq)] <= prio[t]
        BY <1>1, <3>4, <4>1, DequeueFacts
      <4>3. resched = 0 /\ ~(prio[Head(runq)] < p)
        BY <1>1, <2>1, <3>4, <4>1 DEF RESCHED_PREEMPT
      <4>4. prio'[at] = p /\ prio'[t] = prio[t]
        BY <1>2, <2>1, <3>1, <3>4
      <4> QED BY <1>1, <4>2, <4>3, <4>4
    <3>5. RunqExact'
      BY <1>1, <1>3, <2>1 DEF RunqExact
    <3> QED BY <1>0, <1>1, <2>1, <3>2, <3>3, <3>4, <3>5 DEF PriorityRespected
  <2>2. CASE /\ th # at /\ thread_runnable(state[th])
             /\ \E q \in RemoveResults(runq, th) : runq_enqueue(q, prio', th)
    <3>1. PICK q \in RemoveResults(runq, th) : runq_enqueue(q, prio', th)
      BY <2>2
    <3>2. /\ q \in Seq(Threads) /\ NoDuplicates(q) /\ Sorted(q, prio)
          /\ \A t : Queued(q, t) <=> Queued(runq, t) /\ t # th
      BY <1>1, RemoveFacts
    <3>3. Sorted(q, prio')
      BY Zenon, <1>0, <1>1, <3>2, SortedOther
    <3>4. /\ runq' \in EnqueueResults(q, prio', th)
          /\ resched' = IF prio'[th] < prio'[at] /\ resched = 0
                        THEN RESCHED_PREEMPT ELSE resched
      BY <3>1 DEF runq_enqueue
    <3>5. /\ runq' \in Seq(Threads) /\ NoDuplicates(runq') /\ Sorted(runq', prio')
          /\ \A t : Queued(runq', t) <=> Queued(q, t) \/ t = th
      BY <1>2, <3>2, <3>3, <3>4, EnqueueFacts
    <3>6. \A t \in Threads : Queued(runq', t) <=> Queued(runq, t)
      BY <1>0, <1>1, <2>2, <3>2, <3>5 DEF RunqExact, Ready
    <3>7. RunqExact'
      BY <1>1, <1>3, <3>5, <3>6 DEF RunqExact
    <3>8. resched' \in {0, RESCHED_SWITCH, RESCHED_PREEMPT} /\ (resched # 0 => resched' # 0)
      BY <1>1, <3>4 DEF RESCHED_PREEMPT
    <3>9. ASSUME resched' = 0, NEW t \in Threads, Queued(runq', t)
          PROVE  prio'[at] <= prio'[t]
      <4>1. resched = 0 /\ ~(prio'[th] < prio'[at])
        BY <1>1, <3>4, <3>9 DEF RESCHED_PREEMPT
      <4>2. CASE t = th  BY <1>1, <1>2, <4>1, <4>2
      <4>3. CASE t # th
        <5>1. prio[at] <= prio[t]
          BY <1>1, <3>6, <3>9, <4>1 DEF PriorityRespected
        <5> QED BY <1>1, <1>2, <2>2, <4>3, <5>1
      <4> QED BY <4>2, <4>3
    <3> QED BY <1>0, <3>5, <3>7, <3>8, <3>9 DEF PriorityRespected
  <2>3. CASE th # at /\ ~thread_runnable(state[th]) /\ UNCHANGED <<runq, resched>>
    <3>1. ~Queued(runq, th)
      BY <1>1, <2>3 DEF RunqExact, Ready
    <3>2. Sorted(runq, prio)'
      BY Zenon, <1>0, <1>1, <2>3, <3>1, SortedOther
    <3>3. RunqExact'
      BY <1>1, <1>3, <2>3 DEF RunqExact
    <3>4. PriorityRespected'
      BY <1>0, <1>1, <1>2, <2>3, <3>1 DEF PriorityRespected
    <3> QED BY <1>1, <2>3, <3>2, <3>3, <3>4
  <2> QED BY Zenon, <1>0, <2>1, <2>2, <2>3
<1>5. SleepqExact'
  BY Zenon, <1>0, <1>1, SleepqUnchanged
<1>6. Queues'
  BY <1>4, <1>5 DEF Queues
<1>7. TypeOK'
  <2>1. pended' \in BOOLEAN  BY <1>0
  <2> QED BY <1>0, <1>1, <1>2, <1>4, <2>1 DEF TypeOK
<1>8. NoLostResched'
  BY Zenon, <1>0 DEF NoLostResched
<1>9. Structure'
  BY Zenon, <1>0, <1>4 DEF IInv, Structure, Alive
<1> QED BY <1>6, <1>7, <1>8, <1>9 DEF IInv

\* thread_create: a new thread is suspended, so it is on no queue.
LEMMA CreateInv ==
  ASSUME IInv, NEW th \in Threads, NEW p \in Prio, NEW pol \in Policies,
         thread_create(th, p, pol)
  PROVE  IInv'
<1>0. /\ UNCHANGED <<runq, resched, sleepq, timeout, panicked, active_thread, locks, pended,
                     waking>>
      /\ ThreadRuns /\ pc[active_thread] = "run" /\ ~Alive(th)
      /\ pc' = [t \in Threads |-> IF t = th THEN "run"
                                  ELSE IF pc[t] = "zombie" THEN "free" ELSE pc[t]]
      /\ state' = [t \in Threads |-> IF t = th THEN {"TH_SUSPEND"}
                                     ELSE IF Alive(t) THEN state[t] ELSE {}]
      /\ prio' = [prio EXCEPT ![th] = p]
      /\ policy' = [policy EXCEPT ![th] = pol]
      /\ sigpend' = [sigpend EXCEPT ![th] = FALSE]
  BY Zenon DEF thread_create, InKernel
<1>1. /\ TypeOK /\ active_thread \in Threads /\ runq \in Seq(Threads)
      /\ RunqExact /\ Sorted(runq, prio) /\ SleepqExact /\ PriorityRespected
      /\ state \in [Threads -> SUBSET Flags] /\ pc \in [Threads -> Places]
      /\ prio \in [Threads -> Nat] /\ p \in Nat /\ Structure
  BY PrioType, SchedAssumption DEF IInv, TypeOK, Queues
<1>2. /\ th # active_thread /\ th # Idle
      /\ pc'[th] = "run" /\ state'[th] = {"TH_SUSPEND"}
      /\ \A t \in Threads \ {th} : /\ Alive(t)' <=> Alive(t)
                                   /\ Alive(t) => pc'[t] = pc[t] /\ state'[t] = state[t]
                                   /\ ~Alive(t) => state'[t] = {}
  BY <1>0, <1>1 DEF Structure, Alive
<1>3. TypeOK'
  <2>1. state' \in [Threads -> SUBSET Flags] /\ pc' \in [Threads -> Places]
    BY <1>0, <1>1 DEF Flags, Places
  <2>2. /\ prio' \in [Threads -> Prio \cup {IdlePrio}] /\ sigpend' \in [Threads -> BOOLEAN]
        /\ policy' \in [Threads -> {"SCHED_RR", "SCHED_FIFO"}]
    BY Zenon, <1>0, <1>1, SchedAssumption DEF TypeOK
  <2> QED BY Zenon, <1>0, <1>1, <2>1, <2>2 DEF TypeOK
<1>4. \A t \in Threads : Ready(t)' <=> Ready(t)
  BY <1>0, <1>2, RunnableFlags DEF Ready, Alive
<1>5. ~Queued(runq, th)
  BY <1>0, <1>1 DEF RunqExact, Ready
<1>6. RunqExact' /\ Sorted(runq, prio)'
  BY Zenon, <1>0, <1>1, <1>4, <1>5, SortedOther DEF RunqExact
<1>7. PriorityRespected'
  BY <1>0, <1>1, <1>2, <1>5 DEF PriorityRespected
<1>8. SleepqExact'
  <2>1. \A t \in Threads : "TH_SLEEP" \in state'[t] <=> "TH_SLEEP" \in state[t]
    BY <1>0, <1>1, <1>2 DEF Structure
  <2> QED BY <1>0, <1>1, <2>1, SleepqUnchanged
<1>9. NoLostResched'
  BY <1>0, <1>1, <1>2 DEF IInv, NoLostResched, Structure
<1>10. Structure'
  BY <1>0, <1>1, <1>2, SchedAssumption DEF Structure, Alive
<1> QED BY <1>3, <1>6, <1>7, <1>8, <1>9, <1>10 DEF IInv, Queues

\* sch_switch: the thread it picks, and what it leaves on the run queue.
LEMMA SwitchFacts ==
  ASSUME IInv, sch_switch
  PROVE  /\ active_thread' \in Threads /\ runq' \in Seq(Threads)
         /\ Alive(active_thread') /\ thread_runnable(state[active_thread'])
         /\ \A t \in Threads : Alive(t) /\ thread_runnable(state[t]) =>
                               prio[active_thread'] <= prio[t]
         /\ NoDuplicates(runq') /\ Sorted(runq', prio)
         /\ \A t \in Threads : Queued(runq', t) <=>
              /\ t # active_thread' /\ Alive(t) /\ thread_runnable(state[t])
<1> DEFINE at == active_thread
<1>0. PICK q \in IF ~thread_runnable(state[at]) THEN {runq}
                 ELSE IF resched = RESCHED_PREEMPT THEN InsertResults(runq, prio, at)
                 ELSE EnqueueResults(runq, prio, at) :
             active_thread' = Head(q) /\ runq' = Tail(q)
  BY Zenon DEF sch_switch
<1>1. /\ at \in Threads /\ runq \in Seq(Threads) /\ prio \in [Threads -> Nat]
      /\ RunqExact /\ Sorted(runq, prio) /\ NoDuplicates(runq) /\ Structure
      /\ ~Queued(runq, at)
  BY PrioType DEF IInv, TypeOK, Queues, RunqExact, Ready
<1>2. /\ q \in Seq(Threads) /\ NoDuplicates(q) /\ Sorted(q, prio)
      /\ \A t \in Threads : Queued(q, t) <=> Alive(t) /\ thread_runnable(state[t])
  <2>1. CASE ~thread_runnable(state[at])
    <3>1. q = runq
      BY <1>0, <2>1
    <3> QED BY <1>1, <2>1, <3>1 DEF RunqExact, Ready
  <2>2. CASE thread_runnable(state[at])
    <3>1. q \in InsertResults(runq, prio, at) \/ q \in EnqueueResults(runq, prio, at)
      BY <1>0, <2>2
    <3>2. /\ q \in Seq(Threads) /\ NoDuplicates(q) /\ Sorted(q, prio)
          /\ \A t : Queued(q, t) <=> Queued(runq, t) \/ t = at
      BY <1>1, <3>1, InsertFacts, EnqueueFacts
    <3> QED BY Zenon, <1>1, <2>2, <3>2 DEF RunqExact, Ready, Structure
  <2> QED BY <2>1, <2>2
<1> HIDE DEF at
<1>3. q # <<>>
  <2>1. Queued(q, Idle)
    BY Zenon, <1>1, <1>2, RunnableFlags, SchedAssumption DEF Structure
  <2> QED BY <2>1, EmptySeq DEF Queued
<1>4. /\ Head(q) \in Threads /\ Tail(q) \in Seq(Threads) /\ NoDuplicates(Tail(q))
      /\ Queued(q, Head(q))
      /\ \A t : Queued(Tail(q), t) <=> Queued(q, t) /\ t # Head(q)
      /\ Sorted(Tail(q), prio) /\ \A t : Queued(q, t) => prio[Head(q)] <= prio[t]
  BY <1>1, <1>2, <1>3, DequeueFacts
<1> QED BY Zenon, <1>0, <1>2, <1>4

\* sch_switch.
LEMMA SwitchInv ==
  ASSUME IInv, sch_switch PROVE IInv'
<1> DEFINE at == active_thread
<1>0. /\ UNCHANGED <<sleepq, state, timeout, panicked, locks, prio, policy, sigpend>>
      /\ waking = NoEvent /\ locks = 0 /\ resched' = 0 /\ pended' = FALSE
      /\ \/ /\ "TH_ZOMBIE" \in state[at]
            /\ pc' = [pc EXCEPT ![at] = "zombie"]
            /\ waking' = IF sleepq[ThreadEvent] = <<>> THEN NoEvent ELSE ThreadEvent
         \/ "TH_ZOMBIE" \notin state[at] /\ UNCHANGED <<pc, waking>>
  BY DEF sch_switch, Running
<1>1. /\ active_thread' \in Threads /\ runq' \in Seq(Threads)
      /\ Alive(active_thread') /\ thread_runnable(state[active_thread'])
      /\ \A t \in Threads : Alive(t) /\ thread_runnable(state[t]) =>
                            prio[active_thread'] <= prio[t]
      /\ NoDuplicates(runq') /\ Sorted(runq', prio)
      /\ \A t \in Threads : Queued(runq', t) <=>
           /\ t # active_thread' /\ Alive(t) /\ thread_runnable(state[t])
  BY Zenon, SwitchFacts
<1>2. TypeOK /\ Structure /\ SleepqExact /\ pc \in [Threads -> Places] /\ at \in Threads
  BY DEF IInv, TypeOK, Queues
<1>3. /\ \A t \in Threads \ {at} : pc'[t] = pc[t]
      /\ "TH_ZOMBIE" \in state[at] => pc'[at] = "zombie"
      /\ "TH_ZOMBIE" \notin state[at] => pc'[at] = pc[at]
      /\ pc' \in [Threads -> Places] /\ waking' \in Events \cup {NoEvent}
  BY Zenon, <1>0, <1>2, SchedAssumption DEF Places, TypeOK
<1>4. TypeOK'
  BY Zenon, <1>0, <1>1, <1>2, <1>3 DEF TypeOK
<1>5. \A t \in Threads : Ready(t)' <=>
           /\ t # active_thread' /\ Alive(t) /\ thread_runnable(state[t])
  BY <1>0, <1>2, <1>3, RunnableFlags DEF Ready, Alive
<1>6. RunqExact' /\ Sorted(runq, prio)' /\ PriorityRespected'
  BY Zenon, <1>0, <1>1, <1>5 DEF RunqExact, PriorityRespected
<1>7. SleepqExact'
  BY <1>0, <1>2, SleepqUnchanged
<1>8. NoLostResched'
  BY <1>0 DEF NoLostResched
<1>9. Structure'
  <2>1. "TH_ZOMBIE" \notin state[active_thread'] /\ "TH_SLEEP" \notin state[active_thread']
        /\ "TH_SUSPEND" \notin state[active_thread']
    BY <1>1, RunnableFlags
  <2>2. Alive(active_thread)' /\ Alive(Idle)' /\ pc'[Idle] # "prepared"
    BY Zenon, <1>1, <1>2, <1>3, <2>1, SchedAssumption DEF Structure, Alive
  <2>3. \A t \in Threads : pc[t] # "prepared"
    <3>1. locks = 0  BY <1>0
    <3> QED BY <1>2, <3>1 DEF Structure
  <2>4. \A t \in Threads : pc'[t] # "prepared"
    BY <1>3, <2>3
  <2>5. \A t \in Threads : "TH_SLEEP" \in state[t] => Alive(t)'
    BY <1>2, <1>3 DEF Structure, Alive
  <2>6. \A t \in Threads : "TH_ZOMBIE" \in state[t] => ~Alive(t)'
    BY <1>2, <1>3 DEF Structure, Alive
  <2> QED BY <1>0, <1>2, <2>1, <2>2, <2>4, <2>5, <2>6 DEF Structure
<1> QED BY <1>4, <1>6, <1>7, <1>8, <1>9 DEF IInv, Queues

-----------------------------------------------------------------------------
(* The theorems.  No interrupt handler calls sch_wakeone on an event the    *)
(* active thread may be preparing to sleep on: with one, RunqExact fails.   *)

\* At boot only the idle thread exists and it runs.
LEMMA InitInv == Init => IInv
<1> SUFFICES ASSUME Init PROVE IInv
  OBVIOUS
<1>1. \A t : ~Queued(<<>>, t)
  BY DEF Queued
<1>2. NoDuplicates(<<>>) /\ Sorted(<<>>, prio)
  BY DEF NoDuplicates, Sorted
<1>3. TypeOK
  <2>1. <<>> \in Seq(Threads)
    BY EmptySeq
  <2>2. runq \in Seq(Threads) /\ sleepq \in [Events -> Seq(Threads)]
    BY <2>1 DEF Init
  <2>3. /\ state \in [Threads -> SUBSET Flags] /\ pc \in [Threads -> Places]
        /\ prio \in [Threads -> Prio \cup {IdlePrio}]
        /\ policy \in [Threads -> {"SCHED_RR", "SCHED_FIFO"}]
    BY DEF Init, Flags, Places
  <2>4. /\ resched \in {0, RESCHED_SWITCH, RESCHED_PREEMPT} /\ locks \in 0..MaxLocks
        /\ active_thread \in Threads /\ waking \in Events \cup {NoEvent}
    BY SchedAssumption DEF Init
  <2>5. /\ pended \in BOOLEAN /\ panicked \in BOOLEAN
        /\ timeout \in [Threads -> BOOLEAN] /\ sigpend \in [Threads -> BOOLEAN]
    BY Zenon DEF Init
  <2> QED BY <2>2, <2>3, <2>4, <2>5 DEF TypeOK
<1>4. RunqExact /\ SleepqExact /\ PriorityRespected
  BY <1>1, <1>2 DEF Init, RunqExact, SleepqExact, PriorityRespected, Ready, Alive
<1>5. NoLostResched /\ Structure
  BY SchedAssumption DEF Init, NoLostResched, Structure, Alive
<1> QED BY <1>2, <1>3, <1>4, <1>5 DEF IInv, Queues, Init

\* Every step preserves the inductive invariant.
LEMMA NextInv ==
  ASSUME IInv, IsrWakeone = {}, [Next]_vars PROVE IInv'
<1>1. CASE UNCHANGED vars
  BY <1>1 DEF vars, IInv, TypeOK, Queues, RunqExact, SleepqExact, PriorityRespected,
     NoLostResched, Structure, Ready, Alive
<1>2. ASSUME NEW e \in Events, WakeupBegin(e) PROVE IInv'
  BY <1>2, WakeupBeginInv
<1>3. ASSUME NEW e \in Events, sch_wakeone(e) PROVE IInv'
  BY <1>3, WakeoneInv
<1>4. ASSUME NEW e \in Events, NEW timed \in BOOLEAN, sch_prepare_sleep(e, timed) PROVE IInv'
  BY <1>4, PrepareInv
<1>5. ASSUME NEW l \in Events, NEW r \in Events, sch_requeue(l, r) PROVE IInv'
  BY <1>5, RequeueInv
<1>6. ASSUME \/ WakeupNext \/ WakeupEnd \/ sch_continue_sleep \/ sch_cancel_sleep
             \/ sch_lock \/ sch_unlock \/ UnlockCheck
      PROVE  IInv'
  BY <1>6, WakeupNextInv, WakeupEndInv, ContinueInv, CancelInv, LockInv, UnlockInv,
     UnlockCheckInv
<1>7. ASSUME sch_switch \/ sched_yield \/ sch_elapse \/ sch_testexit \/ sig_deliver
      PROVE  IInv'
  BY <1>7, SwitchInv, YieldInv, ElapseInv, TestexitInv, DeliverInv
<1>8. ASSUME NEW th \in Threads,
             \/ sleep_expire(th) \/ sch_signal(th) \/ sch_stop(th)
             \/ sch_suspend(th) \/ sch_resume(th) \/ sch_suspend_resume(th)
             \/ SuspendAsserts(th)
      PROVE  IInv'
  BY <1>8, ExpireInv, SignalInv, StopInv, SuspendInv, ResumeInv, SuspendResumeInv,
     SuspendAssertsInv
<1>9. ASSUME NEW th \in Threads, NEW p \in Prio, sch_setprio(th, p) PROVE IInv'
  BY <1>9, SetprioInv
<1>10. ASSUME NEW th \in Threads, NEW pol \in Policies, sch_setpolicy(th, pol) PROVE IInv'
  BY <1>10, SetpolicyInv
<1>11. ASSUME NEW th \in Threads, NEW p \in Prio, NEW pol \in Policies,
              thread_create(th, p, pol)
       PROVE  IInv'
  BY <1>11, CreateInv
<1> QED BY <1>1, <1>2, <1>3, <1>4, <1>5, <1>6, <1>7, <1>8, <1>9, <1>10, <1>11
           DEF Next, Halted

\* The inductive invariant holds in every reachable state of the scheduler.
THEOREM Invariance ==
  ASSUME IsrWakeone = {} PROVE Spec => []IInv
<1>1. Init => IInv
  BY InitInv
<1>2. IInv /\ [Next]_vars => IInv'
  BY NextInv
<1> QED BY <1>1, <1>2, PTL DEF Spec

\* No operation of sch.cpp loses a runnable thread or queues one twice.
THEOREM NoThreadLost ==
  ASSUME IsrWakeone = {} PROVE Spec => []RunqExact
<1>1. IInv => RunqExact
  BY DEF IInv, Queues
<1> QED BY <1>1, Invariance, PTL

\* TH_SLEEP and membership of exactly one event::sleepq agree.
THEOREM SleepersExact ==
  ASSUME IsrWakeone = {} PROVE Spec => []SleepqExact
<1>1. IInv => SleepqExact
  BY DEF IInv, Queues
<1> QED BY <1>1, Invariance, PTL

\* While no switch is wanted, no ready thread is better than the one that runs.
THEOREM PrioritiesRespected ==
  ASSUME IsrWakeone = {} PROVE Spec => []PriorityRespected
<1>1. IInv => PriorityRespected
  BY DEF IInv, Queues
<1> QED BY <1>1, Invariance, PTL

\* A wanted switch stays pended, or sch_unlock is about to pend it.
THEOREM ReschedKept ==
  ASSUME IsrWakeone = {} PROVE Spec => []NoLostResched
<1>1. IInv => NoLostResched
  BY DEF IInv
<1> QED BY <1>1, Invariance, PTL

\* Thread code runs neither asleep nor, with preemption enabled, suspended or
\* dead.
THEOREM RunnableRuns ==
  ASSUME IsrWakeone = {} PROVE Spec => []OnlyRunnableRuns
<1>1. ASSUME IInv PROVE OnlyRunnableRuns
  <2>1. SUFFICES ASSUME InKernel
                 PROVE  /\ "TH_SLEEP" \notin state[active_thread]
                        /\ locks = 0 => thread_runnable(state[active_thread])
    BY DEF OnlyRunnableRuns
  <2>2. ThreadRuns /\ waking = NoEvent /\ ~pended /\ pc[active_thread] = "run"
        /\ active_thread \in Threads
    BY <1>1, <2>1 DEF InKernel, ThreadRuns, Running, IInv, TypeOK
  <2>3. /\ "TH_SLEEP" \notin state[active_thread]
        /\ "TH_ZOMBIE" \notin state[active_thread]
    BY <1>1, <2>2, ActiveAwake DEF Alive
  <2>4. locks = 0 => resched = 0
    BY <1>1, <2>2 DEF IInv, NoLostResched
  <2>5. locks = 0 => "TH_SUSPEND" \notin state[active_thread]
    BY <1>1, <2>4 DEF IInv, Structure
  <2> QED BY <2>3, <2>5, RunnableFlags
<1>2. IInv => OnlyRunnableRuns
  BY <1>1
<1> QED BY <1>2, Invariance, PTL

\* Only sch_switch hands the processor over, with preemption enabled, and to the
\* best of the runnable threads.
THEOREM SwitchesToBest ==
  ASSUME IsrWakeone = {} PROVE Spec => SwitchPicksBest
<1> DEFINE Good == active_thread' # active_thread =>
                     /\ locks = 0 /\ thread_runnable(state[active_thread'])
                     /\ \A th \in Threads : Alive(th) /\ thread_runnable(state[th]) =>
                                             prio[active_thread'] <= prio[th]
<1>1. ASSUME IInv, [Next]_vars PROVE [Good]_vars
  <2>1. CASE sch_switch
    BY Zenon, <1>1, <2>1, SwitchFacts DEF sch_switch
  <2>2. CASE active_thread' = active_thread
    BY <2>2
  <2>3. sch_switch \/ active_thread' = active_thread
    BY Zenon, <1>1 DEF Next, vars, WakeupBegin, sch_wakeone, WakeupNext, WakeupEnd,
       sch_prepare_sleep, sch_continue_sleep, sch_cancel_sleep, sch_requeue, sch_lock,
       sch_unlock, UnlockCheck, sched_yield, sch_elapse, sleep_expire, sch_signal,
       sch_suspend, sch_resume, sch_suspend_resume, SuspendAsserts, sch_setprio, sch_setpolicy,
       thread_create, sch_stop, sch_testexit, sig_deliver, Halted
  <2> QED BY <2>1, <2>2, <2>3
<1>2. IInv /\ [Next]_vars => [Good]_vars
  BY <1>1
<1> QED BY <1>2, Invariance, PTL DEF Spec, SwitchPicksBest
=============================================================================
