-------------------------------- MODULE Timer --------------------------------
(***************************************************************************)
(* The timers of sys/kern/timer.cpp: callouts, the tick and the timer       *)
(* thread.                                                                 *)
(*                                                                         *)
(* Times are relative to the time of the last tick, so that they stay small. *)
(* A step of a thread or a handler runs with interrupts disabled; between   *)
(* two of them anybody may call timer_callout and timer_stop.  The sleep of *)
(* the timer thread is that of module Sched: a wakeup after                 *)
(* sch_prepare_sleep is not lost.  What the tick does besides is in module  *)
(* Itimer (run_itimer) and module Sched (sch_elapse).                       *)
(***************************************************************************)
EXTENDS Integers, Sequences, SequencesExt, FiniteSetsExt

CONSTANTS
  Timers,
  PERIOD,      \* time between two ticks
  Delays,      \* bound: the nsec of the callouts
  Intervals,   \* bound: their intervals, 0 for one-shot
  MaxLate      \* bound: up to how much the lateness of a timer is counted

VARIABLES
  timer_list, expire_list,
  active, expire, interval, \* struct timer; expire is relative to the last tick
  phase,                    \* time since the last tick
  pc,                       \* the timer thread
  tmr,                      \* the timer it took last
  need                      \* time that must pass before the function may be called

vars == <<timer_list, expire_list, active, expire, interval, phase, pc, tmr, need>>

\* The places pc names: "sleep": waits for timer_event; "woken": about to look at
\* expire_list; "call": about to call a function, with interrupts enabled.

-----------------------------------------------------------------------------
\* Mutant: the new timer goes to the end.
MutInsert(s, t, exp) == Append(s, t)

\* Before the first timer that expires later.
timer_insert(s, t, exp) ==
  InsertAt(s, Min({i \in 1..Len(s) : exp[t] < exp[s[i]]} \cup {Len(s) + 1}), t)


\* Mutant: the part of a period that is over is not allowed for.
MutExpireTime(nsec) == IF nsec = 1 THEN PERIOD ELSE nsec

\* Expiry time of a callout after nsec.
ExpireTime(nsec) == PERIOD + (IF nsec = 1 THEN 0 ELSE nsec)

\* Mutant: an expired timer is not taken off its list.
MutCallout(t, nsec, intv) ==
  /\ expire' = [expire EXCEPT ![t] = ExpireTime(nsec)]
  /\ timer_list' = timer_insert(Remove(timer_list, t), t, expire')
  /\ active' = [active EXCEPT ![t] = TRUE] /\ interval' = [interval EXCEPT ![t] = intv]
  /\ need' = [need EXCEPT ![t] = IF nsec = 1 THEN 0 ELSE nsec]
  /\ UNCHANGED <<expire_list, phase, pc, tmr>>

timer_callout(t, nsec, intv) ==
  /\ expire' = [expire EXCEPT ![t] = ExpireTime(nsec)]
  /\ timer_list' = timer_insert(Remove(timer_list, t), t, expire')
  /\ expire_list' = Remove(expire_list, t)
  /\ active' = [active EXCEPT ![t] = TRUE] /\ interval' = [interval EXCEPT ![t] = intv]
  /\ need' = [need EXCEPT ![t] = IF nsec = 1 THEN 0 ELSE nsec]
  /\ UNCHANGED <<phase, pc, tmr>>

\* The expiry time of a timer that is not active is not looked at: it is zero.
timer_stop(t) ==
  /\ active[t] /\ active' = [active EXCEPT ![t] = FALSE]
  /\ timer_list' = Remove(timer_list, t) /\ expire_list' = Remove(expire_list, t)
  /\ expire' = [expire EXCEPT ![t] = 0] /\ need' = [need EXCEPT ![t] = 0]
  /\ UNCHANGED <<interval, phase, pc, tmr>>

-----------------------------------------------------------------------------
(* The tick.                                                               *)

\* The timers before the first one of the list that has not expired.
Expired(exp) ==
  LET later == {i \in 1..Len(timer_list) : exp[timer_list[i]] > 0}
  IN  SubSeq(timer_list, 1, Min(later \cup {Len(timer_list) + 1}) - 1)

\* Mutant: the timer thread is not woken.
MutWakeup(wakeup) == UNCHANGED pc

\* sch_wakeup of the timer thread.
Wakeup(wakeup) == pc' = IF wakeup /\ pc = "sleep" THEN "woken" ELSE pc

\* The tick does not wait for the timer thread, however late that is.
timer_tick ==
  /\ phase = PERIOD - 1 /\ phase' = 0
  /\ expire' = [t \in Timers |-> IF active[t] THEN Max({expire[t] - PERIOD, -MaxLate}) ELSE 0]
  /\ LET done == Expired(expire')
     IN  /\ timer_list' = SubSeq(timer_list, Len(done) + 1, Len(timer_list))
         /\ expire_list' = Reverse(done) \o expire_list
         /\ Wakeup(done # <<>>)
  /\ need' = [t \in Timers |-> Max({need[t] - 1, 0})]
  /\ UNCHANGED <<active, interval, tmr>>

\* Time passes between ticks.
Elapse ==
  /\ phase < PERIOD - 1 /\ phase' = phase + 1
  /\ need' = [t \in Timers |-> Max({need[t] - 1, 0})]
  /\ UNCHANGED <<timer_list, expire_list, active, expire, interval, pc, tmr>>

-----------------------------------------------------------------------------
(* The timer thread.                                                       *)

\* Interrupts stay disabled from the look at the empty list to
\* sch_prepare_sleep.
Sleep ==
  /\ pc = "woken" /\ expire_list = <<>> /\ pc' = "sleep"
  /\ UNCHANGED <<timer_list, expire_list, active, expire, interval, phase, tmr, need>>

\* Mutant: a periodic timer is not put back.
MutTake ==
  LET t == Head(expire_list)
  IN  /\ pc = "woken" /\ expire_list # <<>>
      /\ expire_list' = Tail(expire_list) /\ tmr' = t /\ pc' = "call"
      /\ UNCHANGED <<expire, need, active, timer_list, interval, phase>>

\* Take the first expired timer: put it back, or it is no longer active.
Take ==
  LET t == Head(expire_list)
  IN  /\ pc = "woken" /\ expire_list # <<>>
      /\ expire_list' = Tail(expire_list) /\ tmr' = t /\ pc' = "call"
      /\ \/ /\ interval[t] # 0
            /\ expire' = [expire EXCEPT ![t] = @ + interval[t]]
            /\ timer_list' = timer_insert(timer_list, t, expire')
            /\ need' = [need EXCEPT ![t] = Max({expire'[t] - phase, 0})]
            /\ UNCHANGED active
         \/ /\ interval[t] = 0
            /\ active' = [active EXCEPT ![t] = FALSE]
            /\ expire' = [expire EXCEPT ![t] = 0]
            /\ UNCHANGED <<timer_list, need>>
      /\ UNCHANGED <<interval, phase>>

\* The function returns; interrupts are disabled again.
CallReturns ==
  /\ pc = "call" /\ pc' = "woken"
  /\ UNCHANGED <<timer_list, expire_list, active, expire, interval, phase, tmr, need>>

timer_thread == Sleep \/ Take \/ CallReturns

\* The timer thread prepares its first sleep without a look at expire_list.  No
\* tick can come before: the clock is started by a driver (machine_driver_init)
\* on the boot thread, whose priority is lower.
Init ==
  /\ timer_list = <<>> /\ expire_list = <<>>
  /\ active = [t \in Timers |-> FALSE] /\ expire = [t \in Timers |-> 0]
  /\ interval = [t \in Timers |-> 0] /\ need = [t \in Timers |-> 0]
  /\ phase = 0 /\ pc = "sleep" /\ tmr \in Timers

Next ==
  \/ \E t \in Timers : timer_stop(t) \/ \E n \in Delays, i \in Intervals : timer_callout(t, n, i)
  \/ timer_tick \/ Elapse
  \/ timer_thread

Spec == Init /\ [][Next]_vars

\* Ticks keep coming; the timer thread, which has the best priority, runs.
FairSpec == Spec /\ WF_vars(timer_tick \/ Elapse) /\ WF_vars(timer_thread)
-----------------------------------------------------------------------------
(* Properties.                                                             *)

\* A timer is active exactly while it is on one of the two lists, once: stop and
\* callout, from wherever, never take a timer off a list it is not on.
ListsExact ==
  LET all == timer_list \o expire_list
  IN  /\ \A i, j \in 1..Len(all) : all[i] = all[j] => i = j
      /\ \A t \in Timers : active[t] <=> Contains(all, t)

\* Expired timers wait for nobody but the timer thread: it does not sleep.
NoExpiryLost == expire_list # <<>> => pc # "sleep"

\* A timer is called only when all of its delay, or interval, has passed.
NotEarly == [][Take => need[Head(expire_list)] = 0]_vars


\* A tick leaves no timer behind that is due.
DueExpires == [][timer_tick => \A t \in Timers : Contains(timer_list', t) => expire'[t] > 0]_vars

\* A timer that is armed is called or stopped, unless it is armed again and again,
\* provided that the timer thread again and again catches up with the callouts.
\* It may not if they take longer than the periodic timers leave time for: each
\* tick puts the timers it finds in front of those that wait.
ArmedIsCalled ==
  []<>(pc = "sleep") =>
    \A t \in Timers :
      \/ active[t] ~> ((pc = "call" /\ tmr = t) \/ ~active[t])
      \/ []<><<\E n \in Delays, i \in Intervals : timer_callout(t, n, i)>>_vars
=============================================================================
