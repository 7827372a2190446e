------------------------------- MODULE Itimer -------------------------------
(***************************************************************************)
(* The profiling interval timer of a task: sc_setitimer sets it, the tick   *)
(* runs it down (run_itimer in sys/kern/timer.cpp; the virtual timer is the *)
(* same).  Values are unsigned and wrap at WORD.                            *)
(***************************************************************************)
EXTENDS Naturals

CONSTANTS
  WORD,    \* values of uint_fast64_t
  NS,      \* time of one tick
  MaxValue \* bound: values a task sets

VARIABLES remain, interval, \* struct itimer
          fired             \* the number of signals since it was set; bound: two

vars == <<remain, interval, fired>>

sc_setitimer(value, intv) == remain' = value /\ interval' = intv /\ fired' = 0

\* What is left of the next interval after one that was `late` too long.
Reload(late) ==
  LET r == (interval + WORD - late) % WORD
  IN  IF r > interval THEN 1 ELSE r

run_itimer ==
  /\ remain # 0 /\ UNCHANGED interval
  /\ \/ NS < remain /\ remain' = remain - NS /\ UNCHANGED fired
     \/ /\ NS >= remain /\ remain' = Reload(NS - remain)
        /\ fired' = IF fired < 2 THEN fired + 1 ELSE fired

Init == remain = 0 /\ interval = 0 /\ fired = 0

Next == run_itimer \/ \E v, i \in 0..MaxValue : sc_setitimer(v, i)

Spec == Init /\ [][Next]_vars
-----------------------------------------------------------------------------
\* Without an interval the timer signals once and is then disabled.
OneShot == interval = 0 /\ fired > 0 => remain = 0
=============================================================================
