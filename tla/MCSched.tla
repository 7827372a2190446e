------------------------------ MODULE MCSched ------------------------------
(* Sched for model checking: two or three threads beside the idle thread.  *)
EXTENDS Sched, TLC

CONSTANTS t1, t2, t3, idle, e1, e2, none

Symmetry == Permutations(Threads \ {Idle})
=============================================================================
