------------------------------- MODULE Lock -------------------------------
(***************************************************************************)
(* What mutex_lock and mutex_unlock promise: a recursive lock that one     *)
(* thread holds at a time and that may be handed straight to a waiter.     *)
(***************************************************************************)
EXTENDS Naturals

CONSTANTS Threads, NoThread

VARIABLES holder, depth

Init == holder = NoThread /\ depth = 0

Acquire(th) == holder = NoThread /\ holder' = th /\ depth' = 1
Reenter(th) == holder = th /\ depth' = depth + 1 /\ UNCHANGED holder
Leave(th)   == holder = th /\ depth > 1 /\ depth' = depth - 1 /\ UNCHANGED holder
Release(th) == holder = th /\ depth = 1 /\ holder' = NoThread /\ depth' = 0
Pass(th)    == /\ holder = th /\ depth = 1 /\ depth' = 1
               /\ holder' \in Threads \ {th}

Next == \E th \in Threads :
          Acquire(th) \/ Reenter(th) \/ Leave(th) \/ Release(th) \/ Pass(th)

Spec == Init /\ [][Next]_<<holder, depth>>
=============================================================================
