------------------------------ MODULE MCMutex ------------------------------
(* Mutex for model checking.                                               *)
EXTENDS Mutex, TLC

CONSTANTS t1, t2, t3, none

TwoPrios == [th \in Threads |-> IF th = t3 THEN 2 ELSE 1]
=============================================================================
