----------------------------- MODULE RunQueue -----------------------------
(***************************************************************************)
(* Queues of threads ordered by priority: the run queue operations of      *)
(* sys/kern/sch.cpp as operators.  p gives every thread its priority,      *)
(* smaller is better.  An operation is given as the set of its results;    *)
(* for a sorted queue that has the thread (removal) or has it not          *)
(* (insertion) the set has one element.                                    *)
(***************************************************************************)
EXTENDS Naturals, Sequences

\* The intrusive queues of sys/lib/queue.cpp as sequences, head first: x is
\* linked in as the k-th element; the k-th element is taken out.
queue_insert(q, k, x) == SubSeq(q, 1, k - 1) \o <<x>> \o SubSeq(q, k, Len(q))
queue_remove(q, k) == SubSeq(q, 1, k - 1) \o SubSeq(q, k + 1, Len(q))
Queued(q, x) == \E i \in 1..Len(q) : q[i] = x

\* Mutant: the thread goes to the tail whatever its priority.
MutEnqueueTail(q, p, th) == {Append(q, th)}

\* After all threads of higher or equal priority.
EnqueueResults(q, p, th) ==
  {queue_insert(q, k, th) : k \in {k \in 1..(Len(q) + 1) :
     /\ \A j \in 1..(k - 1) : p[q[j]] <= p[th]
     /\ k <= Len(q) => p[th] < p[q[k]]}}

\* Before threads of equal priority.
InsertResults(q, p, th) ==
  {queue_insert(q, k, th) : k \in {k \in 1..(Len(q) + 1) :
     /\ \A j \in 1..(k - 1) : p[q[j]] < p[th]
     /\ k <= Len(q) => p[th] <= p[q[k]]}}

RemoveResults(q, th) == {queue_remove(q, i) : i \in {i \in 1..Len(q) : q[i] = th}}

NoDuplicates(q) == \A i, j \in 1..Len(q) : q[i] = q[j] => i = j
Sorted(q, p) == \A i, j \in 1..Len(q) : i < j => p[q[i]] <= p[q[j]]
=============================================================================
