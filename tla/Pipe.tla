-------------------------------- MODULE Pipe --------------------------------
(***************************************************************************)
(* A pipe, sys/fs/pipe.cpp, on the condition variable of sys/sync/cond.cpp. *)
(*                                                                         *)
(* The vnode's mutex is the lock that module Mutex is proved to implement; *)
(* one step is one turn of the loop of pipe_read or pipe_write.  The       *)
(* threads have one priority, so the condition's queue is first in, first  *)
(* out.  No other thread runs while `locker` is between sch_prepare_sleep  *)
(* and sch_continue_sleep, and no interrupt handler touches a pipe.  The   *)
(* k-th byte ever written is k, counted as `wr` counts.                    *)
(***************************************************************************)
EXTENDS Naturals, Sequences, FiniteSets

CONSTANTS
  Readers, Writers, \* threads; each has a file open on its end of the pipe
  NoThread,
  PIPE_BUF,         \* size of the buffer
  SIZE,             \* size_t counts modulo SIZE
  MaxSize           \* bound: bytes of one call

Threads == Readers \cup Writers

ASSUME PipeAssumption ==
  /\ Readers \cap Writers = {} /\ NoThread \notin Threads
  /\ PIPE_BUF \in Nat \ {0} /\ SIZE % PIPE_BUF = 0 /\ SIZE > PIPE_BUF /\ MaxSize \in Nat

VARIABLES
  wr, rd, buf, read_fds, write_fds, \* struct pipe_data
  sleepq,                           \* the sleep queue of its condition
  v_lock,                           \* owner of the vnode's mutex, or NoThread
  locker,                           \* the thread that keeps the scheduler locked
  pc, size,
  moved                             \* bytes read or written so far by the call

data == <<wr, rd, buf>>
vars == <<wr, rd, buf, read_fds, write_fds, sleepq, v_lock, locker, pc, size, moved>>

\* "out": not in a call; "lock": about to lock the mutex; "in": in the loop;
\* "queued", "unlocked", "asleep": in cond_wait_interruptible, on the queue, with
\* the mutex unlocked and asleep; "eintr": its wait was interrupted; "closed": the
\* file is closed.
Places == {"out", "lock", "in", "queued", "unlocked", "asleep", "eintr", "closed"}

Min(a, b) == IF a < b THEN a ELSE b
Runs(th, place) == pc[th] = place /\ locker \in {NoThread, th}
Goto(th, place) == pc' = [pc EXCEPT ![th] = place]

-----------------------------------------------------------------------------
(* The condition variable.                                                 *)

\* Wake the first sleeper, which does not sleep yet if it is still on its way;
\* `place` is pc without the wakeup.
cond_signal(place) ==
  \/ sleepq = <<>> /\ pc' = place /\ UNCHANGED sleepq
  \/ /\ sleepq # <<>> /\ sleepq' = Tail(sleepq)
     /\ pc' = [place EXCEPT ![Head(sleepq)] = IF @ = "asleep" THEN "lock" ELSE @]

\* The thread is on the queue before the mutex is free.
cond_wait_interruptible(th) ==
  /\ sleepq' = Append(sleepq, th) /\ locker' = th
  /\ Goto(th, "queued") /\ UNCHANGED <<v_lock, size, moved>>

mutex_unlock(th) ==
  /\ Runs(th, "queued")
  /\ v_lock' = NoThread /\ Goto(th, "unlocked")
  /\ UNCHANGED <<data, read_fds, write_fds, sleepq, locker, size, moved>>

sch_continue_sleep(th) ==
  /\ Runs(th, "unlocked")
  /\ locker' = NoThread
  /\ Goto(th, IF \E i \in DOMAIN sleepq : sleepq[i] = th THEN "asleep" ELSE "lock")
  /\ UNCHANGED <<data, read_fds, write_fds, sleepq, v_lock, size, moved>>

-----------------------------------------------------------------------------
(* Calls.                                                                  *)

Call(th, n) ==
  /\ Runs(th, "out") /\ Goto(th, "lock")
  /\ size' = [size EXCEPT ![th] = n] /\ moved' = [moved EXCEPT ![th] = 0]
  /\ UNCHANGED <<data, read_fds, write_fds, sleepq, v_lock, locker>>

\* The mutex is locked, by the call or when its wait ends.
Lock(th) ==
  /\ Runs(th, "lock") /\ v_lock = NoThread
  /\ v_lock' = th /\ Goto(th, "in")
  /\ UNCHANGED <<data, read_fds, write_fds, sleepq, locker, size, moved>>

\* The call returns; the mutex is unlocked.
Return(th) ==
  /\ v_lock' = NoThread /\ Goto(th, "out")
  /\ size' = [size EXCEPT ![th] = 0]
  /\ moved' = [moved EXCEPT ![th] = 0] /\ UNCHANGED <<sleepq, locker>>

\* Nothing can be moved now: return if the file is O_NONBLOCK or a signal is
\* pending, otherwise wait.
Block(th) ==
  /\ UNCHANGED <<data, read_fds, write_fds>>
  /\ Return(th) \/ cond_wait_interruptible(th)

avail == (wr + SIZE - rd) % SIZE
free == PIPE_BUF - avail

\* len bytes were moved.
Moved(th, len) ==
  /\ size' = [size EXCEPT ![th] = @ - len] /\ moved' = [moved EXCEPT ![th] = @ + len]
  /\ UNCHANGED <<read_fds, write_fds, v_lock, locker>>

\* Mutant: a full pipe is not announced to the writers.
MutReadSome(th) ==
  LET len == Min(size[th], Min(avail, PIPE_BUF - (rd % PIPE_BUF)))
  IN  /\ UNCHANGED <<pc, sleepq>>
      /\ rd' = (rd + len) % SIZE /\ UNCHANGED <<wr, buf>> /\ Moved(th, len)

\* Read what is there, up to the end of the buffer.
ReadSome(th) ==
  LET len == Min(size[th], Min(avail, PIPE_BUF - (rd % PIPE_BUF)))
  IN  /\ IF avail = PIPE_BUF THEN cond_signal(pc) ELSE UNCHANGED <<pc, sleepq>>
      /\ rd' = (rd + len) % SIZE /\ UNCHANGED <<wr, buf>> /\ Moved(th, len)

pipe_read(th) ==
  /\ th \in Readers /\ Runs(th, "in")
  /\ \/ /\ size[th] = 0 \/ (avail = 0 /\ (write_fds = 0 \/ moved[th] > 0))
        /\ Return(th) /\ UNCHANGED <<data, read_fds, write_fds>>
     \/ /\ size[th] > 0 /\ avail = 0 /\ write_fds > 0 /\ moved[th] = 0
        /\ Block(th)
     \/ /\ size[th] > 0 /\ avail > 0
        /\ ReadSome(th)

\* The buffer with len more bytes from the write offset on.
Filled(len) ==
  LET off == wr % PIPE_BUF
  IN  [i \in 0..(PIPE_BUF - 1) |->
         IF i \in off..(off + len - 1) THEN (wr + i - off) % SIZE ELSE buf[i]]

\* Mutant: the bytes that do not fit before the end of the buffer are lost.
MutWriteSome(th) ==
  LET len == Min(size[th], free)
  IN  /\ IF free = PIPE_BUF THEN cond_signal(pc) ELSE UNCHANGED <<pc, sleepq>>
      /\ buf' = Filled(len)
      /\ wr' = (wr + len) % SIZE /\ UNCHANGED rd /\ Moved(th, len)

\* Mutant: bytes not read yet are overwritten.
MutWriteOver(th) ==
  LET len == Min(size[th], PIPE_BUF - (wr % PIPE_BUF))
  IN  /\ IF free = PIPE_BUF THEN cond_signal(pc) ELSE UNCHANGED <<pc, sleepq>>
      /\ buf' = Filled(len)
      /\ wr' = (wr + len) % SIZE /\ UNCHANGED rd /\ Moved(th, len)

\* Mutant: the first bytes in an empty pipe are not announced.
MutWriteQuiet(th) ==
  LET len == Min(size[th], Min(free, PIPE_BUF - (wr % PIPE_BUF)))
  IN  /\ UNCHANGED <<pc, sleepq>>
      /\ buf' = Filled(len)
      /\ wr' = (wr + len) % SIZE /\ UNCHANGED rd /\ Moved(th, len)

\* Write what fits, up to the end of the buffer.
WriteSome(th) ==
  LET len == Min(size[th], Min(free, PIPE_BUF - (wr % PIPE_BUF)))
  IN  /\ IF free = PIPE_BUF THEN cond_signal(pc) ELSE UNCHANGED <<pc, sleepq>>
      /\ buf' = Filled(len)
      /\ wr' = (wr + len) % SIZE /\ UNCHANGED rd /\ Moved(th, len)

pipe_write(th) ==
  /\ th \in Writers /\ Runs(th, "in")
  /\ \/ /\ size[th] = 0 \/ read_fds = 0
        /\ Return(th) /\ UNCHANGED <<data, read_fds, write_fds>>
     \/ /\ size[th] > 0 /\ read_fds > 0 /\ free = 0
        /\ Block(th)
     \/ /\ size[th] > 0 /\ read_fds > 0 /\ free > 0
        /\ WriteSome(th)

\* Close a file; the last one of an end wakes a thread that may wait for it.
pipe_close(th) ==
  /\ Runs(th, "out") /\ v_lock = NoThread
  /\ read_fds' = read_fds - (IF th \in Readers THEN 1 ELSE 0)
  /\ write_fds' = write_fds - (IF th \in Writers THEN 1 ELSE 0)
  /\ IF (IF th \in Readers THEN read_fds' ELSE write_fds') = 0
     THEN cond_signal([pc EXCEPT ![th] = "closed"])
     ELSE Goto(th, "closed") /\ UNCHANGED sleepq
  /\ UNCHANGED <<data, v_lock, locker, size, moved>>

\* Open a FIFO again while somebody keeps it open.
pipe_open(th) ==
  /\ Runs(th, "closed") /\ v_lock = NoThread /\ read_fds + write_fds > 0
  /\ read_fds' = read_fds + (IF th \in Readers THEN 1 ELSE 0)
  /\ write_fds' = write_fds + (IF th \in Writers THEN 1 ELSE 0)
  /\ Goto(th, "out") /\ UNCHANGED <<data, sleepq, v_lock, locker, size, moved>>

\* A signal ends the wait.  One for a thread on its way to sleep is the subject of
\* SignalInterruptsSleep in module Sched.
Signal(th) ==
  /\ pc[th] = "asleep"
  /\ sleepq' = SelectSeq(sleepq, LAMBDA t : t # th)
  /\ Goto(th, "eintr")
  /\ UNCHANGED <<data, read_fds, write_fds, v_lock, locker, size, moved>>

\* The interrupted wait locks the mutex, and the call returns.
Interrupted(th) ==
  /\ Runs(th, "eintr") /\ v_lock = NoThread
  /\ Return(th) /\ UNCHANGED <<data, read_fds, write_fds>>

-----------------------------------------------------------------------------
Init ==
  /\ wr = 0 /\ rd = 0 /\ buf = [i \in 0..(PIPE_BUF - 1) |-> 0]
  /\ read_fds = Cardinality(Readers) /\ write_fds = Cardinality(Writers)
  /\ sleepq = <<>> /\ v_lock = NoThread /\ locker = NoThread
  /\ pc = [th \in Threads |-> "out"]
  /\ size = [th \in Threads |-> 0] /\ moved = [th \in Threads |-> 0]

Next == \E th \in Threads :
  \/ \E n \in 0..MaxSize : Call(th, n)
  \/ Lock(th) \/ pipe_read(th) \/ pipe_write(th)
  \/ mutex_unlock(th) \/ sch_continue_sleep(th) \/ Interrupted(th)
  \/ pipe_open(th) \/ pipe_close(th) \/ Signal(th)

Spec == Init /\ [][Next]_vars
-----------------------------------------------------------------------------
(* Properties.                                                             *)

\* Every variable has its type; no more bytes are in the pipe than fit.
TypeOK ==
  /\ wr \in 0..(SIZE - 1) /\ rd \in 0..(SIZE - 1) /\ avail <= PIPE_BUF
  /\ buf \in [0..(PIPE_BUF - 1) -> 0..(SIZE - 1)]
  /\ read_fds \in 0..Cardinality(Readers) /\ write_fds \in 0..Cardinality(Writers)
  /\ sleepq \in Seq(Threads) /\ {v_lock, locker} \subseteq Threads \cup {NoThread}
  /\ pc \in [Threads -> Places]
  /\ size \in [Threads -> 0..MaxSize] /\ moved \in [Threads -> 0..MaxSize]

\* What will be read is what was written, in order: the bytes between rd and wr
\* are in the buffer, wherever it wraps and however the calls split them.
DataExact ==
  \A k \in 0..(PIPE_BUF - 1) : k < avail => buf[(rd + k) % PIPE_BUF] = (rd + k) % SIZE

\* A reader waits only while the pipe is empty and somebody may still write.
ReaderWaits == \A th \in Readers : pc[th] = "asleep" => avail = 0 /\ write_fds > 0

\* A writer waits only while the pipe is full and somebody may still read.
WriterWaits == \A th \in Writers : pc[th] = "asleep" => free = 0 /\ read_fds > 0

\* A reader and a writer never wait for each other.
NoMutualWait ==
  ~ \E r \in Readers, w \in Writers : pc[r] = "asleep" /\ pc[w] = "asleep"
=============================================================================
