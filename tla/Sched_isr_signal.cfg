SPECIFICATION Spec
CONSTANTS
  t1 = t1 t2 = t2 t3 = t3 idle = idle e1 = e1 e2 = e2 none = none
  Threads = {idle, t1, t2}
  Idle = idle
  Events = {e1, e2}
  ThreadEvent = e1
  NoEvent = none
  Prio = {1, 2}
  IdlePrio = 3
  Policies = {"SCHED_RR"}
  MaxLocks = 2
  SigThreads = {t1, t2}
  IsrSigThreads = {t1}
  Suspendable = {t1, t2}
  PrioThreads = {t1, t2}
  IsrWakeone = {}
INVARIANTS
  SignalInterruptsSleep
