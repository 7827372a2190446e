SPECIFICATION Spec
CONSTANTS
  t1 = t1 t2 = t2 t3 = t3 idle = idle e1 = e1 e2 = e2 none = none
  Threads = {idle, t1, t2}
  Idle = idle
  Events = {e1, e2}
  ThreadEvent = e1
  NoEvent = none
  Prio = {1, 2}
  IdlePrio = 3
  Policies = {"SCHED_RR"}
  MaxLocks = 2
  SigThreads = {t1, t2}
  IsrSigThreads = {}
  Suspendable = {t1, t2}
  PrioThreads = {t1, t2}
  IsrWakeone = {}
SYMMETRY Symmetry
INVARIANTS
  TypeOK RunqExact SleepqExact PriorityRespected NoLostResched
  OnlyRunnableRuns SignalInterruptsSleep TimerOnlyWhileAsleep
PROPERTIES
  SwitchPicksBest
