CONSTANTS
  t1 = t1
  t2 = t2
  t3 = t3
  none = none
  Threads = {t1, t2, t3}
  NoThread = none
  MaxDepth = 2
  ThreadPrio <- TwoPrios
SPECIFICATION FairSpec
INVARIANTS TypeOK MutualExclusion NoLostWaiter CountExact
PROPERTIES ImplementsLock WaiterServed
