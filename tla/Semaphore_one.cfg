\* One waiter, as every semaphore of the kernel has; threads and interrupts post.
SPECIFICATION FairSpec
CONSTANTS
  NoThread = NoThread
  Waiters = {w1}
  Posters = {p1, p2}
  OncePosters = {p2}
  IsrPosts = {"post", "once"}
  INT_MAX = 3
INVARIANTS SleepersQueued NoLostPost
PROPERTY PostServed
