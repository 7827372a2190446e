\* Three timers, one-shot and periodic; delays of one tick and of a period.
SPECIFICATION FairSpec
CONSTANTS
  Timers = {t1, t2, t3}
  PERIOD = 2
  Delays = {1, 2}
  Intervals = {0, 3}
  MaxLate = 4
INVARIANTS ListsExact NoExpiryLost 
PROPERTIES NotEarly DueExpires ArmedIsCalled
