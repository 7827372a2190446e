\* Two writers.
SPECIFICATION Spec
CONSTANTS
  NoThread = NoThread
  Readers = {r1}
  Writers = {w1, w2}
  PIPE_BUF = 2
  SIZE = 8
  MaxSize = 2
INVARIANTS NoMutualWait
CHECK_DEADLOCK FALSE
