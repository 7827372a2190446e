\* One reader and one writer; it stops when both have closed.
SPECIFICATION Spec
CONSTANTS
  NoThread = NoThread
  Readers = {r1}
  Writers = {w1}
  PIPE_BUF = 4
  SIZE = 16
  MaxSize = 5
INVARIANTS TypeOK DataExact ReaderWaits WriterWaits
CHECK_DEADLOCK FALSE
