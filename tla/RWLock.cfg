\* Three threads that read, read again and write.
SPECIFICATION FairSpec
CONSTANTS
  NoThread = NoThread
  Threads = {t1, t2, t3}
  MaxReads = 2
INVARIANTS TypeOK Exclusive SleepsForReason
PROPERTY ReaderWoken
