SPECIFICATION FairSpec
CONSTANTS
  Threads = {t1, t2}
  NoThread = none
  DataSize = 2
  Values = {3}
  MaxSpurious = 1
INVARIANT LockSound
PROPERTIES ImplementsMutex SomebodyAcquires
