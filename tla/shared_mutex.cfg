SPECIFICATION FairSpec
CONSTANTS
  Threads = {t1, t2, t3}
  WriteLimit = 0
  TimedCallers = {t3}
INVARIANT LockSound
PROPERTIES ImplementsSharedLock EverybodyServed
