SPECIFICATION FairSpec
CONSTANTS
  Producers = {p1, p2}
  Cancellers = {c1}
  Waiters = {w1, w2}
  TimedWaiters = {w2}
  Continuations = {k1}
  Hooks = {h1}
CHECK_DEADLOCK FALSE
INVARIANT CompletionSound
PROPERTIES ImplementsOneShot Delivered HooksRunWhenCancelled WaitingCompletes
