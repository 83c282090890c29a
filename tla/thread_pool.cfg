SPECIFICATION FairSpec
CONSTANTS
  w1 = w1
  w2 = w2
  a = a
  b = b
  c = c
  d = d
  x = x
  None = None
  Workers = {w1, w2}
  Outsiders = {x}
  Tasks = {a, b, c, d}
  Early <- MCEarly
  FromOutside <- MCFromOutside
  Posts <- MCPosts
  WaitsFor <- MCWaitsFor
  MaxDepth = 1
INVARIANTS StackIsSound NoTaskLeftBehind
PROPERTIES EveryTaskFinishes PoolComesToRest
CHECK_DEADLOCK FALSE
