SPECIFICATION RpcFairSpec
CONSTANTS
  c1 = c1
  c2 = c2
  s1 = s1
  s2 = s2
  Calls = {c1, c2}
  Servers = {s1, s2}
  Parts = 3
  QueueSize = 1
  MayRestart = {s2}
INVARIANTS AnsweredByOwn ReplyFindsCaller WholeReplyDelivered
PROPERTY EveryCallAnswered
CHECK_DEADLOCK FALSE
