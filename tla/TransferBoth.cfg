SPECIFICATION FairSpec
CONSTANTS
  Threads = {1, 2}
  Queues = {qa, qb}
  Sender <- BothSender
  Receiver <- BothReceiver
  Objs = {x}
  Home <- OneHome
  N = 3
  MaxCount = 3
  FaultInCreate = FALSE
  Concurrent = FALSE
  Root = Root
  Null = Null
  qa = qa
  qb = qb
  x = x
  y = y
CHECK_DEADLOCK FALSE
INVARIANTS IInv Covered FreedEmpty
PROPERTIES AllReclaimed
