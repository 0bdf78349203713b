SPECIFICATION ClientSpec
CONSTANTS
  Threads = {1, 2}
  Queues = {qa}
  Sender <- OneSender
  Receiver <- OneReceiver
  Objs = {x, y}
  Home <- TwoHome
  N = 3
  MaxCount = 3
  FaultInCreate = FALSE
  Concurrent = FALSE
  Root = Root
  Null = Null
  qa = qa
  qb = qb
  x = x
  y = y
CHECK_DEADLOCK FALSE
INVARIANTS CallInv RingSound CountExact
PROPERTIES ImplementsMsgChannel
