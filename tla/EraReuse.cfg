SPECIFICATION FairSpec
CONSTANTS
  Threads = {1, 2}
  MaxThread = 3
  Objs = {o1, o2}
  Slots <- Slots3
  Owner <- Owner3
  Addr <- Apart
  RedoCnt = 2
  MaxEra = 4
  Concurrent = FALSE
  Null = Null
  a1 = a1
  a2 = a2
  b1 = b1
  b2 = b2
  c1 = c1
CHECK_DEADLOCK FALSE
INVARIANTS PoolSound
PROPERTIES RedoKeeps NoLeak ImplementsRefSpec AllReclaimed NonBlocking
