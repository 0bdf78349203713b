SPECIFICATION Spec
CONSTANTS
  Threads = {1, 2, 3}
  MaxThread = 4
  Objs = {o1}
  Slots <- SlotsT
  Owner <- OwnerT
  Addr <- Apart
  RedoCnt = 2
  MaxEra = 3
  Concurrent = FALSE
  Null = Null
  a1 = a1
  a2 = a2
  b1 = b1
  b2 = b2
  c1 = c1
CHECK_DEADLOCK FALSE
INVARIANTS CountExact RedoDecides LeakInv
