SPECIFICATION Spec
CONSTANTS
  Threads = {1, 2}
  MaxThread = 3
  Objs = {o1}
  Slots <- Slots4
  Owner <- Owner4
  Addr <- Apart
  RedoCnt = 2
  MaxEra = 4
  Concurrent = TRUE
  Null = Null
  a1 = a1
  a2 = a2
  b1 = b1
  b2 = b2
  c1 = c1
CHECK_DEADLOCK FALSE
INVARIANTS NoWildPointer
