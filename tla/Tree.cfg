SPECIFICATION FairSpec
CONSTANTS
  Threads = {1, 2}
  Roots = {ra, rb, rc}
  Owner <- TwoOwner
  Addr <- TwoAddr
  Objs = {top, mid, leaf}
  Home <- TwoHome
  Words = {left, right, down}
  In <- TwoIn
  Nr <- TwoNr
  Level <- TwoLevel
  MaxHandles <- TwoMax
  Overlap = FALSE
  Null = Null
  ra = ra
  rb = rb
  rc = rc
  top = top
  mid = mid
  leaf = leaf
  left = left
  right = right
  down = down
CHECK_DEADLOCK FALSE
INVARIANTS IInv CountExact NoOrphan PoolClean HandleSafe
PROPERTIES RedoKeeps AllReclaimed
