SPECIFICATION Spec
CONSTANTS
  Threads = {1, 2}
  Blocks = {ba, bb, bc}
  Pages = {pone, ptwo}
  PageOf <- TwoPages
  Keys = {ka, kb, kc}
  Values = {va, vb}
  Buckets = {0}
  PartOf <- ThreeParts
  BucketOf <- OneBucket
  MaxEra <- Eras
  FaultBeforeSwap = TRUE
  Null = Null
  va = va
  vb = vb
  ba = ba
  bb = bb
  bc = bc
  pone = pone
  ptwo = ptwo
  ka = ka
  kb = kb
  kc = kc
SYMMETRY Symmetry
CHECK_DEADLOCK FALSE
INVARIANTS NoWildEntry
