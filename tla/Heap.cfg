SPECIFICATION FairSpec
CONSTANTS
  Threads = {1, 2}
  Segs = {s1, s2}
  Pages = {1, 2, 3}
  SegOf <- Three
  Blocks = {ba, bb, bc, bd}
  PageOf <- Quad
  Sizes = {"o1"}
  Root = "root"
  None = None
  s1 = s1
  s2 = s2
  ba = ba
  bb = bb
  bc = bc
  bd = bd
CHECK_DEADLOCK FALSE
INVARIANTS TypeOK OnePlace UsedExact PageOwned HeldSafe
PROPERTIES AllReclaimed
