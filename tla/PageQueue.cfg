SPECIFICATION FairSpec
CONSTANTS
  Pages = {pa, pb, pq, pd}
  Class = Class
  FreePage = FreePage
  Null = Null
CHECK_DEADLOCK FALSE
INVARIANTS IInv Linked NoneMissed
PROPERTIES WalkOnce WalkEnds ImplementsPageList
