\* Three concurrent alloc-osd runs, other tools starting and removing OSDs.
CONSTANTS
  a1 = a1
  a2 = a2
  a3 = a3
  Allocators = {a1, a2, a3}
  InitStats <- MCInitStats
  ExtIds <- MCExtIds
  AllowRemove = TRUE
  MaxChurn = 2
  GapBound = 5
SPECIFICATION Spec
INVARIANT GapSearchCorrect
PROPERTY AllocRefinement
