\* Two concurrent alloc-osd runs while other tools remove OSD numbers (rm-osd).
CONSTANTS
  a1 = a1
  a2 = a2
  a3 = a3
  Allocators = {a1, a2}
  InitStats <- MCInitStats
  ExtIds <- MCExtIds
  AllowRemove = TRUE
  MaxChurn = 1
  GapBound = 5
SPECIFICATION FairSpec
PROPERTY EveryAllocationEnds
