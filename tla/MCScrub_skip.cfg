\* Two PGs scrubbed one after the other with scrub_list_limit 2: PG 1's
\* list ends with a short batch and leaves the list cursor behind.
CONSTANTS
  Pgs = {1, 2}
  PgObjs <- MCPgObjs
  ListLimit = 2
  QueueDepth = 1
  ScrubSleep = TRUE
  AutoScrub = TRUE
  Interval = 1
  MaxTime = 2
  MaxChurn = 1
  Roles = {1, 2, 3}
  Copies <- MCCopies3
  FindBest = TRUE
  WriteObjs = {}
SPECIFICATION Spec
PROPERTY EveryObjectVisited
