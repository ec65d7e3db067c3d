\* Three replicas, one scrub at a time with scrub_sleep_ms, two ticks of
\* clock, one PG deactivation or no_scrub change.
CONSTANTS
  Pgs = {1, 2}
  PgObjs <- MCPgObjs
  ListLimit = 2
  QueueDepth = 1
  ScrubSleep = TRUE
  AutoScrub = TRUE
  Interval = 1
  MaxTime = 2
  MaxChurn = 1
  Roles = {1, 2, 3}
  Copies <- MCCopies3
  FindBest = TRUE
  WriteObjs = {2}
SPECIFICATION Spec
INVARIANT VoteSound
PROPERTY ScrubbedOncePerRound
