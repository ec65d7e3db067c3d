CONSTANTS
  Records <- MCRecords
  InitBuf = 3
  BufIds = {1, 2, 3}
  Modes = {"SYNC", "SYNC_REF", "ASYNC", "ASYNC_REF"}
  MaxEagain = 1
SPECIFICATION FairSpec
INVARIANTS TypeOK RequestIntact RefsExact StreamInSync
PROPERTIES EveryRequestAnswered ClientFreed RpcRefinement
