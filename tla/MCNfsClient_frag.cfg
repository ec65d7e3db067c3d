CONSTANTS
  Records <- MCRecordsFrag
  InitBuf = 8
  BufIds = {1, 2, 3}
  Modes = {"SYNC"}
  MaxEagain = 0
SPECIFICATION Spec
INVARIANT StreamInSync
