\* EC pool, immediate_commit=all: stabilize and extra-copy deletion paths.
CONSTANTS
  w1 = w1  w2 = w2  w3 = w3  o1 = o1  o2 = o2
  Ops = {w1, w2, w3}
  Oids = {o1, o2}
  OpOid <- MCOpOid
  OpCas <- MCOpCas
  OpFull <- MCOpFull
  Scheme = "EC"
  ImmediateCommit = "ALL"
  AutosyncWrites = 2
  VerBits = 4
  EpochBits = 2
  InitVer <- MCInitVer
  InitObjState <- MCInitDegraded
  InitEpoch = 1
  InitFlush = {o2}
  MaxReadErrors = 1
SPECIFICATION FairSpec
INVARIANT SerializedPerObject EpochReportedBeforeWrite ReadCheckWriteAtomic
PROPERTY AckedVersionsIncrease EveryWriteAnswered
