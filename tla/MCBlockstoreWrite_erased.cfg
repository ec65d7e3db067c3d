\* Out of data blocks: a big write fails with ENOSPC while later
\* operations of the same object are queued.
CONSTANTS
    Oids = {o1}
    NBlocks = 2
    MaxOps = 3
    ReqVersions = {0}
    ImmediateCommit = "NONE"
    MaxWriteIodepth = 2
    AutosyncWrites = 0
    Autosync = TRUE
    ThrottleSmallWrites = FALSE
    InitClean <- MCInitClean
    ClientOpcodes = {"WRITE", "WRITE_STABLE", "DELETE"}
    ClientLens = {"FULL", "PART"}
SPECIFICATION Spec
INVARIANT NoErasedDequeue
