\* Out of data blocks with writes only: ENOSPC cancels the queued writes
\* of the object, and later writes reuse their versions (immediate_commit=all).
CONSTANTS
    Oids = {o1}
    NBlocks = 2
    MaxOps = 5
    ReqVersions = {0}
    ImmediateCommit = "ALL"
    MaxWriteIodepth = 2
    AutosyncWrites = 0
    Autosync = TRUE
    ThrottleSmallWrites = FALSE
    InitClean <- MCInitClean
    ClientOpcodes = {"WRITE"}
    ClientLens = {"FULL"}
SPECIFICATION Spec
INVARIANTS
    AllocatorConsistent
    VersionOrder
