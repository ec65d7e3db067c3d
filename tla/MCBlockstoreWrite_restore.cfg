\* Two writes requesting version 1 queued behind a delete.
CONSTANTS
    Oids = {o1}
    NBlocks = 2
    MaxOps = 3
    ReqVersions = {0, 1}
    ImmediateCommit = "NONE"
    MaxWriteIodepth = 2
    AutosyncWrites = 0
    Autosync = TRUE
    ThrottleSmallWrites = FALSE
    InitClean <- MCInitClean
    ClientOpcodes = {"WRITE", "WRITE_STABLE", "DELETE"}
    ClientLens = {"FULL", "PART"}
SPECIFICATION Spec
INVARIANT VersionAboveClean
