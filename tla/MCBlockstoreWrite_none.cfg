\* immediate_commit = none, one object, autosync and throttling on.
CONSTANTS
    Oids = {o1}
    NBlocks = 2
    MaxOps = 3
    ReqVersions = {0, 1}
    ImmediateCommit = "NONE"
    MaxWriteIodepth = 2
    AutosyncWrites = 2
    Autosync = TRUE
    ThrottleSmallWrites = TRUE
    InitClean <- MCInitClean
    ClientOpcodes = {"WRITE", "WRITE_STABLE", "DELETE"}
    ClientLens = {"FULL", "PART"}
SPECIFICATION FairSpec
INVARIANTS
    TypeOK
    AllocatorConsistent
    SmallWaitsForBig
    CountersConsistent
    VersionOrder
PROPERTY EveryOpCompletes
