\* immediate_commit = small: a small write after an unsynced big write of
\* the same object, with a third write queued behind it.  The system stops
\* there; the liveness property reports it, so deadlock is not checked.
CONSTANTS
    Oids = {o1}
    NBlocks = 3
    MaxOps = 3
    ReqVersions = {0}
    ImmediateCommit = "SMALL"
    MaxWriteIodepth = 2
    AutosyncWrites = 0
    Autosync = TRUE
    ThrottleSmallWrites = FALSE
    InitClean <- MCInitClean
    ClientOpcodes = {"WRITE"}
    ClientLens = {"FULL", "PART"}
SPECIFICATION FairSpec
PROPERTY EveryOpCompletes
CHECK_DEADLOCK FALSE
