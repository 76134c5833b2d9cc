\* Every platform, one restart.  The program may wait for ever for its first
\* query, so deadlock is not checked.
SPECIFICATION Spec
CONSTANTS
    en0 = en0
    en1 = en1
    one = one
    two = two
    Here = Here
    Comment = Comment
    Interfaces <- MCInterfaces
    Servers <- MCServers
    MaxStarts = 2
    MaxSignals = 2
    MaxQueries = 1
    MaxSwitches = 1
    UserConfigs <- Configs
    UserPlatforms <- AllPlatforms
    Listings <- MCListings
INVARIANTS
    TypeOK
    CleanStopGivesBack
    NilMapOnlyAfterCrash
    AtMostOneConfigTest
    NothingLostBeforeRestore
    TornFileIsBeingWritten
    NoLostSignal
PROPERTIES
    SignalEndsProgram
CHECK_DEADLOCK FALSE
