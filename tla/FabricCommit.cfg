SPECIFICATION FairSpec
CONSTANTS
    MaxIndex = 2
    MaxFabrics = 2
    Keys = {k1, k2, k3}
    IcaKeys = {k1}
    Roots = {r1, r2}
    Labels = {""}
    EmptyLabel = ""
    None = None
    MayFail = {"icac", "index"}
    MaxCrashes = 1
INVARIANTS
    TypeOK
    StorageIsInUse
    UndisturbedFabricsSurviveRestart
    NothingToCommitWhenDisarmed
    CleanupSparesCommitted
    NextIndexIsFree
PROPERTIES
    DirectorySpec
    DoubtIsSettled
    PendingIsResolved
