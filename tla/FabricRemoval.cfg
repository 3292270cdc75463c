SPECIFICATION Spec
CONSTANTS
    MaxIndex = 2
    MaxFabrics = 2
    Keys = {k1, k2}
    IcaKeys = {}
    Roots = {r1, r2}
    Labels = {""}
    EmptyLabel = ""
    None = None
    MayFail = {}
    MaxCrashes = 0
INVARIANTS
    FabricsSurviveRestart
