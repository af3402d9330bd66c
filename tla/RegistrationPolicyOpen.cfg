SPECIFICATION Spec
CONSTANTS
    Proc = {p1, p2}
    Setting = {"registration"}
    FeeRule = {"free", "charged"}
    ZeroFee = "free"
    MaxVersions = 1
    MaxReports = 1
    MaxRegistered = 1
SYMMETRY Symmetry
INVARIANT OpenOnlyWhenApplied
