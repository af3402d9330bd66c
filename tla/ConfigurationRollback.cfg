SPECIFICATION Spec
CONSTANTS
    Proc = {p1, p2}
    Setting = {"registration"}
    FeeRule = {"free", "charged"}
    ZeroFee = "free"
    MaxVersions = 3
    MaxReports = 2
    MaxRegistered = 1
VIEW WithoutAnswer
SYMMETRY Symmetry
PROPERTY RollbackTargetsLastKnownGood
