SPECIFICATION Spec
CONSTANTS
    Proc = {p1, p2}
    Setting = {"registration", "catalog", "fee"}
    FeeRule = {"free", "charged"}
    ZeroFee = "free"
    MaxVersions = 2
    MaxReports = 2
    MaxRegistered = 1
VIEW WithoutAnswer
SYMMETRY Symmetry
INVARIANT TypeOK
INVARIANT LastAcknowledgementDecides
INVARIANT RollbackRestoresApplied
PROPERTY ImplementsRegister
INVARIANT NoVersionOverwritten
