SPECIFICATION Spec
CONSTANTS
    Transactions = {t1, t2}
    Assets = {a1, a2}
    LogicalIDs = {n1, n2}
    Lanes = {l1, l2}
    Campaign <- OneOperation
    StageSets <- FullStages
    Plans = {}
    Releases = {r1}
    Targets = {f1}
    LeaseDurations = {1, 2}
    MaxApprovalLifetime = 1
    ReconciliationOutputs = {TRUE}
    Nil = Nil
    MaxTime = 2
    MaxEpoch = 2
    MaxSaveFailures = 1
SYMMETRY Symmetry
INVARIANTS
    LanesAreExclusive
    FenceIsCurrent
