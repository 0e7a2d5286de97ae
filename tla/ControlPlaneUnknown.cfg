SPECIFICATION Spec
CONSTANTS
    Transactions = {t1}
    Assets = {a1}
    LogicalIDs = {n1}
    Lanes = {l1, l2}
    Campaign <- OneOperation
    StageSets <- FullStages
    Plans = {p1}
    Releases = {r1}
    Targets = {f1}
    LeaseDurations = {2}
    MaxApprovalLifetime = 2
    ReconciliationOutputs = {TRUE, FALSE}
    Nil = Nil
    MaxTime = 3
    MaxEpoch = 3
    MaxSaveFailures = 1
SYMMETRY Symmetry
INVARIANTS
    HandlersSatisfyTheStore
