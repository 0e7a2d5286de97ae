SPECIFICATION Spec
CONSTANTS
    Transactions = {t1}
    Assets = {a1}
    LogicalIDs = {n1}
    Lanes = {l1, l2}
    Campaign <- TwoOperations
    StageSets <- BothStages
    Plans = {p1, p2}
    Releases = {r1}
    Targets = {f1, f2}
    LeaseDurations = {2}
    MaxApprovalLifetime = 2
    ReconciliationOutputs = {TRUE}
    Nil = Nil
    MaxTime = 3
    MaxEpoch = 3
    MaxSaveFailures = 1
SYMMETRY Symmetry
INVARIANTS
    CampaignInOrder
    StatusAgreesWithHistory
    ApprovalIsFenced
    SecurityAppliedIsComplete
    HandlersSatisfyTheStore
PROPERTIES
    TerminalIsFinal
    HistoryIsAppendOnly
    EpochNamesOneClaim
