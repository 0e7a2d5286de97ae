SPECIFICATION Spec
CONSTANTS
    Requests <- RacingRequests
    Keys = {"a", "b", "c", "d", "e", "f"}
    Transactions = {"t", "u"}
    Bodies = {"x", "y"}
    Nil = Nil
    MaxSaveFailures = 3
INVARIANTS
    AcknowledgedIsApplied
    EffectOnce
    VersionConflictIsHonest
