SPECIFICATION Spec
CONSTANTS
    Procs = {p1, p2}
    Approvers = {"alice"}
    NumOps = 1
    Skews = {1}
    Nil = Nil
    MaxRenewals = 2
    MaxEpoch = 2
    MaxReconciles = 1
INVARIANTS EveryRecordIsAudited ResolutionsAreTrue AuditedStepsCanFinish
PROPERTY ReconciliationEndsMutation
CHECK_DEADLOCK FALSE
SYMMETRY Symmetry
