SPECIFICATION Spec
CONSTANTS
    Approvals <- OneApproval
    PlanDigests = {"first"}
    MaxSequence = 1
    MaximumDuration = 1
    ObservationBudget = 1
    LeaseSafetyMargin = 1
    Nil = Nil
    MaxTime = 2
    MaxPutFailures = 0
INVARIANTS
    JournalTakesEveryOutcome
CHECK_DEADLOCK FALSE
