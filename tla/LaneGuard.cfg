SPECIFICATION Spec
CONSTANTS
    Approvals <- TwoPlans
    PlanDigests = {"first", "second"}
    MaxSequence = 2
    MaximumDuration = 1
    ObservationBudget = 1
    LeaseSafetyMargin = 1
    Nil = Nil
    MaxTime = 2
    MaxPutFailures = 1
INVARIANTS
    ExecuteOnce
    DispatchIsJournaled
    LeaseOutlivesExecution
    VerdictsAreTrue
PROPERTIES
    CommittedTargetIsLeftAlone
    ReconcilingGuardIsDisarmed
    RecordsAreFinal
    ImplementsOneTimeOperations
CHECK_DEADLOCK FALSE
