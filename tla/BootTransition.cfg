SPECIFICATION FairSpec
CONSTANTS
    Actions <- CommitCampaign
    PowerModes = {"relay", "manual"}
    InitialModes = {"auto_reconcile"}
    MaxGeneration = 1
    MaxSaveFailures = 1
    MaxCrashes = 2
    MaxSwaps = 1
    Nil = Nil
INVARIANTS
    ClosedLaneIsOff
    CommitReachesItsFreshBoard
    JournalTakesEveryRecord
PROPERTIES
    CompletedIsExecuted
    OldTransitionsAreNotResumed
    QuarantineIsALock
    TransitionsEnd
