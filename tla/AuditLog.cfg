SPECIFICATION Spec
CONSTANTS
    AppendRequests <- SharedRequests
    IdempotencyKeys = {"k1", "k2", "k3"}
    EventIDs = {"e1", "e2", "e3"}
    Events = {"intent", "outcome"}
    MaxTime = 2
    MaxSaveFailures = 2
INVARIANTS
    ReceiptsStand
    OneReceiptPerEvent
