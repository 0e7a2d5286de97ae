SPECIFICATION Spec
CONSTANTS
    Procs = {p1}
    Approvers = {"alice"}
    NumOps = 1
    Skews = {0}
    Nil = Nil
    MaxRenewals = 2
    MaxEpoch = 2
    MaxReconciles = 1
INVARIANT RenewalYieldsProposal
CHECK_DEADLOCK FALSE
