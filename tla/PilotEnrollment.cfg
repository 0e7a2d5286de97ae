SPECIFICATION FairSpec
CONSTANTS
    Enrollment = enrollment
    Renewals = {r1, r2}
    Recoveries = {x}
    Nil = Nil
    CredentialTerm = 2
    ChallengeTerm = 1
    IssuerTerm = 2
    MaxHistory = 2
    MaxContinuations = 1
    MaxBytes = 22
    MaxTime = 3
    MaxFaults = 1
INVARIANTS
    ProofsAreSaved
    ChainFollowsFleet
CHECK_DEADLOCK FALSE

PROPERTY
    InterruptionsAreFinished
