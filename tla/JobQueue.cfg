SPECIFICATION Spec
CONSTANTS
    Job = {1, 2, 3}
    Run = {"r1", "r2"}
    RunOf <- MCRunOf
    AttemptId = {a1, a2, a3}
    MaxAttempts <- MCBudget
    ReapArgs = {Nil, 2}
    LeaseMs = 1
    MaxDelay = 1
    Outcome = {"accept", "error"}
    MixedUp = TRUE
    Nil = Nil
SYMMETRY MCSymmetry
INVARIANTS IInv VerdictIntegrity VerdictFromLastClaim ActiveAttemptIsCurrent AttemptRowCheck RetryBudget FenceHistory RunVerdict
PROPERTIES TerminalIsFinal CancelStopsWork LiveLeaseIsKept ImplementsFencedRegister
