SPECIFICATION SystemSpec
CONSTANTS
    Job = {1}
    Run = {"r1"}
    RunOf <- MCOneRun
    AttemptId = {a1, a2}
    MaxAttempts <- MCBudget
    ReapArgs = {Nil}
    LeaseMs = 2
    MaxDelay = 1
    Outcome = {"accept", "invalid_evaluation"}
    MixedUp = FALSE
    Nil = Nil
    Worker = {w1, w2}
SYMMETRY MCSymmetry
INVARIANTS WorkerInv HeartbeatsEndWithRun
PROPERTIES QuarantineIsFinal LostLeaseNeverCommits ImplementsQueue
