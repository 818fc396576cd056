SPECIFICATION MatrixSpec
CONSTANTS
    Job = {1, 2}
    Run = {"r1"}
    RunOf <- MCOneRun
    AttemptId = {a1, a2, a3}
    MaxAttempts <- MCBudget
    ReapArgs = {Nil}
    LeaseMs = 1
    MaxDelay = 0
    Outcome = {"accept", "reject", "error"}
    MixedUp = FALSE
    Nil = Nil
    Audit = "r1"
    Cell = {"cell"}
    CellOf <- MCOneCell
    RepetitionOf <- MCRepetition
    MaxRepetitions = 2
SYMMETRY MCSymmetry
INVARIANTS GradesAreVerdicts CompleteMatrixIsDecided
PROPERTIES GradesAreStable
