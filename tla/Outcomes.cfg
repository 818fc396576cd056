SPECIFICATION OutcomeSpec
CONSTANTS
    TestId = {t1, t2}
    MaxSigns = 2
    MaxTests = 2
    Nil = Nil
INVARIANTS GradesAreClean AcceptMeansPassed OrderDoesNotMatter
CHECK_DEADLOCK FALSE
