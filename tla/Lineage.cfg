SPECIFICATION LineageSpec
CONSTANTS
    Case = {c1, c2, c3}
    Foreign = {f}
    FrameLimit = {2, 3}
    Nil = Nil
INVARIANTS LineageIsDecided CycleIsShown
CHECK_DEADLOCK FALSE
