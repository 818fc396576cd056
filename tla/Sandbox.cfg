SPECIFICATION FairSandbox
CONSTANTS
    Stream = {"stdout", "stderr"}
    Chunk = 2
    Caps = {1, 2}
    Output <- MCOutput
    Forked <- MCForked
    Report = {big}
    Oversized = {big}
    Nil = Nil
INVARIANTS CaptureIsHonest EvidenceIsOutput
PROPERTIES AttemptEnds
CHECK_DEADLOCK FALSE
