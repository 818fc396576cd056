SPECIFICATION FairMigrations
CONSTANTS
    Proc = {p1, p2}
    Version = {1, 2, 3}
    Checksum = {"a", "b", "x"}
    Directory <- MCDirectory
    Target = {Nil, 1, 2}
    Broken <- MCBroken
    Repeatable <- MCRepeatable
    MaxFaults = 1
    Nil = Nil
INVARIANTS SchemaIsRecorded BackupIsPast ReturnMeansMigrated
PROPERTIES FilesInOrder RetriesFinish
