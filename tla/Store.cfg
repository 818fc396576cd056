SPECIFICATION FairStore
CONSTANTS
    Digest = {1, 2}
    Worker = {w1}
    Importer = {i1}
    ImportPolicy = {"public", "sealed"}
    Retention = {1}
    MaxTime = 1
    MaxCrashes = 1
    Nil = Nil
INVARIANTS StoreInv
PROPERTIES PurgeOnlyExpired ExpiredIsPurged
