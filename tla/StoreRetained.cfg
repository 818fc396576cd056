SPECIFICATION StoreSpec
CONSTANTS
    Digest = {1}
    Worker = {w1}
    Importer = {i1}
    ImportPolicy = {"public", "sealed"}
    Retention = {1}
    MaxTime = 1
    MaxCrashes = 0
    Nil = Nil
INVARIANTS EvidenceIsRetained
