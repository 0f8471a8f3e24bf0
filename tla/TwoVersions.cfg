SPECIFICATION Spec
CONSTANTS
    j1 = j1 j2 = j2 v1 = v1 v2 = v2 d1 = d1 s1 = s1 s2 = s2
    Jobs = {j1, j2}
    Versions = {v1, v2}
    Documents = {d1}
    Slots = {s1, s2}
    VersionOf <- TwoJobVersions
    DocumentOf <- TwoVersionDocuments
    MaxTries = 2
    MaxFaults <- HandlerDatabaseCrash
    TimeoutsAt <- Anywhere
    NoJob = NoJob
    NoVersion = NoVersion
    Unloaded = Unloaded
SYMMETRY Symmetry
CHECK_DEADLOCK FALSE
INVARIANTS
    DocumentShowsSomeVersion
    CurrentVersionIsIndexed
