SPECIFICATION Spec
CONSTANTS
    j1 = j1 j2 = j2 v1 = v1 v2 = v2 d1 = d1 s1 = s1 s2 = s2
    Jobs = {j1, j2}
    Versions = {v1, v2}
    Documents = {d1}
    Slots = {s1, s2}
    VersionOf <- TwoJobVersions
    DocumentOf <- TwoVersionDocuments
    MaxTries = 3
    MaxFaults <- NoFault
    TimeoutsAt <- Anywhere
    NoJob = NoJob
    NoVersion = NoVersion
    Unloaded = Unloaded
CHECK_DEADLOCK FALSE
INVARIANTS
    DocumentShowsExecutingStage
