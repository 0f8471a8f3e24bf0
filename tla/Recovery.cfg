SPECIFICATION Spec
CONSTANTS
    j1 = j1 j2 = j2 v1 = v1 v2 = v2 d1 = d1 s1 = s1 s2 = s2
    Jobs = {j1}
    Versions = {v1}
    Documents = {d1}
    Slots = {s1, s2}
    VersionOf <- OneJobVersions
    DocumentOf <- OneVersionDocuments
    MaxTries = 3
    MaxFaults <- AllButStall
    TimeoutsAt <- Anywhere
    NoJob = NoJob
    NoVersion = NoVersion
    Unloaded = Unloaded
SYMMETRY Symmetry
CHECK_DEADLOCK FALSE
INVARIANTS
    TypeOK
    OneRunPerJob
    SessionIsCurrent
    ShownStageIsExecuting
    SuccessIsWhole
    FailureNamesStage
PROPERTIES
    OnlyAnAttemptReopens
    ImplementsLifecycle
