SPECIFICATION Spec
CONSTANTS
    api = api worker = worker replica = replica
    Processes = {api, worker, replica}
    MaxFaults = 2
CHECK_DEADLOCK FALSE
INVARIANTS
    TypeOK
    GapHasCause
PROPERTIES
    StartAlwaysServes
    FirstStartCompletes
