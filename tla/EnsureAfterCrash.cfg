SPECIFICATION Spec
CONSTANTS
    api = api worker = worker replica = replica
    Processes = {api}
    MaxFaults = 1
CHECK_DEADLOCK FALSE
INVARIANTS
    EnsuredIsComplete
