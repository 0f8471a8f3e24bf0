SPECIFICATION SystemSpec
CONSTANTS
    Null = Null
    Token = Token
    Probes = {"redis", "worker"}
    Critical = {"redis"}
INVARIANT
    PageTellsTheTruth
