SPECIFICATION FairSpec
CONSTANTS
    Null = Null
    Token = Token
    Typed <- SomeTyped
    Answers <- SomeAnswers
    AgentSteps = 1
    MaxTurns = 3
    Words = {"a", "b", "c", "d", "x"}
    TextOf <- SomeTextOf
    MaxCompares = 2
    Library <- SomeLibrary
    TenantDocs <- SomeDocs
    TenantFindings <- SomeFindings
    Probes = {"redis", "worker"}
    Critical = {"redis"}
INVARIANTS
    TypeOK
    SpinnersAreHonest
    BusyMeansAsking
    AnswerAtItsQuestion
    MismatchIsFlagged
    DiffIsExact
    OutlineKeepsClauses
    OverviewAddsUp
PROPERTIES
    SettledTurnIsFinal
    QuestionsEnd
    OutageShown
