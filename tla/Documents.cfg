SPECIFICATION FairSpec
CONSTANTS
    Null = Null
    Token = Token
    Drops <- SomeDrops
    MaxDrops = 2
    UploadIds <- SomeIds
    Reported <- SomeReported
    Starts = {4}
    FirstStore <- Nothing
CHECK_DEADLOCK FALSE
INVARIANTS
    TypeOK
    ListSpins
    EveryBarIsMoving
    DuplicateIsTransient
    CompletedIsFull
PROPERTIES
    AnswersInReadOrder
    DocumentsSettle
    LostUploadReturns
    UploadsEnd
