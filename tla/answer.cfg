SPECIFICATION Spec
CONSTANTS
    WordSize = 2
    WordLimit = 256
    MaxSize = 100
    Answers <- MCAnswers
    Chunks <- MCChunks
    MaxMessage = 30
INVARIANTS
    PrintsTheAnswer
    ShortAnswersArrive
    AnnouncementsDecodeWhole
    AnswersRoundTrip
PROPERTIES
    TransferEnds
CHECK_DEADLOCK FALSE
