SPECIFICATION FairSpec
CONSTANTS
    Kinds = {"get", "post", "badLine", "badHeader"}
    BodyLen = 2
    MaxRequests = 2
    MsgLen = 2
    FileLen = 2
    SndBuf = 3
    Overheads = {0, 2}
CHECK_DEADLOCK FALSE
INVARIANTS
    RequestsAreFaithful
    ResponsesAreWhole
PROPERTIES
    CompleteIsAnswered
    CloseIsDone
