CONSTANTS
    Streams <- BothDirections
    NoStream = NoStream
    Request = "request"
    Response = "response"
    Defined <- BothDirections
    MaxSteps = 2
    MaxChunks = 1
    StartErrors = TRUE
    RaisedYields = FALSE
    DirectResume = FALSE
SPECIFICATION FairPluginSpec
INVARIANT KeptOnlyOnError
PROPERTY EndedIsReleased
CHECK_DEADLOCK FALSE
