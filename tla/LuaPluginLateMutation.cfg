CONSTANTS
    Streams <- BothDirections
    NoStream = NoStream
    Request = "request"
    Response = "response"
    Defined <- BothDirections
    MaxSteps = 3
    MaxChunks = 1
    StartErrors = FALSE
    RaisedYields = FALSE
    DirectResume = FALSE
SPECIFICATION PluginSpec
INVARIANT NoLateMutation
CHECK_DEADLOCK FALSE
