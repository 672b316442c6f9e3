CONSTANTS
    Streams <- BothDirections
    NoStream = NoStream
    Request = "request"
    Response = "response"
    Defined <- RequestOnly
    MaxSteps = 1
    MaxChunks = 1
    StartErrors = FALSE
    RaisedYields = FALSE
    DirectResume = FALSE
SPECIFICATION PluginSpec
INVARIANT NoStuckStream
CHECK_DEADLOCK FALSE
