CONSTANTS
    Streams <- BothDirections
    NoStream = NoStream
    Request = "request"
    Response = "response"
    Defined <- BothDirections
    MaxSteps = 3
    MaxChunks = 2
    StartErrors = FALSE
    RaisedYields = FALSE
    DirectResume = FALSE
SPECIFICATION PluginSpec
INVARIANTS PassedOnTracksHost NilMeansRead NoStuckStream EndedNeverWaits
PROPERTY BodyHeldWhileAwaited
CHECK_DEADLOCK FALSE
