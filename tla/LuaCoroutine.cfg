CONSTANTS
    Streams <- OneStream
    NoStream = NoStream
    Defined <- OneStream
    MaxSteps = 6
    StartErrors = TRUE
    RaisedYields = TRUE
    DirectResume = TRUE
SPECIFICATION CoSpec
INVARIANTS CoTypeOK ThreadAgrees
PROPERTY ChunkDeliveredOnce
