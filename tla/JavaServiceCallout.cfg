CONSTANTS
    MaxStarts = 3
    MaxCalls = 2
SPECIFICATION FairSpec
INVARIANTS JavaTypeOK StartedMeansServing GracefulStop ReturnedMeansTerminated
PROPERTY ShutdownHalts
CHECK_DEADLOCK FALSE
