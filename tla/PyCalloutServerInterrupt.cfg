CONSTANTS
    Stoppers = {t1, t2}
    HealthModes <- WithHealthCheck
    Failures <- NoFailure
    Interrupts = TRUE
    WaitForSetup = TRUE
    MaxCalls = 2
SPECIFICATION FairSpec
PROPERTY InterruptEnds
CHECK_DEADLOCK FALSE
