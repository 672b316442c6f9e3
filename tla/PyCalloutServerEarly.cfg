CONSTANTS
    Stoppers = {t1, t2}
    HealthModes <- WithOrWithout
    Failures <- NoFailure
    Interrupts = FALSE
    WaitForSetup = FALSE
    MaxCalls = 2
SPECIFICATION Spec
INVARIANT ShutdownStops
CHECK_DEADLOCK FALSE
