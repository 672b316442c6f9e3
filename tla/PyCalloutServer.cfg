CONSTANTS
    Stoppers = {t1, t2}
    HealthModes <- WithOrWithout
    Failures <- AnyFailure
    Interrupts = TRUE
    WaitForSetup = TRUE
    MaxCalls = 2
SPECIFICATION FairSpec
INVARIANTS HealthyMeansServing ShutdownStops ClosedMeansStopped
PROPERTIES ShutdownEnds LoopInterruptEnds
CHECK_DEADLOCK FALSE
