CONSTANTS
    Streams = {s1, s2}
    Configurations <- MCConfigurations
    MaxStates = 2
SPECIFICATION RuntimeSpec
INVARIANTS
    ThreadsAnchored
    AcceptedConfigurationRuns
    NoStatusSeen
CHECK_DEADLOCK FALSE
