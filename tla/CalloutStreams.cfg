SPECIFICATION CalloutSpec
CONSTANTS
    Calls = {c1, c2}
    Deployments <- MCDeployments
    ServerThreads = 1
    MaxInbox = 1
PROPERTIES
    ImplementsExtProc
    CallsEnd
