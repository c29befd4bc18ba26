SPECIFICATION Spec
CONSTANTS
    s1 = s1
    s2 = s2
    Endpoints = {s1}
    MaxEvents = 2
    MaxHalts = 1
    MaxManual = 1
    MaxAttempts = 2
    Threshold = 3
    DrainLimit = 2
INVARIANTS ProcessingIsRunning
PROPERTIES HaltStopsTraffic BrokenEndpointRests PromiseKept EveryEventSettles
CHECK_DEADLOCK FALSE
