SPECIFICATION FairSignalSpec
CONSTANTS
    Steers = {"s1"}
    Aborts = {"x"}
    Threads <- BothThreads
    MaxAttempts = 2
    Faults <- AllFaults
    MaxFaults = 1
INVARIANTS
    
    SteerHandledOnce
    RefusedMeansUnhandled
PROPERTIES
    AbortEndsRun
    SteerSettles
CHECK_DEADLOCK FALSE
