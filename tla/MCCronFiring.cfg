SPECIFICATION FairCronSpec
CONSTANTS
    Processes = {p1, p2}
    NoProcess = NoProcess
    p1 = p1
    p2 = p2
    Setups <- AnySetup
    Period = 2
    DeferMs = 1
    MaxLate = 1
    MaxTime = 4
    Faults <- Disturbances
    MaxFaults = 1
INVARIANTS
    RunsOnce
    CommittedMeansReplied
    NoSlotSkipped
PROPERTIES
    DueSlotFires
CHECK_DEADLOCK FALSE
