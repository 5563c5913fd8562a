SPECIFICATION FairSwarmSpec
CONSTANTS
    m1 = m1
    m2 = m2
    Members = {m1, m2}
    NoMember = NoMember
    Calls = {"c1", "c2", "c3", "c4"}
    CallOf <- Asked
    Agents = 2
    Messages = 3
    Notifications = 3
    MaxTries = 1
    Faults = {"error", "slow", "crash"}
    MaxFaults = 1
INVARIANTS
    RequestOnce
    BudgetHeld
    ReadyIsEquipped
    FailedGetsNoWork
    CleanedLeavesNothing
    NotifiedOnce
PROPERTIES
    SwarmSettles
CHECK_DEADLOCK FALSE
