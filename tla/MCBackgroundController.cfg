SPECIFICATION FairBgSpec
CONSTANTS
    a = a
    b = b
    a1 = a1
    b1 = b1
    t1 = t1
    t2 = t2
    Instances = {a1, b1}
    Deployments = {a, b}
    DeploymentOf <- Replicas
    Tasks = {t1, t2}
    NoTask = NoTask
    TaskOf <- TaskPlacement
    NoDeployment = NoDeployment
    RequestIds = {r1, r2}
    NoRequest = NoRequest
    MaxGeneration = 2
    LegacyEnabled <- LegacyOwner
    Faults = {"lapse", "error", "lost", "crash"}
    MaxFaults = 1
INVARIANTS
    RelinquishedMeansNoClaims
    ClaimsOfOneDeployment
PROPERTIES
    HandoverCompletes
CHECK_DEADLOCK FALSE
