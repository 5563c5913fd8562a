SPECIFICATION OwnershipSpec
CONSTANTS
    a = a
    b = b
    a1 = a1
    a2 = a2
    b1 = b1
    t1 = t1
    t2 = t2
    Instances = {a1, a2, b1}
    Deployments = {a, b}
    DeploymentOf <- Replicas
    Tasks = {t1, t2}
    NoTask = NoTask
    TaskOf <- TaskPlacement
    NoDeployment = NoDeployment
    RequestIds = {r1, r2}
    NoRequest = NoRequest
    MaxGeneration = 3
INVARIANTS
    OneOwner
    ReadyMeansDesired
PROPERTIES
    RetiredIsFinal
