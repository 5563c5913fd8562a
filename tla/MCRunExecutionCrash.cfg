SPECIFICATION FairExecSpec
CONSTANTS
    Runs = {1, 2}
    s1 = s1
    k1 = k1
    Sessions = {s1}
    SessionOf <- OneSession
    DedupKeys = {k1}
    DedupKeyOf <- NoKeys
    NoKey = NoKey
    MaxAttempts = 2
    MaxClaims = 2
    MaxTokens = 5
    Workers = {w1}
    Reapers = {p1}
    Faults = {"skew"}
    MaxReaperDeaths = 1
INVARIANTS
    AnsweredAtMostOnce
    AnsweredRunHasItsAnswer
    NeverRefusedBusy
PROPERTIES
    EveryRunFinishes
CHECK_DEADLOCK FALSE
