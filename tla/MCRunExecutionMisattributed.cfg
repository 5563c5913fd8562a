SPECIFICATION ExecSpec
CONSTANTS
    Runs = {1, 2}
    s1 = s1
    k1 = k1
    Sessions = {s1}
    SessionOf <- OneSession
    DedupKeys = {k1}
    DedupKeyOf <- NoKeys
    NoKey = NoKey
    MaxAttempts = 2
    MaxClaims = 2
    MaxTokens = 3
    Workers = {w1, w2}
    Reapers = {p1}
    Faults = {"stall"}
    MaxReaperDeaths = 0
SYMMETRY Symmetry
INVARIANTS
    AnsweredRunHasItsAnswer
CHECK_DEADLOCK FALSE
