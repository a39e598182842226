SPECIFICATION DeliverySpec
CONSTANTS
    s1 = s1
    s2 = s2
    c1 = c1
    q1 = q1
    q2 = q2
    CenterOf <- MCCenterOf
    Questions = {q1, q2}
    Papers <- MCPapers
    Requests = {r}
    MaxDraws = 2
    MaxFaults = 1
    Items = {q1, q2}
    Texts = {"text", "edited"}
    MaxCalls = 3
    Readers = {r}
    MaxRejected = 1
INVARIANTS OneDrawPerPaper VaultOpens
CHECK_DEADLOCK FALSE
