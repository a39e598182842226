SPECIFICATION FrontSpec
CONSTANTS
    Replicas = {r1, r2}
    Slots = {s1}
    AdminOps = {"schedule", "cancel", "bulk", "genKek", "destroy", "emergency"}
    MaxRequests = 4
    MaxSchedules = 2
    MaxFirings = 1
    MaxFaults = 1
    Calls = {c1, c2, c3}
    Users = {u1}
    Addresses = {ip1}
    Asked <- MCAsked
    Served <- MCServed
    Deadline = 1
    Timeout = 1
    LongTimeout = 2
    AdminExpiry = 1
    CandidateExpiry = 2
    CaptchaThreshold = 1
    CaptchaWindow = 1
    MaxTime = 2
    QuestionIds = {g1, g2, g3}
    Fetches = {f1, f2, f3}
    Absent = Absent
    MaxPages = 2
    MaxDeleted = 1
SYMMETRY FrontSymmetry
INVARIANTS AuditTells FreeChecksAreFew BankIsWhole
PROPERTIES ImplementsCustody
CHECK_DEADLOCK FALSE
