SPECIFICATION KekGeneratedFairSpec
CONSTANTS
    Replicas = {r1, r2}
    Slots = {s1}
    AdminOps = {"schedule", "bulk", "destroy"}
    MaxRequests = 2
    MaxSchedules = 1
    MaxFirings = 1
    MaxFaults = 1
    Calls = {c1}
    Users = {u1}
    Addresses = {ip1}
    Asked <- MCAsked
    Served <- MCServed
    Deadline = 1
    Timeout = 1
    LongTimeout = 2
    AdminExpiry = 1
    CandidateExpiry = 2
    CaptchaThreshold = 1
    CaptchaWindow = 1
    MaxTime = 2
    QuestionIds = {g1}
    Fetches = {f1}
    Absent = Absent
    MaxPages = 2
    MaxDeleted = 1
PROPERTIES ScheduledIsReleased
CHECK_DEADLOCK FALSE
