SPECIFICATION ConsoleSpec
CONSTANTS
    alice = alice
    bob = bob
    s1 = s1
    s2 = s2
    qA = qA
    qB = qB
    qC = qC
    None = None
    Candidates <- MCCandidates
    Sessions <- MCSessions
    Questions <- MCQuestions
    InitialBank <- MCInitialBank
    Seed <- MCSeed
    Key <- MCKey
    Sheets <- MCSheets
    Plans <- MCPlans
    PaperLength = 2
    Full = 4
    Spread = 1
    MaxJobs = 2
    MaxSubmissions = 3
    MaxConsoleFaults = 1
INVARIANTS CompletedMeansDone GradedOnOwnPaper
PROPERTIES ResultStands JobsComplete ConsoleSettles
CHECK_DEADLOCK FALSE
