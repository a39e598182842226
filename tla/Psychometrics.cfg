SPECIFICATION PsychometricsSpec
CONSTANTS
    ohm = ohm
    ohm2 = ohm2
    joule = joule
    t0 = t0
    i1 = i1
    i2 = i2
    i3 = i3
    None = None
    Insts <- MCInsts
    Fits <- MCFits
    Epsilon <- MCEpsilon
    CalMsgs = {m1, m2}
    MaxCalFaults = 2
    Clients = {c1, c2}
    Ids = {a, b}
    NewTemplates <- MCNewTemplates
    Edits <- MCEdits
    SimilarTexts <- MCSimilarTexts
    BadTexts = {}
    SampleCount = 1
    Plans <- MCPlans
    MaxRequests = 3
    a1 = a1
    a2 = a2
    b1 = b1
    b2 = b2
    easy = easy
    hard = hard
    iA = iA
    iB = iB
    Nothing = Nothing
    Cohorts <- MCCohorts
    Raw <- MCRaw
    Variant <- MCVariant
    Items <- MCItems
    Critical <- MCCritical
    ItemFits = {0, 2}
    TrueScore <- MCTrueScore
    Msgs = {m1, m2}
    Default = 1
    BatchSize = 3
    MaxFits = 2
    MaxFaults = 1
INVARIANTS BankIsSound  
PROPERTIES CalibrationSettles
CHECK_DEADLOCK FALSE
