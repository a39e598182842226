SPECIFICATION ScreenSpec
CONSTANTS
    Checkpoints = {t1}
    Syncs = {y1, y2}
    MaxSessions = 2
    MaxEdits = 1
    MaxTicks = 1
    MaxOutages = 1
    MaxFaults = 1
    a = a
    b = b
    section1 = section1
    section2 = section2
    NoChoice = NoChoice
    Sections <- MCSections
    Options <- MCOptions
    Duration = 1
    MaxFailures = 1
INVARIANTS SubmissionFaithful SheetIsShown CalculatorComputes
PROPERTIES CheckpointsArrive TimeUpSubmits
CHECK_DEADLOCK FALSE
