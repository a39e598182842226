SPECIFICATION SessionSpec
CONSTANTS
    start1 = start1
    sub1 = sub1
    sub2 = sub2
    save1 = save1
    save2 = save2
    load1 = load1
    sheetA = sheetA
    sheetB = sheetB
    kekA = kekA
    kekB = kekB
    Keks <- MCKeks
    ShortKek = ShortKek
    None = None
    Starts <- MCStarts
    Submits <- MCSubmits
    Saves <- MCSaves
    Loads <- MCLoads
    Answers <- MCAnswers
    Workloads <- MCWorkloads
    MaxTime = 2
    MaxFaults = 2
    MaxMessageCount = 7
    Clients = {c1, c2}
    Exams = {e1, e2}
    MaxLost = 1
    Types <- MCTypes
    ValidTypes <- MCValidTypes
    HashRank <- MCHashRank
    MaxInstant = 2
SYMMETRY MCSymmetry
INVARIANTS ReceiptsKeepTheirAnswers ProofsFitOneLeaf ResumesFromNewest ToldIsFound
CHECK_DEADLOCK FALSE
