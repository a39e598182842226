SPECIFICATION CheckSpec
CONSTANTS
    cA = cA
    cB = cB
    cE = cE
    cand1 = cand1
    cand2 = cand2
    cand3 = cand3
    cand4 = cand4
    cand5 = cand5
    Centers <- MCCenters
    CandidatesOf <- MCCandidatesOf
    Answers <- MCAnswers
    Correct <- MCCorrect
    Likeness <- MCLikeness
    Unlikeness <- MCUnlikeness
    NullScores <- MCNullScores
    OneIn = 3
    Handlers = {h1}
    Workers = {w1, w2}
    MaxMsgs = 3
    MaxBreaks = 1
INVARIANTS OneThreshold AnsweredIsComplete
PROPERTIES JobsAnswered
CHECK_DEADLOCK FALSE
