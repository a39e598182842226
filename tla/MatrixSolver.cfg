SPECIFICATION MatrixSpec
CONSTANTS
    c1 = c1
    c2 = c2
    a = a
    b = b
    q1 = q1
    q2 = q2
    q3 = q3
    q4 = q4
    Callbacks = {w1, w2}
    SeatOrder <- MCSeatOrder
    SeatsOf <- MCSeatsOf
    SeatsPerRow <- MCSeatsPerRow
    Topic <- MCTopic
    Difficulty <- MCDifficulty
    Blueprint <- MCBlueprint
    Unit = 2
    Underscored = {c2}
    Msgs = {m1, m2}
    Callers = {h1, h2}
    Blueprints = {bp1, bp2, bp3}
    Balanced = {bp1, bp2}
    BatchSize = 1
    MaxIterations = 2
    MaxFaults = 2
INVARIANTS BestIsKept OneDrawStored
PROPERTIES JobsSettle
CHECK_DEADLOCK FALSE
