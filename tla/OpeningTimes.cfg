SPECIFICATION OpeningSpec
CONSTANTS
    Pods = {r1, r2}
    Minute = 3
    Year = 9
    MaxDelay = 5
    Horizon = 12
    MaxChanges = 2
    q1 = q1
    q2 = q2
    Workers = {w1, w2}
    Msgs = {m1, m2}
    None = None
    SafePrimes = {7, 11, 23}
    Bases = {14}
    Rates = {2, 3}
    Target = 4
    Margin = 1
    LockHorizon = 5
    MaxFaults = 1
SYMMETRY OpeningSymmetry
INVARIANTS OpensAtItsMinute PuzzleSealsKey
PROPERTIES NoStaleTrigger
CHECK_DEADLOCK FALSE
