SPECIFICATION EmergencySpec
CONSTANTS
    Replicas = {r1, r2}
    Slots = {s1, s2}
    Holders = {h1, h2, h3, h4, h5}
    Wrong = {h4}
    Short = {h5}
    MaxFragments = 4
    MaxAttempts = 2
    MaxFaults = 1
    Shares = 5
SYMMETRY HolderSymmetry
INVARIANTS WrongOnlyFromWrong KeyFromItsFragments
PROPERTIES KeptUntilReleased ImplementsApproval
CHECK_DEADLOCK FALSE
