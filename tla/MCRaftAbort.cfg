CONSTANTS
    Server = {s1, s2, s3}
    NoServer = NoServer
    MaxElections = 2
    MaxFaults = 1
SYMMETRY Symmetry
SPECIFICATION Spec
CHECK_DEADLOCK FALSE
INVARIANTS
    DemotionAborts
