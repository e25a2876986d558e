CONSTANTS
    n0 = n0
    n1 = n1
    n2 = n2
    ComNode <- MCComNode
    MultiSignRequiredNum = 2
    MaxTB = 3
SPECIFICATION FairSignSpec
INVARIANTS WellSigned
PROPERTIES SigningEnds
CHECK_DEADLOCK FALSE
