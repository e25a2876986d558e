CONSTANTS
    Items <- MCItems
    Codes <- MCCodes
    Root = "root"
    Kids <- MCKids
    Subs <- MCSubs
    Depth <- MCDepth
    MaxFetches = 0
    MaxRestarts = 1
SPECIFICATION Spec
INVARIANTS StoredIsComplete CountersExact
PROPERTIES SyncCompletes
CHECK_DEADLOCK FALSE
