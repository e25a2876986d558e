CONSTANTS
    MaxWorker = 3
    MaxReconfig = 2
    MayClose = TRUE
SPECIFICATION FairSpec
INVARIANTS OneProducer AgreedUnlessClosed ClosedWorkersAreGone
PROPERTIES ProductionResumes CloseEndsUnlessReconfig
CHECK_DEADLOCK FALSE
