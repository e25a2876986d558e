CONSTANTS
    Keys <- MCKeys
    Entries <- MCEntries
    Probes <- MCProbes
    ValueLen <- MCValueLen
    StorageNode <- MCStorageNode
    Limits <- MCLimits
    BatchLen = 2
    MaxCommits = 2
    MaxJobs = 1
    MaxCrashes = 1
SPECIFICATION Spec
INVARIANTS HoldsContent LiveRootsReadable DiskIsClosed BooksBalance ReadersAgree ProofsExact
CHECK_DEADLOCK FALSE
