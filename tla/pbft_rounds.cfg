CONSTANTS
    n0 = n0
    n1 = n1
    n2 = n2
    n3 = n3
    Leader = n0
    Backup <- MCBackup
    Absent = {}
    MaxRound = 2
    MaxReset = 1
    MessagesInTime = TRUE
SPECIFICATION PbftSpec
SYMMETRY BackupSymmetry
INVARIANTS QuorumBehindEach NoStuckRound
CHECK_DEADLOCK FALSE
