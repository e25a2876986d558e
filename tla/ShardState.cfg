CONSTANTS
    ValueLen <- MCValueLen
    StorageNode <- MCStorageNode
    Addrs <- MCAddrs
    AddrHash <- MCAddrHash
    Initial <- MCInitial
    MaxValue = 7
    Txs <- MCTxs
    MaxBlockSize = 2
    Height2Reconfig = 3
    fastsyncBlockNum = 2
    MaxHeight = 4
SPECIFICATION Spec
INVARIANTS  LedgerAddsUp SyncSuffices
CHECK_DEADLOCK FALSE
