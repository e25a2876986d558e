SPECIFICATION Spec
CONSTANTS
    n1 = n1  n2 = n2  n3 = n3  n4 = n4
    a1 = a1  a2 = a2  a3 = a3  a4 = a4
    t1 = t1
    Nodes <- MCNodes
    ShardNum = 2
    Accounts <- MCAccounts
    ChainMode = 2
    GanacheChainAccounts <- MCGanache
    PriKeys <- MCPriKeys
    Vrf <- MCVrf
    VrfRest = 4
    minSigCnt = 2
    InitTable <- MCInitTable
    BooterKey = a1
    Height2Reconfig = 2
    MinComNodes = 2
    Txs <- MCTxs
    TxCom <- MCTxCom
    Heights <- MCHeights
    MaxBlocks <- MCMaxBlocks
    SeedsInTime = TRUE
    TablesInTime = TRUE
    ClientsInTime = TRUE
INVARIANTS NoNonceGap OneLeaderEach NoneFails PoolsHandedOver ContractInStep IdleIsComplete
CHECK_DEADLOCK FALSE
