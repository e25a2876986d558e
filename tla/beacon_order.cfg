CONSTANTS
    s1 = s1
    s2 = s2
    Shard <- MCShard
    Height2Confirm = 0
    ChannelCap = 2
    MaxTB = 3
    MaxEth = 4
    PerBlock = 3
    MinedInOrder = TRUE
SPECIFICATION Spec
SYMMETRY ShardSymmetry
INVARIANTS CompleteBlocks NeverContradicts DeliveredInOrder
CHECK_DEADLOCK FALSE
