SPECIFICATION FairSpec
CONSTANTS
  s1 = s1
  s2 = s2
  t1 = t1
  t2 = t2
  t3 = t3
  t4 = t4
  t5 = t5
  Shard <- MCShard
  Tx <- MCTx
  Sender_sid <- MCSender
  Recipient_sid <- MCRecipient
  RollbackHeight = 1
  MaxBlockSize = 2
  Offered <- MCOffered
  MaxBatch = 2
  MaxParent = 2
PROPERTIES KeepsPoolRules NoOvertaking EverythingLeaves
CHECK_DEADLOCK FALSE
