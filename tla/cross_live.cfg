SPECIFICATION FairSpec
CONSTANTS
  s1 = s1
  s2 = s2
  t1 = t1
  t2 = t2
  Shard <- MCShard
  Tx <- MCTx
  Sender_sid <- StayFrom
  Recipient_sid <- StayTo
  RollbackHeight = 1
  MaxBlockSize = 1
  InjectSpeed = 1
  ExitMode = 0
  MaxHeight = 1
  ReceiptsInTime = TRUE
  BeaconsInOrder = TRUE
PROPERTY EventuallySettled
CHECK_DEADLOCK FALSE
