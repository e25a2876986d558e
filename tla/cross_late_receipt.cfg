SPECIFICATION Spec
CONSTANTS
  s1 = s1
  s2 = s2
  t1 = t1
  t2 = t2
  Shard <- MCShard
  Tx <- MCTx
  Sender_sid <- StayFrom
  Recipient_sid <- StayTo
  RollbackHeight = 1
  MaxBlockSize = 1
  InjectSpeed = 1
  ExitMode = 0
  MaxHeight = 3
  ReceiptsInTime = FALSE
  BeaconsInOrder = TRUE
INVARIANT Atomicity
CHECK_DEADLOCK FALSE
