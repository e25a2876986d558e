SPECIFICATION Spec
CONSTANTS
  s1 = s1
  s2 = s2
  t1 = t1
  t2 = t2
  Shard <- MCShard
  Tx <- MCTx
  Sender_sid <- CrossBackFrom
  Recipient_sid <- CrossBackTo
  RollbackHeight = 1
  MaxBlockSize = 1
  InjectSpeed = 1
  ExitMode = 0
  MaxHeight = 2
  ReceiptsInTime = TRUE
  BeaconsInOrder = TRUE
INVARIANTS Atomicity AtMostOnce ConfirmedIsNotExpired DebitFirst NeverForgotten 
CHECK_DEADLOCK FALSE
