\* Refutes: lease expiry safely reclaims an answered recheck.
SPECIFICATION FairSpec
CONSTANTS
  r1 = r1
  Txns = {t1}
  Workers = {w1}
  Receipts = {r1}
  ReceiptOf <- SameReceipt
  None = None
  RecheckLimit = 1
  MaxPollAttempts = 1
  PollIds = {"fresh"}
  MaxUploads = 1
  CreditCap = 1
  MaxToggles = 0
  MaxCrashes = 1
  MaxStalls = 0
PROPERTIES AnsweredRecheckIsReleased
CHECK_DEADLOCK FALSE
