\* Refutes: after the last recheck PENDING is preserved.
SPECIFICATION Spec
CONSTANTS
  r1 = r1
  Txns = {t1}
  Workers = {w1}
  Receipts = {r1}
  ReceiptOf <- SameReceipt
  None = None
  RecheckLimit = 2
  MaxPollAttempts = 1
  PollIds = {"fresh"}
  MaxUploads = 1
  CreditCap = 1
  MaxToggles = 0
  MaxCrashes = 0
  MaxStalls = 0
PROPERTIES LimitPreservesPending
CHECK_DEADLOCK FALSE
