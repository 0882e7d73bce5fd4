\* Two workers, one of which outlives its lease: the rows and the fencing.
SPECIFICATION Spec
CONSTANTS
  r1 = r1
  Txns = {t1}
  Workers = {w1, w2}
  Receipts = {r1}
  ReceiptOf <- SameReceipt
  None = None
  RecheckLimit = 2
  MaxPollAttempts = 2
  PollIds = {"same", "fresh"}
  MaxUploads = 1
  CreditCap = 1
  MaxToggles = 0
  MaxCrashes = 0
  MaxStalls = 1
INVARIANTS OneOpenAttempt PendingHasRecheck
PROPERTY LeaseFencing
SYMMETRY Symmetry
CHECK_DEADLOCK FALSE
