\* Two transactions of one payment, a worker that crashes, and a branch that is suspended.
SPECIFICATION Spec
CONSTANTS
  r1 = r1
  Txns = {t1, t2}
  Workers = {w1}
  Receipts = {r1}
  ReceiptOf <- SameReceipt
  None = None
  RecheckLimit = 1
  MaxPollAttempts = 1
  PollIds = {"same", "fresh"}
  MaxUploads = 2
  CreditCap = 1
  MaxToggles = 1
  MaxCrashes = 1
  MaxStalls = 0
INVARIANTS ChargedOnce StoppedWorkAlerted CreditedOnce
PROPERTIES ConfirmationSpec
SYMMETRY Symmetry
CHECK_DEADLOCK FALSE
