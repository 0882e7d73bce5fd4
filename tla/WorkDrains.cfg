\* Small queues, three files for the PDF worker and one transaction of the verification worker.
SPECIFICATION DrainSpec
CONSTANTS
  Work = {"export", "archive", "push", "pdf", "recheck"}
  Workers = {w1, w2}
  None = None
  MaxStops = 1
  Exports = {x1}
  Branches = {}
  Business = Business
  AckLost = FALSE
  Receipts = {r1}
  Months = 1
  MaxBatches = 1
  BatchSize = 1
  MaxDeletes = 1
  CommitLost = FALSE
  Events = {e1}
  Overseers = {o1}
  Submitters = {}
  Admins = {}
  Devices = {d1}
  Files = {f1, f2, f3}
  Replies = {"decoded", "failed", "invalid", "malformed"}
  Verifiers = {v1, v2}
  Txns = {t1}
  Payment = Payment
  RecheckLimit = 2
  MaxPollAttempts = 2
  PollIds = {"fresh"}
  MaxUploads = 2
  CreditCap = 1
  MaxToggles = 2
  MaxCrashes = 0
  MaxStalls = 0
PROPERTIES EveryJobEnds EveryDecodeSettles EveryRecheckSettles
CHECK_DEADLOCK FALSE
