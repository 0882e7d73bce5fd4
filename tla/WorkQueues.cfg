\* Two workers on each of the three queues; one claim may end with its process.
SPECIFICATION MCSpec
CONSTANTS
  Queues = {"export", "archive", "push"}
  Workers = {w1, w2}
  None = None
  MaxStops = 1
  Exports = {x1}
  Branches = {b1}
  Business = Business
  AckLost = TRUE
  Receipts = {r1, r2}
  Months = 1
  MaxBatches = 2
  BatchSize = 1
  MaxDeletes = 2
  CommitLost = TRUE
  Events = {e1}
  Overseers = {o1}
  Submitters = {s1}
  Admins = {}
  Devices = {d1}
INVARIANTS ReadyHasItsFile EvidenceKept PushReachesRecipient
PROPERTIES ClaimsAreFenced
SYMMETRY Symmetry
CHECK_DEADLOCK FALSE
