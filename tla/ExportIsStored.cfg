\* Two workers, one job, and no commit whose answer is lost.
SPECIFICATION MCSpec
CONSTANTS
  Queues = {"export"}
  Workers = {w1, w2}
  None = None
  MaxStops = 0
  Exports = {x1}
  Branches = {}
  Business = Business
  AckLost = FALSE
  Receipts = {}
  Months = 1
  MaxBatches = 0
  BatchSize = 1
  MaxDeletes = 1
  CommitLost = FALSE
  Events = {}
  Overseers = {}
  Submitters = {}
  Admins = {}
  Devices = {}
INVARIANTS ExportIsStored
CHECK_DEADLOCK FALSE
