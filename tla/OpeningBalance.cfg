\* One account opened with a balance and one draft.
SPECIFICATION Spec
CONSTANTS
  Accounts = {a1}
  Requests = {q1}
  Payments = {p1}
  Evidence = {r1}
  None = None
  Amounts = {1}
  Openings = {0, 1}
  Days = {1}
  Scheduled = {a1}
  BankBalances = {1}
PROPERTY SnapshotMatchesAccount
CHECK_DEADLOCK FALSE
