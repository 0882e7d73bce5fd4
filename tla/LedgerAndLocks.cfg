\* Three manual operations and a verified payment on two accounts; four attempts around a
\* threshold of two, two codes, two owners and a lapsing window.
SPECIFICATION MCSpec
CONSTANTS
  Accounts = {a1, a2}
  Requests = {q1, q2, q3}
  Payments = {p1}
  Evidence = {}
  None = None
  Amounts = {1, 2}
  Openings = {0, 2}
  Days = {1}
  Attempts = {q1, q2, q3, q4}
  Codes = {a1, a2}
  Owners = {a1, a2}
  Unset = Unset
  Threshold = 2
  Window = 1
  CodeLife = 1
  MaxClock = 3
INVARIANTS BalancesChain NeverOverdrawn PostedOnce PostedAsShown OneLock CodesMatchLocks ThresholdLocks
PROPERTY UnlockedByRedemption
SYMMETRY Symmetry
CHECK_DEADLOCK FALSE
