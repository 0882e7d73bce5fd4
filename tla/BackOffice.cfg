\* Two of everything that acts at once, and three versions of the schema.
SPECIFICATION MCSpec
CONSTANTS
  Parts = {"days", "access", "accounts", "intake", "migrations", "web", "scope"}
  Accounts = {a1}
  Requests = {q1}
  Payments = {p1}
  Evidence = {c1, c2}
  None = None
  Amounts = {1}
  Openings = {1}
  Days = {1, 2}
  Scheduled = {a1}
  BankBalances = {0, 1}
  Owner = Owner
  Admin = Admin
  Staff = {s1, s2}
  Branches = {b1}
  NoOne = NoOne
  Calls = {c1, c2}
  StaffRoles = {"MANAGER", "WAITER"}
  MaxSessions = 2
  MaxRotations = 1
  Callers = {Owner, s1, s2}
  MaxInFlight = 3
  Banks = {bank1, bank2}
  Numbers = {s1, s2}
  Places = {r1, r2}
  Registrations = {c1, c2}
  Uploads = {c1, c2}
  Nobody = Nobody
  MaxReceipts = 2
  Versions = 3
  Deployments = {c1, c2}
  MaxRollbacks = 2
  Tabs = {c1, c2}
  Users = {s1, s2}
  Missing = Missing
  MaxSignIns = 2
  MaxRefreshes = 1
  Firms = {c1, c2}
  Persons = {s1, s2}
  Clients = {k1}
  Nowhere = Nowhere
  MaxRecords = 3
INVARIANTS OneWaiterSession RemovalEndsSessions AccountsAreApart PreparedHasEvidence FlaggedIsReviewed RowsMatchSchema PortalHasToken AuthorsWereInPost ReadersStayInScope
PROPERTIES SnapshotFollowsAccount TokensAreSingleUse SessionsStartInForce BranchKeepsManager
SYMMETRY Symmetry
CHECK_DEADLOCK FALSE
