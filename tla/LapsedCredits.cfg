\* Refutes: a verification of an active branch is charged or deferred.
SPECIFICATION Spec
CONSTANTS
  o1 = o1
  o2 = o2
  o3 = o3
  p1 = p1
  p2 = p2
  Orders = {o1, o3}
  Payments = {p1, p2}
  PaymentOf <- SharedPayment
  CreditsOf <- SmallPlans
  DurationOf <- Durations
  Calls = {c1}
  None = None
  MaxClock = 2
  MaxServed = 1
  MaxToggles = 0
PROPERTIES PreparationChargesOrDefers
CHECK_DEADLOCK FALSE
