\* Two calls, orders that share a payment, customers, lapsing lots and a suspended business.
SPECIFICATION Spec
CONSTANTS
  o1 = o1
  o2 = o2
  o3 = o3
  p1 = p1
  p2 = p2
  Orders = {o1, o2, o3}
  Payments = {p1, p2}
  PaymentOf <- SharedPayment
  CreditsOf <- SmallPlans
  DurationOf <- Durations
  Calls = {c1, c2}
  None = None
  MaxClock = 2
  MaxServed = 3
  MaxToggles = 1
INVARIANTS WalletMatchesLots OrderPaysOnce VerifiedIsGranted
PROPERTIES CreditsSpentInForce ActivationSpec
SYMMETRY Symmetry
CHECK_DEADLOCK FALSE
