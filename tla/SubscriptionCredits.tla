------------------------ MODULE SubscriptionCredits ------------------------
(***************************************************************************)
(* One branch buys verification credits: an order is created, a payment    *)
(* proof is added, and a call of the verify endpoint charges or defers one *)
(* credit, asks Verify.ET outside of any database transaction and records  *)
(* the answer, which may activate the subscription and grant its credit    *)
(* lot.  Calls overlap, customers consume the same lots, lots run out and  *)
(* lapse.  Every action is one database transaction, or the awaited        *)
(* provider call between two of them; a transaction that throws commits    *)
(* nothing and only ends its call.                                         *)
(***************************************************************************)
EXTENDS Naturals, FiniteSets, Functions

CONSTANTS
  Orders,      \* subscription orders of the branch
  Payments,    \* (bank, reference) pairs
  PaymentOf,   \* the payment each order's proof shows
  CreditsOf,   \* credits_snapshot of each order's plan
  DurationOf,  \* duration_days_snapshot, in ticks of the clock
  Calls,       \* concurrent calls of the verify endpoint
  None,        \* SQL NULL
  MaxClock,    \* bound: ticks
  MaxServed,   \* bound: customer transactions charged one credit
  MaxToggles   \* bound: suspensions and activations of the business

ASSUME OrdersFinite == IsFiniteSet(Orders)
ASSUME PaymentAssumption == PaymentOf \in [Orders -> Payments]
ASSUME PlanAssumption == /\ CreditsOf \in [Orders -> Nat \ {0}]
                         /\ DurationOf \in [Orders -> Nat \ {0}]
ASSUME BoundAssumption == MaxClock \in Nat /\ MaxServed \in Nat /\ MaxToggles \in Nat

FinalStatuses == {"VERIFIED", "FAILED", "DUPLICATE"}
OrderStatuses == {"NEW", "ORDER_CREATED", "PROOF_RECEIVED", "VERIFICATION_PENDING"}
                   \cup FinalStatuses
Answers       == {"PENDING", "FAILED", "VERIFIED", "MISMATCH"}  \* MISMATCH: verified, but of
Thresholds    == {75, 90, 100}                                  \* another amount or account

ASSUME NoneAssumption == None \notin Orders /\ None \notin Answers

VARIABLES
  order,     \* subscription_orders.status
  proof,     \* subscription_purchase_proofs: none, usable or failing assertProofMatch
  verif,     \* subscription_payment_verifications: status and credit decision
  deferral,  \* deferred_credit_deductions.status of the order
  paid,      \* credit events that took a credit for the order
  lot,       \* credit_lots of the order's subscription
  grants,    \* SUBSCRIPTION_CREDIT_GRANT events of the order
  wallet,    \* branch_credit_wallets
  alerts,    \* credit_usage_alerts: lot and threshold
  served,    \* customer transactions charged by verification-credit-eligibility
  business,  \* businesses.status; nothing in src/ changes branches.status
  toggles,   \* what is left of MaxToggles
  clock,     \* now()
  call       \* each verify call: its place, order, provider answer and respondedAt

ledgerVars == <<order, verif, deferral, paid, lot, grants, wallet, alerts>>
envVars    == <<served, business, toggles, clock>>
vars       == <<ledgerVars, envVars, proof, call>>

NoLot  == [status |-> "none", alloc |-> 0, used |-> 0, expired |-> 0, expiry |-> 0]
NoCall == [at |-> "idle", order |-> None, ans |-> None, time |-> 0]

Lots == [status : {"none", "ACTIVE", "EXHAUSTED", "EXPIRED"}, alloc : Nat, used : Nat,
         expired : Nat, expiry : Nat]
Wallets == [purchased : Nat, used : Nat, expired : Nat, available : Nat]
Places == {"idle", "calling", "answered", "threw"}
CallStates == [at : Places, order : Orders \cup {None}, ans : Answers \cup {None}, time : Nat]

Init ==
  /\ order    = [o \in Orders |-> "NEW"]
  /\ proof    = [o \in Orders |-> "none"]
  /\ verif    = [o \in Orders |-> [status |-> "NONE", credit |-> "NONE"]]
  /\ deferral = [o \in Orders |-> "none"]
  /\ paid     = [o \in Orders |-> 0]
  /\ lot      = [o \in Orders |-> NoLot]
  /\ grants   = [o \in Orders |-> 0]
  /\ wallet   = [purchased |-> 0, used |-> 0, expired |-> 0, available |-> 0]
  /\ alerts   = {}
  /\ served   = 0
  /\ business = "ACTIVE"
  /\ toggles  = MaxToggles
  /\ clock    = 0
  /\ call     = [c \in Calls |-> NoCall]

-----------------------------------------------------------------------------
(* Credit lots and the wallet.                                             *)

Remaining(o) == lot[o].alloc - (lot[o].used + lot[o].expired)

\* Mutant: a lot is usable until the sweep expires it.
UsableUntilSwept(o) == lot[o].status = "ACTIVE" /\ lot[o].used + lot[o].expired < lot[o].alloc

\* The lots a consumption may take: in force and not used up.
Usable(o) == /\ lot[o].status = "ACTIVE" /\ lot[o].used + lot[o].expired < lot[o].alloc
             /\ lot[o].expiry > clock

\* ORDER BY expires_at (ties, broken by creation and id in the code, by any of them here).
Earliest(o) == Usable(o) /\ \A u \in Orders : Usable(u) => lot[o].expiry <= lot[u].expiry

\* recordThresholds: the alerts of a lot l of order o, ON CONFLICT DO NOTHING.
Crossed(o, l) == {o} \X {p \in Thresholds : (l.used + l.expired) * 100 >= l.alloc * p}

\* One credit less in the lot, EXHAUSTED by the last one.
Used(l) == [l EXCEPT !.used = @ + 1,
                     !.status = IF l.used + l.expired + 1 = l.alloc THEN "EXHAUSTED" ELSE @]

WalletUsed(w) == [w EXCEPT !.used = @ + 1, !.available = @ - 1]

\* The credit CTE both charging paths share, and the alerts that follow it.
Consume(o) ==
  /\ wallet.available > 0 /\ Earliest(o)
  /\ lot'    = [lot EXCEPT ![o] = Used(@)]
  /\ wallet' = WalletUsed(wallet)
  /\ alerts' = alerts \cup Crossed(o, Used(lot[o]))

-----------------------------------------------------------------------------
(* Purchase and proof.                                                     *)

\* SubscriptionPurchaseDao.createWithin, for a business without a purchase lock.
Create(o) ==
  /\ order[o] = "NEW" /\ business = "ACTIVE"
  /\ order' = [order EXCEPT ![o] = "ORDER_CREATED"]
  /\ UNCHANGED <<verif, deferral, paid, lot, grants, wallet, alerts, envVars, proof, call>>

\* addProofWithin: one proof per order, whether or not it can be matched later.
AddProof(o, p) ==
  /\ order[o] = "ORDER_CREATED"
  /\ order' = [order EXCEPT ![o] = "PROOF_RECEIVED"]
  /\ proof' = [proof EXCEPT ![o] = p]
  /\ UNCHANGED <<verif, deferral, paid, lot, grants, wallet, alerts, envVars, call>>

-----------------------------------------------------------------------------
(* SubscriptionVerificationService.verify.  The session of a suspended     *)
(* business is refused before the call, outside its transactions, so a     *)
(* suspension may come before or after any of the steps below.             *)

\* prepareWithin reaches the order: its proof matches and it awaits verification.
Preparable(o) == order[o] \in {"PROOF_RECEIVED", "VERIFICATION_PENDING"} /\ proof[o] = "usable"

Called(c, o) == [call EXCEPT ![c] = [NoCall EXCEPT !.at = "calling", !.order = o]]
Ended(c)     == [call EXCEPT ![c] = NoCall]

\* Mutant: only a charged preparation is replayed, a deferred one is prepared again.
PreparedAndCharged(o) == verif[o].credit = "CHARGED"

\* The deterministic verification row of the order is there already.
Prepared(o) == verif[o].status # "NONE"

\* prepareWithin replays: nothing is charged again.
PrepareAgain(c, o) ==
  /\ call[c].at = "idle" /\ Preparable(o) /\ Prepared(o)
  /\ call' = Called(c, o)
  /\ UNCHANGED <<ledgerVars, envVars, proof>>

\* prepareSubscriptionVerificationWithin takes one credit from the earliest lot.
PrepareCharged(c, o) ==
  /\ call[c].at = "idle" /\ Preparable(o) /\ ~Prepared(o)
  /\ \E l \in Orders : Consume(l)
  /\ paid'  = [paid EXCEPT ![o] = @ + 1]
  /\ order' = [order EXCEPT ![o] = "VERIFICATION_PENDING"]
  /\ verif' = [verif EXCEPT ![o] = [status |-> "PENDING", credit |-> "CHARGED"]]
  /\ call'  = Called(c, o)
  /\ UNCHANGED <<deferral, grants, envVars, proof>>

\* deferSubscriptionWithin: the wallet is empty, the credit is owed.
PrepareDeferred(c, o) ==
  /\ call[c].at = "idle" /\ Preparable(o) /\ ~Prepared(o)
  /\ wallet.available = 0
  /\ deferral' = [deferral EXCEPT ![o] = "PENDING"]
  /\ order'    = [order EXCEPT ![o] = "VERIFICATION_PENDING"]
  /\ verif'    = [verif EXCEPT ![o] = [status |-> "PENDING", credit |-> "DEFERRED"]]
  /\ call'     = Called(c, o)
  /\ UNCHANGED <<paid, lot, grants, wallet, alerts, envVars, proof>>

\* CreditDeferralBalanceError: the wallet counts credits and no lot can be used.
PrepareThrows(c, o) ==
  /\ call[c].at = "idle" /\ Preparable(o) /\ ~Prepared(o)
  /\ wallet.available > 0 /\ \A l \in Orders : ~Usable(l)
  /\ call' = [call EXCEPT ![c] = [NoCall EXCEPT !.at = "threw", !.order = o]]
  /\ UNCHANGED <<ledgerVars, envVars, proof>>

\* The provider answers; the answer waits for its transaction while others go on.
ProviderAnswers(c, a) ==
  /\ call[c].at = "calling"
  /\ call' = [call EXCEPT ![c] = [@ EXCEPT !.at = "answered", !.ans = a, !.time = clock]]
  /\ UNCHANGED <<ledgerVars, envVars, proof>>

\* The provider throws, Postgres aborts the outcome's transaction, the process dies, or an
\* error reaches the caller.
CallEnds(c) ==
  /\ call[c].at # "idle"
  /\ call' = Ended(c)
  /\ UNCHANGED <<ledgerVars, envVars, proof>>

\* Mutant: an answer is recorded whatever was recorded before.
OpenAlways(o) == verif[o].status # "NONE"

\* recordOutcomeWithin takes the answer: verification_status is still PENDING.
Open(o) == verif[o].status = "PENDING"

\* Another verification of the same payment is VERIFIED.
Reused(o) == \E u \in Orders \ {o} : verif[u].status = "VERIFIED" /\ PaymentOf[u] = PaymentOf[o]

\* Mutant: a failed verification leaves its order pending.
ConcludedVerificationOnly(o, s) ==
  /\ verif' = [verif EXCEPT ![o] = [@ EXCEPT !.status = s]]
  /\ order' = [order EXCEPT ![o] = IF s = "FAILED" THEN @ ELSE s]

\* The verification and its order get the same final status.
Concluded(o, s) ==
  /\ verif' = [verif EXCEPT ![o] = [@ EXCEPT !.status = s]]
  /\ order' = [order EXCEPT ![o] = s]

\* PENDING is only noted; after a final outcome the answer is replayed or conflicts; a
\* subscription whose period is over already is refused by grantWithin.
RecordNothing(c) ==
  /\ call[c].at = "answered"
  /\ \/ ~Open(call[c].order)
     \/ call[c].ans = "PENDING"
     \/ /\ call[c].ans = "VERIFIED" /\ ~Reused(call[c].order)
        /\ call[c].time + DurationOf[call[c].order] <= clock
  /\ call' = Ended(c)
  /\ UNCHANGED <<ledgerVars, envVars, proof>>

\* FAILED, or VERIFIED of something else than the order asked for.
RecordFailed(c) ==
  /\ call[c].at = "answered" /\ Open(call[c].order) /\ call[c].ans \in {"FAILED", "MISMATCH"}
  /\ Concluded(call[c].order, "FAILED")
  /\ call' = Ended(c)
  /\ UNCHANGED <<deferral, paid, lot, grants, wallet, alerts, envVars, proof>>

RecordDuplicate(c) ==
  /\ call[c].at = "answered" /\ Open(call[c].order) /\ call[c].ans = "VERIFIED"
  /\ Reused(call[c].order)
  /\ Concluded(call[c].order, "DUPLICATE")
  /\ call' = Ended(c)
  /\ UNCHANGED <<deferral, paid, lot, grants, wallet, alerts, envVars, proof>>

\* Mutant: the settlement takes the credit from the lot only.
GrantedUnsettled(w, credits, owed) == [w EXCEPT !.purchased = @ + credits, !.available = @ + credits]

\* settlePendingDeferred: the order's own pending deferral is paid from the new lot.
Owed(o) == IF deferral[o] = "PENDING" THEN 1 ELSE 0

\* grantWithin adds the credits, settlePendingDeferred takes the one owed.
Granted(w, credits, owed) ==
  [w EXCEPT !.purchased = @ + credits, !.used = @ + owed, !.available = (@ + credits) - owed]

NewLot(o, expiry) ==
  [status  |-> IF Owed(o) = CreditsOf[o] THEN "EXHAUSTED" ELSE "ACTIVE",
   alloc   |-> CreditsOf[o], used |-> Owed(o), expired |-> 0, expiry |-> expiry]

\* The order is VERIFIED, its subscription and invoice are inserted, grantWithin inserts
\* the lot and a pending deferral is settled, all in one transaction.
Activate(c) ==
  /\ call[c].at = "answered" /\ Open(call[c].order) /\ call[c].ans = "VERIFIED"
  /\ LET o == call[c].order
         expiry == call[c].time + DurationOf[o] IN
     /\ ~Reused(o) /\ expiry > clock
     /\ Concluded(o, "VERIFIED")
     /\ lot'      = [lot EXCEPT ![o] = NewLot(o, expiry)]
     /\ grants'   = [grants EXCEPT ![o] = @ + 1]
     /\ wallet'   = Granted(wallet, CreditsOf[o], Owed(o))
     /\ paid'     = [paid EXCEPT ![o] = @ + Owed(o)]
     /\ deferral' = [deferral EXCEPT ![o] = IF @ = "PENDING" THEN "SETTLED" ELSE @]
     /\ alerts'   = alerts \cup IF Owed(o) > 0 THEN Crossed(o, NewLot(o, expiry)) ELSE {}
  /\ call' = Ended(c)
  /\ UNCHANGED <<envVars, proof>>

-----------------------------------------------------------------------------
(* Around the purchases.                                                   *)

\* VerificationCreditEligibilityDao.resolveWithin charges a customer transaction.
ServeCustomer ==
  /\ business = "ACTIVE" /\ served < MaxServed
  /\ \E l \in Orders : Consume(l)
  /\ served' = served + 1
  /\ UNCHANGED <<order, verif, deferral, paid, grants, business, toggles, clock, proof, call>>

\* Everything that remains of the lot expires.
Swept(o) == [lot[o] EXCEPT !.expired = @ + Remaining(o), !.status = "EXPIRED"]

\* expireDueWithin, for one due lot: a batch is a sequence of these in one transaction.
\* Nothing in src/ calls it.
ExpireDue(o) ==
  /\ lot[o].status = "ACTIVE" /\ Remaining(o) > 0 /\ lot[o].expiry <= clock
  /\ wallet.available >= Remaining(o)
  /\ wallet' = [wallet EXCEPT !.expired = @ + Remaining(o), !.available = @ - Remaining(o)]
  /\ lot'    = [lot EXCEPT ![o] = Swept(o)]
  /\ alerts' = alerts \cup Crossed(o, [lot[o] EXCEPT !.expired = Remaining(o)])
  /\ UNCHANGED <<order, verif, deferral, paid, grants, envVars, proof, call>>

\* The platform suspends the business or activates it again.
ToggleBusiness ==
  /\ toggles > 0
  /\ toggles'  = toggles - 1
  /\ business' = IF business = "ACTIVE" THEN "INACTIVE" ELSE "ACTIVE"
  /\ UNCHANGED <<ledgerVars, served, clock, proof, call>>

Tick ==
  /\ clock < MaxClock
  /\ clock' = clock + 1
  /\ UNCHANGED <<ledgerVars, served, business, toggles, proof, call>>

Verify(c) ==
  \/ \E o \in Orders : \/ PrepareAgain(c, o) \/ PrepareCharged(c, o)
                       \/ PrepareDeferred(c, o) \/ PrepareThrows(c, o)
  \/ \E a \in Answers : ProviderAnswers(c, a)
  \/ RecordNothing(c) \/ RecordFailed(c) \/ RecordDuplicate(c) \/ Activate(c)
  \/ CallEnds(c)

Next ==
  \/ \E o \in Orders : \/ Create(o) \/ ExpireDue(o)
                       \/ \E p \in {"usable", "unusable"} : AddProof(o, p)
  \/ \E c \in Calls : Verify(c)
  \/ ServeCustomer \/ ToggleBusiness \/ Tick

Spec == Init /\ [][Next]_vars

-----------------------------------------------------------------------------
(* Properties.                                                             *)

\* Every table and every call holds values of its columns' domains, lots within their
\* CHECK (used + expired <= allocated).
TypeOK ==
  /\ order \in [Orders -> OrderStatuses]
  /\ proof \in [Orders -> {"none", "usable", "unusable"}]
  /\ verif \in [Orders -> [status : {"NONE", "PENDING"} \cup FinalStatuses,
                           credit : {"NONE", "CHARGED", "DEFERRED"}]]
  /\ deferral \in [Orders -> {"none", "PENDING", "SETTLED"}]
  /\ paid \in [Orders -> Nat]
  /\ lot \in [Orders -> Lots]
  /\ \A o \in Orders : lot[o].used + lot[o].expired <= lot[o].alloc
  /\ grants \in [Orders -> Nat]
  /\ wallet \in Wallets
  /\ alerts \subseteq Orders \X Thresholds
  /\ served \in Nat /\ business \in {"ACTIVE", "INACTIVE"} /\ toggles \in Nat /\ clock \in Nat
  /\ call \in [Calls -> CallStates]
  /\ \A c \in Calls : call[c].at # "idle" => call[c].order \in Orders
  /\ \A c \in Calls : call[c].at = "answered" => call[c].ans \in Answers

\* No credit is lost or invented: the wallet is the sum of the branch's lots, and each
\* used credit was taken for a customer or for an order.
WalletMatchesLots ==
  /\ wallet.purchased = SumFunction([o \in Orders |-> lot[o].alloc])
  /\ wallet.used      = SumFunction([o \in Orders |-> lot[o].used])
  /\ wallet.expired   = SumFunction([o \in Orders |-> lot[o].expired])
  /\ wallet.purchased = wallet.used + wallet.expired + wallet.available
  /\ wallet.used      = served + SumFunction(paid)

\* However calls overlap, an order pays one credit: at once when the wallet had one, or out
\* of its own lot; one that failed on an empty wallet still owes it.
OrderPaysOnce ==
  \A o \in Orders :
    /\ paid[o] = IF verif[o].credit = "CHARGED" \/ deferral[o] = "SETTLED" THEN 1 ELSE 0
    /\ deferral[o] # "none" <=> verif[o].credit = "DEFERRED"
    /\ deferral[o] = "SETTLED" <=> verif[o].credit = "DEFERRED" /\ order[o] = "VERIFIED"

\* Order, verification, lot and grant agree: a VERIFIED order, and no other, has one grant
\* and its lot, and no two of them were paid by the same payment.
VerifiedIsGranted ==
  \A o \in Orders :
    /\ verif[o].status # "PENDING" /\ verif[o].status # "NONE" => order[o] = verif[o].status
    /\ verif[o].status = "PENDING" <=> order[o] = "VERIFICATION_PENDING"
    /\ order[o] = "VERIFIED" <=> grants[o] = 1
    /\ order[o] = "VERIFIED" <=> lot[o].status # "none"
    /\ \A u \in Orders \ {o} :
         order[o] = "VERIFIED" /\ order[u] = "VERIFIED" => PaymentOf[o] # PaymentOf[u]

\* Whichever transaction took the credits, a lot has exactly the alerts of its thresholds.
AlertsFollowUsage ==
  \A o \in Orders, p \in Thresholds :
    <<o, p>> \in alerts <=> /\ lot[o].status # "none"
                            /\ (lot[o].used + lot[o].expired) * 100 >= lot[o].alloc * p

\* A credit is spent before its lot's expiry or not at all, also when no sweep ran; an
\* expired or exhausted lot never changes again.
CreditsSpentInForce ==
  [][\A o \in Orders :
       /\ lot'[o].used > lot[o].used => lot'[o].expiry > clock
       /\ lot[o].status \in {"EXHAUSTED", "EXPIRED"} => lot'[o] = lot[o]]_vars

\* docs/PHASE-7-CREDITS-VALIDATION.md:171: a branch with credits consumes one before the
\* provider call, one without defers it, so that no preparation fails.
PreparationChargesOrDefers == [][\A c \in Calls : call'[c].at # "threw"]_vars

-----------------------------------------------------------------------------
(* Activation implements the same promise as customer verification: one    *)
(* final outcome per order, and a payment that credits once.               *)
Activation ==
  INSTANCE PaymentConfirmation WITH
    Txns <- Orders, Receipts <- Payments, ReceiptOf <- PaymentOf,
    outcome  <- [o \in Orders |-> IF order[o] \in FinalStatuses THEN order[o] ELSE "OPEN"],
    credited <- grants

ActivationSpec == Activation!Spec
=============================================================================
