---------------------- MODULE SubscriptionCreditsProofs ----------------------
(***************************************************************************)
(* What TLAPS proves of SubscriptionCredits for any number of orders,      *)
(* payments, calls and customers, any plans and any clock: from one        *)
(* inductive invariant, that no credit is lost or invented, an order pays  *)
(* one credit, a payment activates one order, alerts follow usage, credits *)
(* are spent in force, and activation implements PaymentConfirmation.      *)
(***************************************************************************)
EXTENDS SubscriptionCredits, FiniteSums, TLAPS

-----------------------------------------------------------------------------
(* Facts about the operators the actions are built from.                   *)

\* One more credit of a lot is used, and the last one exhausts it.
LEMMA UsedLot ==
  ASSUME NEW l \in Lots, l.used + l.expired < l.alloc
  PROVE  /\ Used(l) \in Lots
         /\ Used(l).used = l.used + 1 /\ Used(l).expired = l.expired
         /\ Used(l).alloc = l.alloc /\ Used(l).expiry = l.expiry
         /\ Used(l).status = IF l.used + l.expired + 1 = l.alloc THEN "EXHAUSTED" ELSE l.status
         /\ Used(l).used + Used(l).expired <= Used(l).alloc
<1> DEFINE n == l.used + 1
           s == IF l.used + l.expired + 1 = l.alloc THEN "EXHAUSTED" ELSE l.status
<1>1. /\ l.used \in Nat /\ l.expired \in Nat /\ l.alloc \in Nat
      /\ l.status \in {"none", "ACTIVE", "EXHAUSTED", "EXPIRED"}
  BY DEF Lots
<1>2. n \in Nat /\ n + l.expired <= l.alloc /\ s \in {"none", "ACTIVE", "EXHAUSTED", "EXPIRED"}
  BY <1>1
<1>3. Used(l) = [l EXCEPT !.used = n, !.status = s]
  BY DEF Used
<1> HIDE DEF n, s
<1>4. /\ Used(l) \in Lots /\ Used(l).used = n /\ Used(l).expired = l.expired
      /\ Used(l).alloc = l.alloc /\ Used(l).expiry = l.expiry /\ Used(l).status = s
  BY <1>2, <1>3 DEF Lots
<1> QED
  BY <1>2, <1>4 DEF n, s

LEMMA UsedWallet ==
  ASSUME NEW w \in Wallets, w.available > 0
  PROVE  WalletUsed(w) \in Wallets
<1> DEFINE u == w.used + 1
           a == w.available - 1
<1>1. u \in Nat /\ a \in Nat
  BY DEF Wallets
<1>2. WalletUsed(w) = [w EXCEPT !.used = u, !.available = a]
  BY DEF WalletUsed
<1> HIDE DEF u, a
<1> QED
  BY <1>1, <1>2 DEF Wallets

LEMMA OwedCredits ==
  ASSUME NEW o \in Orders
  PROVE  /\ Owed(o) \in {0, 1}
         /\ Owed(o) <= CreditsOf[o] /\ CreditsOf[o] \in Nat \ {0} /\ DurationOf[o] \in Nat \ {0}
BY PlanAssumption DEF Owed

LEMMA GrantedWallet ==
  ASSUME NEW o \in Orders, NEW w \in Wallets
  PROVE  Granted(w, CreditsOf[o], Owed(o)) \in Wallets
<1> DEFINE p == w.purchased + CreditsOf[o]
           u == w.used + Owed(o)
           a == (w.available + CreditsOf[o]) - Owed(o)
<1>1. p \in Nat /\ u \in Nat /\ a \in Nat
  BY OwedCredits DEF Wallets
<1>2. Granted(w, CreditsOf[o], Owed(o)) = [w EXCEPT !.purchased = p, !.used = u, !.available = a]
  BY DEF Granted
<1> HIDE DEF p, u, a
<1> QED
  BY <1>1, <1>2 DEF Wallets

LEMMA NewLotType ==
  ASSUME NEW o \in Orders, NEW e \in Nat
  PROVE  /\ NewLot(o, e) \in Lots
         /\ NewLot(o, e).alloc = CreditsOf[o] /\ NewLot(o, e).used = Owed(o)
         /\ NewLot(o, e).expired = 0 /\ NewLot(o, e).expiry = e
         /\ NewLot(o, e).status = IF Owed(o) = CreditsOf[o] THEN "EXHAUSTED" ELSE "ACTIVE"
BY OwedCredits DEF NewLot, Lots

LEMMA CrossedType ==
  ASSUME NEW o \in Orders, NEW l
  PROVE  Crossed(o, l) \subseteq Orders \X Thresholds
BY DEF Crossed

LEMMA CallUpdates ==
  ASSUME NEW k \in CallStates
  PROVE  /\ NoCall \in CallStates
         /\ \A o \in Orders : [NoCall EXCEPT !.at = "calling", !.order = o] \in CallStates
         /\ \A o \in Orders : [NoCall EXCEPT !.at = "threw", !.order = o] \in CallStates
         /\ \A a \in Answers, t \in Nat :
              [k EXCEPT !.at = "answered", !.ans = a, !.time = t] \in CallStates
BY DEF CallStates, NoCall, Places

-----------------------------------------------------------------------------
(* What the shared pieces of the transactions do to the lots.              *)

\* A consumption takes one credit of one usable lot.
LEMMA ConsumeEffects ==
  ASSUME TypeOK, NEW l \in Orders, Consume(l)
  PROVE  /\ Usable(l)
         /\ lot' \in [Orders -> Lots] /\ wallet' \in Wallets
         /\ lot'[l] = Used(lot[l])
         /\ \A o \in Orders \ {l} : lot'[o] = lot[o]
         /\ \A o \in Orders : lot'[o].used + lot'[o].expired <= lot'[o].alloc
         /\ alerts' \subseteq Orders \X Thresholds
<1>1. Usable(l)
  BY DEF Consume, Earliest
<1>2. lot[l] \in Lots /\ lot[l].used + lot[l].expired < lot[l].alloc
  BY <1>1 DEF Usable, TypeOK
<1>3. lot' = [lot EXCEPT ![l] = Used(lot[l])]
  BY DEF Consume
<1>4. lot' \in [Orders -> Lots] /\ lot'[l] = Used(lot[l]) /\ \A o \in Orders \ {l} : lot'[o] = lot[o]
  BY <1>2, <1>3, UsedLot DEF TypeOK
<1>5. \A o \in Orders : lot'[o].used + lot'[o].expired <= lot'[o].alloc
  BY <1>2, <1>4, UsedLot DEF TypeOK
<1>6. wallet' \in Wallets
  BY UsedWallet DEF Consume, TypeOK
<1>7. alerts' \subseteq Orders \X Thresholds
  BY CrossedType DEF Consume, TypeOK
<1> QED
  BY <1>1, <1>4, <1>5, <1>6, <1>7

\* An activation gives the order a lot of its own.
LEMMA ActivateEffects ==
  ASSUME TypeOK, NEW c \in Calls, Activate(c)
  PROVE  LET o == call[c].order
             expiry == call[c].time + DurationOf[o] IN
         /\ o \in Orders /\ expiry \in Nat /\ expiry > clock
         /\ Open(o) /\ ~Reused(o) /\ Concluded(o, "VERIFIED")
         /\ lot' \in [Orders -> Lots] /\ wallet' \in Wallets
         /\ lot'[o] = NewLot(o, expiry)
         /\ \A u \in Orders \ {o} : lot'[u] = lot[u]
         /\ \A u \in Orders : lot'[u].used + lot'[u].expired <= lot'[u].alloc
         /\ alerts' \subseteq Orders \X Thresholds
<1> DEFINE o == call[c].order
           expiry == call[c].time + DurationOf[o]
<1>1. o \in Orders /\ call[c].time \in Nat
  BY DEF Activate, TypeOK, CallStates
<1>2. expiry \in Nat
  BY <1>1, OwedCredits
<1>3. /\ Open(o) /\ ~Reused(o) /\ expiry > clock /\ Concluded(o, "VERIFIED")
      /\ lot' = [lot EXCEPT ![o] = NewLot(o, expiry)]
      /\ wallet' = Granted(wallet, CreditsOf[o], Owed(o))
      /\ alerts' = alerts \cup IF Owed(o) > 0 THEN Crossed(o, NewLot(o, expiry)) ELSE {}
  BY DEF Activate
<1> HIDE DEF o, expiry
<1>4. /\ lot' \in [Orders -> Lots] /\ lot'[o] = NewLot(o, expiry)
      /\ \A u \in Orders \ {o} : lot'[u] = lot[u]
  BY <1>1, <1>2, <1>3, NewLotType DEF TypeOK
<1>5. NewLot(o, expiry).used + NewLot(o, expiry).expired <= NewLot(o, expiry).alloc
  BY <1>1, <1>2, NewLotType, OwedCredits
<1>6. \A u \in Orders : lot'[u].used + lot'[u].expired <= lot'[u].alloc
  BY <1>4, <1>5 DEF TypeOK
<1>7. wallet' \in Wallets
  BY <1>1, <1>3, GrantedWallet DEF TypeOK
<1>8. alerts' \subseteq Orders \X Thresholds
  BY <1>1, <1>3, CrossedType DEF TypeOK
<1> QED
  BY <1>1, <1>2, <1>3, <1>4, <1>6, <1>7, <1>8 DEF o, expiry

\* The sweep takes what remains of one due lot.
LEMMA ExpireEffects ==
  ASSUME TypeOK, NEW o \in Orders, ExpireDue(o)
  PROVE  /\ lot' \in [Orders -> Lots] /\ wallet' \in Wallets
         /\ lot[o].status = "ACTIVE" /\ lot'[o].status = "EXPIRED"
         /\ lot'[o].used = lot[o].used /\ lot'[o].alloc = lot[o].alloc
         /\ lot'[o].expiry = lot[o].expiry
         /\ lot'[o].expired = lot[o].alloc - lot[o].used
         /\ \A u \in Orders \ {o} : lot'[u] = lot[u]
         /\ \A u \in Orders : lot'[u].used + lot'[u].expired <= lot'[u].alloc
         /\ alerts' \subseteq Orders \X Thresholds
<1> DEFINE r == Remaining(o)
           k == Swept(o)
<1>1. lot[o] \in Lots /\ r \in Nat /\ r = lot[o].alloc - (lot[o].used + lot[o].expired)
  <2>1. lot[o] \in Lots /\ lot[o].used + lot[o].expired <= lot[o].alloc
    BY DEF TypeOK
  <2>2. lot[o].used \in Nat /\ lot[o].expired \in Nat /\ lot[o].alloc \in Nat
    BY <2>1 DEF Lots
  <2> QED
    BY <2>1, <2>2 DEF Remaining
<1>2. /\ lot' = [lot EXCEPT ![o] = k] /\ lot[o].status = "ACTIVE" /\ wallet.available >= r
      /\ wallet' = [wallet EXCEPT !.expired = @ + r, !.available = @ - r]
      /\ alerts' = alerts \cup Crossed(o, [lot[o] EXCEPT !.expired = r])
  BY DEF ExpireDue, TypeOK
<1> HIDE DEF r
<1>3. /\ k \in Lots /\ k.status = "EXPIRED" /\ k.used = lot[o].used /\ k.alloc = lot[o].alloc
      /\ k.expiry = lot[o].expiry /\ k.expired = lot[o].alloc - lot[o].used
  <2> DEFINE e == lot[o].expired + r
  <2>1. e \in Nat /\ e = lot[o].alloc - lot[o].used
    BY <1>1 DEF Lots
  <2>2. k = [lot[o] EXCEPT !.expired = e, !.status = "EXPIRED"]
    BY DEF Swept, r
  <2> HIDE DEF e, k
  <2> QED
    BY <1>1, <2>1, <2>2 DEF Lots
<1> HIDE DEF k
<1>4. /\ lot' \in [Orders -> Lots] /\ lot'[o] = k
      /\ \A u \in Orders \ {o} : lot'[u] = lot[u]
  BY <1>2, <1>3 DEF TypeOK
<1>5. lot[o].alloc \in Nat /\ lot[o].used \in Nat
  BY <1>1 DEF Lots
<1>6. \A u \in Orders : lot'[u].used + lot'[u].expired <= lot'[u].alloc
  BY <1>3, <1>4, <1>5 DEF TypeOK
<1>7. wallet' \in Wallets
  <2> DEFINE x == wallet.expired + r
             a == wallet.available - r
  <2>1. wallet \in Wallets /\ x \in Nat /\ a \in Nat
    BY <1>1, <1>2 DEF TypeOK, Wallets
  <2>2. wallet' = [wallet EXCEPT !.expired = x, !.available = a]
    BY <1>2
  <2> HIDE DEF x, a
  <2> QED
    BY <2>1, <2>2 DEF Wallets
<1>8. alerts' \subseteq Orders \X Thresholds
  BY <1>2, CrossedType DEF TypeOK
<1> QED
  BY <1>2, <1>3, <1>4, <1>6, <1>7, <1>8

-----------------------------------------------------------------------------
(* Type correctness.                                                       *)

LEMMA TypeInit == Init => TypeOK
BY BoundAssumption, NoneAssumption DEF Init, TypeOK, OrderStatuses, Lots, NoLot, Wallets,
   CallStates, NoCall, Places

\* A concluded verification and its order stay well typed.
LEMMA ConcludedType ==
  ASSUME TypeOK, NEW o \in Orders, NEW s \in FinalStatuses, Concluded(o, s)
  PROVE  /\ order' \in [Orders -> OrderStatuses]
         /\ verif' \in [Orders -> [status : {"NONE", "PENDING"} \cup FinalStatuses,
                                  credit : {"NONE", "CHARGED", "DEFERRED"}]]
         /\ order'[o] = s /\ verif'[o].status = s /\ verif'[o].credit = verif[o].credit
         /\ \A u \in Orders \ {o} : order'[u] = order[u] /\ verif'[u] = verif[u]
BY DEF Concluded, TypeOK, OrderStatuses

\* The part of the type invariant about the verify calls.
CallsOK ==
  /\ call \in [Calls -> CallStates]
  /\ \A c \in Calls : call[c].at # "idle" => call[c].order \in Orders
  /\ \A c \in Calls : call[c].at = "answered" => call[c].ans \in Answers

LEMMA CallsType ==
  ASSUME TypeOK, NEW c \in Calls, NEW o \in Orders
  PROVE  /\ call' = Called(c, o) => CallsOK'
         /\ call' = Ended(c) => CallsOK'
         /\ call' = [call EXCEPT ![c] = [NoCall EXCEPT !.at = "threw", !.order = o]] => CallsOK'
         /\ \A a \in Answers :
              call[c].at = "calling"
              /\ call' = [call EXCEPT ![c] = [@ EXCEPT !.at = "answered", !.ans = a, !.time = clock]]
              => CallsOK'
         /\ UNCHANGED call => CallsOK'
<1>1. NoCall \in CallStates /\ NoCall.at = "idle"
  BY CallUpdates DEF NoCall, TypeOK
<1>2. call' = Called(c, o) => CallsOK'
  <2> DEFINE k == [NoCall EXCEPT !.at = "calling", !.order = o]
  <2>1. k \in CallStates /\ k.at = "calling" /\ k.order = o
    BY <1>1, CallUpdates DEF NoCall
  <2>2. call' = Called(c, o) => call' = [call EXCEPT ![c] = k]
    BY DEF Called
  <2> HIDE DEF k
  <2> QED
    BY <2>1, <2>2 DEF TypeOK, CallsOK
<1>3. call' = Ended(c) => CallsOK'
  BY <1>1 DEF TypeOK, CallsOK, Ended
<1>4. call' = [call EXCEPT ![c] = [NoCall EXCEPT !.at = "threw", !.order = o]] => CallsOK'
  <2> DEFINE k == [NoCall EXCEPT !.at = "threw", !.order = o]
  <2>1. k \in CallStates /\ k.at = "threw" /\ k.order = o
    BY <1>1, CallUpdates DEF NoCall
  <2> HIDE DEF k
  <2>2. call' = [call EXCEPT ![c] = k] => CallsOK'
    BY <2>1 DEF TypeOK, CallsOK
  <2> QED
    BY <2>2 DEF k
<1>5. ASSUME NEW a \in Answers, call[c].at = "calling",
             call' = [call EXCEPT ![c] = [@ EXCEPT !.at = "answered", !.ans = a, !.time = clock]]
      PROVE  CallsOK'
  <2> DEFINE k == [call[c] EXCEPT !.at = "answered", !.ans = a, !.time = clock]
  <2>1. call[c] \in CallStates /\ call[c].order \in Orders /\ clock \in Nat
    BY <1>5 DEF TypeOK
  <2>2. k \in CallStates /\ k.order \in Orders /\ k.ans = a
    BY <2>1, CallUpdates DEF CallStates
  <2>3. call' = [call EXCEPT ![c] = k]
    BY <1>5
  <2> HIDE DEF k
  <2> QED
    BY <2>2, <2>3 DEF TypeOK, CallsOK
<1>6. UNCHANGED call => CallsOK'
  BY DEF TypeOK, CallsOK
<1> QED
  BY <1>2, <1>3, <1>4, <1>5, <1>6

\* A prepared verification stays well typed.
LEMMA PreparedType ==
  ASSUME TypeOK, NEW o \in Orders, NEW d \in {"CHARGED", "DEFERRED"},
         order' = [order EXCEPT ![o] = "VERIFICATION_PENDING"],
         verif' = [verif EXCEPT ![o] = [status |-> "PENDING", credit |-> d]]
  PROVE  /\ order' \in [Orders -> OrderStatuses]
         /\ verif' \in [Orders -> [status : {"NONE", "PENDING"} \cup FinalStatuses,
                                  credit : {"NONE", "CHARGED", "DEFERRED"}]]
BY DEF TypeOK, OrderStatuses

LEMMA TypeNext == TypeOK /\ [Next]_vars => TypeOK'
<1> SUFFICES ASSUME TypeOK, [Next]_vars PROVE TypeOK'
  OBVIOUS
<1>1. ASSUME NEW o \in Orders, Create(o) PROVE TypeOK'
  BY <1>1 DEF Create, TypeOK, OrderStatuses, envVars
<1>2. ASSUME NEW o \in Orders, NEW p \in {"usable", "unusable"}, AddProof(o, p) PROVE TypeOK'
  BY <1>2 DEF AddProof, TypeOK, OrderStatuses, envVars
<1>3. ASSUME NEW o \in Orders, ExpireDue(o) PROVE TypeOK'
  BY <1>3, ExpireEffects DEF ExpireDue, TypeOK, envVars
<1>4. ASSUME NEW c \in Calls, NEW o \in Orders, PrepareAgain(c, o) PROVE TypeOK'
  <2>1. CallsOK'
    BY <1>4, CallsType DEF PrepareAgain
  <2> QED
    BY <1>4, <2>1 DEF PrepareAgain, TypeOK, CallsOK, ledgerVars, envVars
<1>5. ASSUME NEW c \in Calls, NEW o \in Orders, PrepareCharged(c, o) PROVE TypeOK'
  <2>1. CallsOK'
    BY <1>5, CallsType DEF PrepareCharged
  <2>2. PICK l \in Orders : Consume(l)
    BY <1>5 DEF PrepareCharged
  <2>3. /\ order' \in [Orders -> OrderStatuses]
        /\ verif' \in [Orders -> [status : {"NONE", "PENDING"} \cup FinalStatuses,
                                 credit : {"NONE", "CHARGED", "DEFERRED"}]]
    BY <1>5, PreparedType DEF PrepareCharged
  <2> QED
    BY <1>5, <2>1, <2>2, <2>3, ConsumeEffects DEF PrepareCharged, TypeOK, CallsOK, envVars
<1>6. ASSUME NEW c \in Calls, NEW o \in Orders, PrepareDeferred(c, o) PROVE TypeOK'
  <2>1. CallsOK'
    BY <1>6, CallsType DEF PrepareDeferred
  <2>2. /\ order' \in [Orders -> OrderStatuses]
        /\ verif' \in [Orders -> [status : {"NONE", "PENDING"} \cup FinalStatuses,
                                 credit : {"NONE", "CHARGED", "DEFERRED"}]]
    BY <1>6, PreparedType DEF PrepareDeferred
  <2> QED
    BY <1>6, <2>1, <2>2 DEF PrepareDeferred, TypeOK, CallsOK, envVars
<1>7. ASSUME NEW c \in Calls, NEW o \in Orders, PrepareThrows(c, o) PROVE TypeOK'
  <2>1. CallsOK'
    BY <1>7, CallsType DEF PrepareThrows
  <2> QED
    BY <1>7, <2>1 DEF PrepareThrows, TypeOK, CallsOK, ledgerVars, envVars
<1>8. ASSUME NEW c \in Calls, NEW a \in Answers, ProviderAnswers(c, a) PROVE TypeOK'
  <2>1. CallsOK'
    <3>1. call[c].order \in Orders
      BY <1>8 DEF ProviderAnswers, TypeOK
    <3> QED
      BY <1>8, <3>1, CallsType DEF ProviderAnswers
  <2> QED
    BY <1>8, <2>1 DEF ProviderAnswers, TypeOK, CallsOK, ledgerVars, envVars
<1>9. ASSUME NEW c \in Calls, CallEnds(c) \/ RecordNothing(c) PROVE TypeOK'
  <2>1. CallsOK'
    <3>1. call[c].order \in Orders /\ call' = Ended(c)
      BY <1>9 DEF CallEnds, RecordNothing, TypeOK
    <3> QED
      BY <3>1, CallsType
  <2> QED
    BY <1>9, <2>1 DEF CallEnds, RecordNothing, TypeOK, CallsOK, ledgerVars, envVars
<1>10. ASSUME NEW c \in Calls, RecordFailed(c) \/ RecordDuplicate(c) PROVE TypeOK'
  <2>1. call[c].order \in Orders /\ call' = Ended(c)
    BY <1>10 DEF RecordFailed, RecordDuplicate, TypeOK
  <2>2. CallsOK'
    BY <2>1, CallsType
  <2>3. PICK s \in FinalStatuses : Concluded(call[c].order, s)
    BY <1>10 DEF RecordFailed, RecordDuplicate, FinalStatuses
  <2> QED
    BY <1>10, <2>1, <2>2, <2>3, ConcludedType
    DEF RecordFailed, RecordDuplicate, TypeOK, CallsOK, envVars
<1>11. ASSUME NEW c \in Calls, Activate(c) PROVE TypeOK'
  <2> DEFINE o == call[c].order
  <2>1. /\ o \in Orders /\ call' = Ended(c) /\ Concluded(o, "VERIFIED")
        /\ grants' = [grants EXCEPT ![o] = @ + 1] /\ paid' = [paid EXCEPT ![o] = @ + Owed(o)]
        /\ deferral' = [deferral EXCEPT ![o] = IF @ = "PENDING" THEN "SETTLED" ELSE @]
        /\ UNCHANGED <<envVars, proof>>
    BY <1>11, ActivateEffects DEF Activate
  <2>2. CallsOK'
    BY <2>1, CallsType
  <2>3. "VERIFIED" \in FinalStatuses /\ Owed(o) \in Nat
    BY <2>1, OwedCredits DEF FinalStatuses
  <2>4. /\ lot' \in [Orders -> Lots] /\ wallet' \in Wallets /\ alerts' \subseteq Orders \X Thresholds
        /\ \A u \in Orders : lot'[u].used + lot'[u].expired <= lot'[u].alloc
    BY <1>11, ActivateEffects
  <2> HIDE DEF o
  <2>5. /\ grants' \in [Orders -> Nat] /\ paid' \in [Orders -> Nat]
        /\ deferral' \in [Orders -> {"none", "PENDING", "SETTLED"}]
    BY <2>1, <2>3 DEF TypeOK
  <2> QED
    BY <2>1, <2>2, <2>3, <2>4, <2>5, ConcludedType DEF TypeOK, CallsOK, envVars
<1>12. ASSUME ServeCustomer PROVE TypeOK'
  <2>1. PICK l \in Orders : Consume(l)
    BY <1>12 DEF ServeCustomer
  <2> QED
    BY <1>12, <2>1, ConsumeEffects DEF ServeCustomer, TypeOK
<1>13. ASSUME ToggleBusiness \/ Tick PROVE TypeOK'
  BY <1>13 DEF ToggleBusiness, Tick, TypeOK, ledgerVars
<1>14. ASSUME UNCHANGED vars PROVE TypeOK'
  BY <1>14 DEF vars, ledgerVars, envVars, TypeOK
<1> QED
  BY <1>1, <1>2, <1>3, <1>4, <1>5, <1>6, <1>7, <1>8, <1>9, <1>10, <1>11, <1>12, <1>13, <1>14
  DEF Next, Verify

\* Every reachable state holds well-typed tables and calls, with lots within their CHECK.
THEOREM CreditsTypeCorrect == Spec => []TypeOK
BY TypeInit, TypeNext, PTL DEF Spec

-----------------------------------------------------------------------------
(* The inductive invariant.                                                *)

\* The credit decision is made with the verification row, and grants follow the order.
OrderShape ==
  \A o \in Orders :
    /\ verif[o].status = "NONE" <=> verif[o].credit = "NONE"
    /\ verif[o].status = "NONE" => order[o] \in {"NEW", "ORDER_CREATED", "PROOF_RECEIVED"}
    /\ grants[o] = IF order[o] = "VERIFIED" THEN 1 ELSE 0

\* A lot is inserted whole, and only the sweep counts expired credits.
LotShape ==
  \A o \in Orders :
    /\ lot[o].status = "none" => lot[o] = NoLot
    /\ lot[o].status # "none" => lot[o].alloc > 0
    /\ lot[o].status # "EXPIRED" => lot[o].expired = 0

\* The wallet's CHECK (purchased = used + expired + available).
WalletBalanced == wallet.purchased = wallet.used + wallet.expired + wallet.available

IInv == /\ TypeOK /\ OrderShape /\ LotShape /\ WalletBalanced
        /\ OrderPaysOnce /\ VerifiedIsGranted /\ AlertsFollowUsage

LEMMA IInvInit == Init => IInv
<1> SUFFICES ASSUME Init PROVE IInv
  OBVIOUS
<1>1. TypeOK
  BY TypeInit
<1>2. \A p \in Thresholds : p \in Nat /\ p > 0
  BY DEF Thresholds
<1> QED
  BY <1>1, <1>2 DEF Init, IInv, OrderShape, LotShape, WalletBalanced, OrderPaysOnce,
     VerifiedIsGranted, AlertsFollowUsage, NoLot

-----------------------------------------------------------------------------
(* What the lots keep.                                                     *)

\* The lot part of the invariant, and that no lot appears or disappears.
LotsKept == /\ LotShape' /\ AlertsFollowUsage' /\ WalletBalanced'
            /\ \A o \in Orders : lot'[o].status = "none" <=> lot[o].status = "none"

LEMMA LotNumbers ==
  ASSUME TypeOK, NEW o \in Orders
  PROVE  /\ lot[o].used \in Nat /\ lot[o].expired \in Nat /\ lot[o].alloc \in Nat
         /\ lot[o].expiry \in Nat /\ lot[o].used + lot[o].expired <= lot[o].alloc
         /\ \A p \in Thresholds : p \in {75, 90, 100}
BY DEF TypeOK, Lots, Thresholds

LEMMA ConsumeKeeps ==
  ASSUME IInv, NEW l \in Orders, Consume(l)
  PROVE  LotsKept
<1>0. TypeOK /\ LotShape /\ AlertsFollowUsage /\ WalletBalanced
  BY DEF IInv
<1>1. /\ Usable(l) /\ lot'[l] = Used(lot[l]) /\ \A o \in Orders \ {l} : lot'[o] = lot[o]
      /\ alerts' = alerts \cup Crossed(l, Used(lot[l]))
  BY <1>0, ConsumeEffects DEF Consume
<1>2. /\ lot[l].status = "ACTIVE" /\ lot[l] \in Lots /\ lot[l].used + lot[l].expired < lot[l].alloc
  BY <1>0, <1>1 DEF Usable, TypeOK
<1>3. /\ lot'[l].used = lot[l].used + 1 /\ lot'[l].expired = lot[l].expired
      /\ lot'[l].alloc = lot[l].alloc /\ lot'[l].status \in {"ACTIVE", "EXHAUSTED"}
  BY <1>1, <1>2, UsedLot
<1>4. LotShape'
  <2> SUFFICES ASSUME NEW o \in Orders
               PROVE  /\ lot'[o].status = "none" => lot'[o] = NoLot
                      /\ lot'[o].status # "none" => lot'[o].alloc > 0
                      /\ lot'[o].status # "EXPIRED" => lot'[o].expired = 0
    BY DEF LotShape
  <2>1. CASE o = l
    BY <2>1, <1>0, <1>2, <1>3 DEF LotShape
  <2>2. CASE o # l
    BY <2>2, <1>0, <1>1 DEF LotShape
  <2> QED
    BY <2>1, <2>2
<1>5. AlertsFollowUsage'
  <2> SUFFICES ASSUME NEW o \in Orders, NEW p \in Thresholds
               PROVE  <<o, p>> \in alerts' <=>
                        /\ lot'[o].status # "none"
                        /\ (lot'[o].used + lot'[o].expired) * 100 >= lot'[o].alloc * p
    BY DEF AlertsFollowUsage
  <2>1. CASE o = l
    <3>1. <<o, p>> \in Crossed(l, lot'[l]) <=>
            (lot'[l].used + lot'[l].expired) * 100 >= lot'[l].alloc * p
      BY <2>1 DEF Crossed
    <3>2. <<o, p>> \in alerts => (lot[l].used + lot[l].expired) * 100 >= lot[l].alloc * p
      BY <1>0, <2>1 DEF AlertsFollowUsage
    <3>3. (lot[l].used + lot[l].expired) * 100 <= (lot'[l].used + lot'[l].expired) * 100
      BY <1>0, <1>3, LotNumbers
    <3>4. /\ (lot[l].used + lot[l].expired) * 100 \in Nat
          /\ (lot'[l].used + lot'[l].expired) * 100 \in Nat
          /\ lot[l].alloc * p \in Nat
      <4>1. p \in Nat /\ lot[l].alloc \in Nat /\ lot[l].used \in Nat /\ lot[l].expired \in Nat
        BY <1>0, LotNumbers
      <4> QED
        BY <4>1, <1>3
    <3>5. <<o, p>> \in alerts => (lot'[l].used + lot'[l].expired) * 100 >= lot'[l].alloc * p
      BY <3>2, <3>3, <3>4, <1>3
    <3> QED
      BY <2>1, <3>1, <3>5, <1>1, <1>3
  <2>2. CASE o # l
    <3>1. <<o, p>> \notin Crossed(l, Used(lot[l]))
      BY <2>2 DEF Crossed
    <3> QED
      BY <2>2, <3>1, <1>0, <1>1 DEF AlertsFollowUsage
  <2> QED
    BY <2>1, <2>2
<1>6. WalletBalanced'
  BY <1>0 DEF Consume, WalletUsed, WalletBalanced, TypeOK, Wallets
<1> QED
  BY <1>1, <1>2, <1>3, <1>4, <1>5, <1>6 DEF LotsKept

LEMMA ExpireKeeps ==
  ASSUME IInv, NEW l \in Orders, ExpireDue(l)
  PROVE  LotsKept
<1>0. TypeOK /\ LotShape /\ AlertsFollowUsage /\ WalletBalanced
  BY DEF IInv
<1>1. /\ lot[l].status = "ACTIVE" /\ lot'[l].status = "EXPIRED"
      /\ lot'[l].used = lot[l].used /\ lot'[l].alloc = lot[l].alloc
      /\ lot'[l].expired = lot[l].alloc - lot[l].used
      /\ \A u \in Orders \ {l} : lot'[u] = lot[u]
  BY <1>0, ExpireEffects
<1>2. /\ lot[l].used \in Nat /\ lot[l].alloc \in Nat /\ lot[l].alloc > 0 /\ lot[l].expired = 0
      /\ Remaining(l) = lot[l].alloc - lot[l].used /\ Remaining(l) \in Nat
  <2>1. lot[l].alloc > 0 /\ lot[l].expired = 0
    BY <1>0, <1>1 DEF LotShape
  <2>2. lot[l].used \in Nat /\ lot[l].alloc \in Nat /\ lot[l].used <= lot[l].alloc
    BY <1>0, <2>1, LotNumbers
  <2> QED
    BY <2>1, <2>2 DEF Remaining
<1>3. alerts' = alerts \cup Crossed(l, [lot[l] EXCEPT !.expired = Remaining(l)])
  BY DEF ExpireDue
<1>4. LotShape'
  <2> SUFFICES ASSUME NEW o \in Orders
               PROVE  /\ lot'[o].status = "none" => lot'[o] = NoLot
                      /\ lot'[o].status # "none" => lot'[o].alloc > 0
                      /\ lot'[o].status # "EXPIRED" => lot'[o].expired = 0
    BY DEF LotShape
  <2>1. CASE o = l
    BY <2>1, <1>1, <1>2
  <2>2. CASE o # l
    BY <2>2, <1>0, <1>1 DEF LotShape
  <2> QED
    BY <2>1, <2>2
<1>5. AlertsFollowUsage'
  <2> SUFFICES ASSUME NEW o \in Orders, NEW p \in Thresholds
               PROVE  <<o, p>> \in alerts' <=>
                        /\ lot'[o].status # "none"
                        /\ (lot'[o].used + lot'[o].expired) * 100 >= lot'[o].alloc * p
    BY DEF AlertsFollowUsage
  <2> DEFINE k == [lot[l] EXCEPT !.expired = Remaining(l)]
  <2>1. CASE o = l
    <3>1. /\ k.used = lot[l].used /\ k.expired = lot[l].alloc - lot[l].used
          /\ k.alloc = lot[l].alloc
      BY <1>0, <1>2 DEF TypeOK, Lots
    <3>2. lot'[l].used + lot'[l].expired = lot[l].alloc /\ k.used + k.expired = lot[l].alloc
      BY <1>1, <1>2, <3>1
    <3>3. lot[l].alloc * 100 >= lot[l].alloc * p
      BY <1>2 DEF Thresholds
    <3>4. <<o, p>> \in Crossed(l, k) <=> (k.used + k.expired) * 100 >= k.alloc * p
      BY <2>1 DEF Crossed
    <3>5. <<o, p>> \in alerts'
      BY <3>1, <3>2, <3>3, <3>4, <1>3
    <3> QED
      BY <2>1, <3>2, <3>3, <3>5, <1>1
  <2>2. CASE o # l
    <3>1. <<o, p>> \notin Crossed(l, k)
      BY <2>2 DEF Crossed
    <3> QED
      BY <2>2, <3>1, <1>0, <1>1, <1>3 DEF AlertsFollowUsage
  <2> QED
    BY <2>1, <2>2
<1>6. WalletBalanced'
  <2> DEFINE r == Remaining(l)
  <2>1. wallet' = [wallet EXCEPT !.expired = @ + r, !.available = @ - r] /\ r \in Nat
    BY <1>2 DEF ExpireDue
  <2> HIDE DEF r
  <2> QED
    BY <1>0, <2>1 DEF WalletBalanced, TypeOK, Wallets
<1> QED
  BY <1>1, <1>4, <1>5, <1>6 DEF LotsKept

\* An order whose verification is open has neither lot nor grant.
LEMMA OpenOrder ==
  ASSUME IInv, NEW o \in Orders, Open(o)
  PROVE  /\ order[o] = "VERIFICATION_PENDING" /\ lot[o] = NoLot /\ grants[o] = 0
         /\ deferral[o] = "none" => verif[o].credit = "CHARGED" /\ paid[o] = 1
         /\ deferral[o] = "PENDING" => verif[o].credit = "DEFERRED" /\ paid[o] = 0
         /\ deferral[o] \in {"none", "PENDING"}
<1>1. /\ order[o] = "VERIFICATION_PENDING" /\ lot[o] = NoLot /\ grants[o] = 0
  BY DEF IInv, Open, VerifiedIsGranted, OrderShape, LotShape
<1>2. verif[o].credit \in {"CHARGED", "DEFERRED"} /\ deferral[o] \in {"none", "PENDING", "SETTLED"}
  BY DEF IInv, TypeOK, Open, OrderShape
<1> QED
  BY <1>1, <1>2 DEF IInv, OrderPaysOnce

\* VERIFIED orders are those with a VERIFIED verification.
LEMMA VerifiedOrder ==
  ASSUME IInv, NEW o \in Orders
  PROVE  order[o] = "VERIFIED" <=> verif[o].status = "VERIFIED"
<1>1. verif[o].status \in {"NONE", "PENDING"} \cup FinalStatuses
  BY DEF IInv, TypeOK
<1> QED
  BY <1>1 DEF IInv, VerifiedIsGranted, OrderShape, FinalStatuses

LEMMA ActivateKeepsLots ==
  ASSUME IInv, NEW c \in Calls, Activate(c)
  PROVE  LotShape' /\ AlertsFollowUsage' /\ WalletBalanced'
<1> DEFINE o == call[c].order
           k == NewLot(o, call[c].time + DurationOf[o])
<1>0. TypeOK /\ LotShape /\ AlertsFollowUsage /\ WalletBalanced
  BY DEF IInv
<1>1. /\ o \in Orders /\ Open(o) /\ lot'[o] = k /\ \A u \in Orders \ {o} : lot'[u] = lot[u]
      /\ call[c].time + DurationOf[o] \in Nat
  BY <1>0, ActivateEffects
<1>2. /\ alerts' = alerts \cup IF Owed(o) > 0 THEN Crossed(o, k) ELSE {}
      /\ wallet' = Granted(wallet, CreditsOf[o], Owed(o))
  BY DEF Activate
<1>3. /\ k.alloc = CreditsOf[o] /\ k.used = Owed(o) /\ k.expired = 0
      /\ k.status \in {"ACTIVE", "EXHAUSTED"}
  BY <1>1, NewLotType
<1>4. lot[o].status = "none"
  BY <1>1, OpenOrder DEF NoLot
<1>5. CreditsOf[o] \in Nat /\ CreditsOf[o] > 0 /\ Owed(o) \in {0, 1}
  BY <1>1, OwedCredits
<1> HIDE DEF o, k
<1>6. LotShape'
  <2> SUFFICES ASSUME NEW u \in Orders
               PROVE  /\ lot'[u].status = "none" => lot'[u] = NoLot
                      /\ lot'[u].status # "none" => lot'[u].alloc > 0
                      /\ lot'[u].status # "EXPIRED" => lot'[u].expired = 0
    BY DEF LotShape
  <2>1. CASE u = o
    BY <2>1, <1>1, <1>3, <1>5
  <2>2. CASE u # o
    BY <2>2, <1>0, <1>1 DEF LotShape
  <2> QED
    BY <2>1, <2>2
<1>7. AlertsFollowUsage'
  <2> SUFFICES ASSUME NEW u \in Orders, NEW p \in Thresholds
               PROVE  <<u, p>> \in alerts' <=>
                        /\ lot'[u].status # "none"
                        /\ (lot'[u].used + lot'[u].expired) * 100 >= lot'[u].alloc * p
    BY DEF AlertsFollowUsage
  <2>1. CASE u = o
    <3>1. <<u, p>> \notin alerts
      BY <2>1, <1>0, <1>4 DEF AlertsFollowUsage
    <3>2. <<u, p>> \in Crossed(o, k) <=> (k.used + k.expired) * 100 >= k.alloc * p
      BY <2>1 DEF Crossed
    <3>3. CASE Owed(o) = 0
      <4>1. ~((k.used + k.expired) * 100 >= k.alloc * p)
        BY <1>3, <1>5, <3>3 DEF Thresholds
      <4> QED
        BY <2>1, <3>1, <3>3, <4>1, <1>1, <1>2
    <3>4. CASE Owed(o) = 1
      BY <2>1, <3>1, <3>2, <3>4, <1>1, <1>2, <1>3
    <3> QED
      BY <3>3, <3>4, <1>5
  <2>2. CASE u # o
    <3>1. <<u, p>> \notin Crossed(o, k)
      BY <2>2 DEF Crossed
    <3> QED
      BY <2>2, <3>1, <1>0, <1>1, <1>2 DEF AlertsFollowUsage
  <2> QED
    BY <2>1, <2>2
<1>8. WalletBalanced'
  <2>1. /\ wallet'.purchased = wallet.purchased + CreditsOf[o]
        /\ wallet'.used = wallet.used + Owed(o) /\ wallet'.expired = wallet.expired
        /\ wallet'.available = (wallet.available + CreditsOf[o]) - Owed(o)
    BY <1>0, <1>2 DEF Granted, TypeOK, Wallets
  <2>2. /\ wallet.purchased \in Nat /\ wallet.used \in Nat /\ wallet.expired \in Nat
        /\ wallet.available \in Nat
    BY <1>0 DEF TypeOK, Wallets
  <2> QED
    BY <2>1, <2>2, <1>0, <1>5 DEF WalletBalanced
<1> QED
  BY <1>6, <1>7, <1>8

-----------------------------------------------------------------------------
(* What the orders keep.                                                   *)

OrdersKept == OrderShape' /\ OrderPaysOnce' /\ VerifiedIsGranted'

\* A step that concludes an open verification without a grant.
LEMMA ConcludeKeeps ==
  ASSUME IInv, NEW o \in Orders, NEW s \in {"FAILED", "DUPLICATE"}, Open(o), Concluded(o, s),
         UNCHANGED <<deferral, paid, lot, grants>>
  PROVE  OrdersKept
<1>1. /\ order'[o] = s /\ verif'[o].status = s /\ verif'[o].credit = verif[o].credit
      /\ \A u \in Orders \ {o} : order'[u] = order[u] /\ verif'[u] = verif[u]
  BY ConcludedType DEF IInv, FinalStatuses
<1>2. /\ order[o] = "VERIFICATION_PENDING" /\ lot[o] = NoLot /\ grants[o] = 0
      /\ deferral[o] # "SETTLED" /\ verif[o].status = "PENDING"
  BY OpenOrder DEF Open
<1>3. NoLot.status = "none"
  BY DEF NoLot
<1>4. OrderShape'
  BY <1>1, <1>2 DEF IInv, OrderShape
<1>5. OrderPaysOnce'
  BY <1>1, <1>2 DEF IInv, OrderPaysOnce
<1>6. VerifiedIsGranted'
  BY <1>1, <1>2, <1>3 DEF IInv, VerifiedIsGranted
<1> QED
  BY <1>4, <1>5, <1>6 DEF OrdersKept

\* A preparation that charges or defers the credit of an order not prepared before.
LEMMA PrepareKeeps ==
  ASSUME IInv, NEW o \in Orders, NEW d \in {"CHARGED", "DEFERRED"}, Preparable(o), ~Prepared(o),
         order' = [order EXCEPT ![o] = "VERIFICATION_PENDING"],
         verif' = [verif EXCEPT ![o] = [status |-> "PENDING", credit |-> d]],
         d = "CHARGED" => paid' = [paid EXCEPT ![o] = @ + 1] /\ UNCHANGED deferral,
         d = "DEFERRED" => deferral' = [deferral EXCEPT ![o] = "PENDING"] /\ UNCHANGED paid,
         UNCHANGED grants,
         \A u \in Orders : lot'[u].status = "none" <=> lot[u].status = "none"
  PROVE  OrdersKept
<1>1. /\ order'[o] = "VERIFICATION_PENDING" /\ verif'[o].status = "PENDING"
      /\ verif'[o].credit = d
      /\ \A u \in Orders \ {o} : order'[u] = order[u] /\ verif'[u] = verif[u]
  BY DEF IInv, TypeOK
<1>2. /\ order[o] # "VERIFIED" /\ verif[o].status = "NONE" /\ verif[o].credit = "NONE"
      /\ deferral[o] = "none" /\ paid[o] = 0
  <2>1. verif[o].status = "NONE" /\ verif[o].credit = "NONE" /\ order[o] # "VERIFIED"
    BY DEF IInv, Prepared, Preparable, OrderShape
  <2> QED
    BY <2>1 DEF IInv, OrderPaysOnce
<1>3. OrderShape'
  BY <1>1, <1>2 DEF IInv, OrderShape
<1>4. OrderPaysOnce'
  <2>1. CASE d = "CHARGED"
    <3>1. /\ paid'[o] = 1 /\ deferral' = deferral
          /\ \A u \in Orders \ {o} : paid'[u] = paid[u]
      BY <2>1, <1>2 DEF IInv, TypeOK
    <3> QED
      BY <2>1, <3>1, <1>1, <1>2 DEF IInv, OrderPaysOnce
  <2>2. CASE d = "DEFERRED"
    <3>1. /\ deferral'[o] = "PENDING" /\ paid' = paid
          /\ \A u \in Orders \ {o} : deferral'[u] = deferral[u]
      BY <2>2 DEF IInv, TypeOK
    <3> QED
      BY <2>2, <3>1, <1>1, <1>2 DEF IInv, OrderPaysOnce
  <2> QED
    BY <2>1, <2>2
<1>5. VerifiedIsGranted'
  BY <1>1, <1>2 DEF IInv, VerifiedIsGranted
<1> QED
  BY <1>3, <1>4, <1>5 DEF OrdersKept

LEMMA ActivateKeepsOrders ==
  ASSUME IInv, NEW c \in Calls, Activate(c)
  PROVE  OrdersKept
<1> DEFINE o == call[c].order
<1>0. /\ o \in Orders /\ Open(o) /\ ~Reused(o) /\ Concluded(o, "VERIFIED")
      /\ lot'[o] = NewLot(o, call[c].time + DurationOf[o])
      /\ call[c].time + DurationOf[o] \in Nat
      /\ \A u \in Orders \ {o} : lot'[u] = lot[u]
  BY ActivateEffects DEF IInv
<1>1. /\ grants' = [grants EXCEPT ![o] = @ + 1] /\ paid' = [paid EXCEPT ![o] = @ + Owed(o)]
      /\ deferral' = [deferral EXCEPT ![o] = IF @ = "PENDING" THEN "SETTLED" ELSE @]
  BY DEF Activate
<1>2. lot'[o].status # "none"
  BY <1>0, NewLotType
<1> HIDE DEF o
<1>3. /\ order'[o] = "VERIFIED" /\ verif'[o].status = "VERIFIED"
      /\ verif'[o].credit = verif[o].credit
      /\ \A u \in Orders \ {o} : order'[u] = order[u] /\ verif'[u] = verif[u]
  BY <1>0, ConcludedType DEF IInv, FinalStatuses
<1>4. /\ order[o] = "VERIFICATION_PENDING" /\ grants[o] = 0 /\ verif[o].status = "PENDING"
      /\ deferral[o] = "none" => verif[o].credit = "CHARGED" /\ paid[o] = 1
      /\ deferral[o] = "PENDING" => verif[o].credit = "DEFERRED" /\ paid[o] = 0
      /\ deferral[o] \in {"none", "PENDING"}
  BY <1>0, OpenOrder DEF Open
<1>5. /\ grants'[o] = 1 /\ paid'[o] = 1
      /\ deferral'[o] = IF deferral[o] = "PENDING" THEN "SETTLED" ELSE "none"
      /\ \A u \in Orders \ {o} : /\ grants'[u] = grants[u] /\ paid'[u] = paid[u]
                                /\ deferral'[u] = deferral[u]
  BY <1>0, <1>1, <1>4 DEF IInv, TypeOK, Owed
<1>6. \A u \in Orders \ {o} : order[u] = "VERIFIED" => PaymentOf[u] # PaymentOf[o]
  BY <1>0, VerifiedOrder DEF Reused
<1>7. OrderShape'
  BY <1>3, <1>4, <1>5 DEF IInv, OrderShape
<1>8. OrderPaysOnce'
  BY <1>3, <1>4, <1>5 DEF IInv, OrderPaysOnce
<1>9. VerifiedIsGranted'
  BY <1>0, <1>2, <1>3, <1>5, <1>6 DEF IInv, VerifiedIsGranted
<1> QED
  BY <1>7, <1>8, <1>9 DEF OrdersKept

-----------------------------------------------------------------------------
(* The inductive step.                                                     *)

LEMMA IInvNext == IInv /\ [Next]_vars => IInv'
<1> SUFFICES ASSUME IInv, [Next]_vars PROVE IInv'
  OBVIOUS
<1>0. TypeOK'
  BY TypeNext DEF IInv
<1>1. ASSUME UNCHANGED ledgerVars PROVE IInv'
  BY <1>0, <1>1 DEF ledgerVars, IInv, OrderShape, LotShape, WalletBalanced, OrderPaysOnce,
     VerifiedIsGranted, AlertsFollowUsage
<1>2. ASSUME UNCHANGED <<lot, wallet, alerts>>, OrdersKept PROVE IInv'
  <2>1. LotShape' /\ WalletBalanced' /\ AlertsFollowUsage'
    BY <1>2 DEF IInv, LotShape, WalletBalanced, AlertsFollowUsage
  <2> QED
    BY <1>0, <1>2, <2>1 DEF OrdersKept, IInv
<1>3. ASSUME LotsKept, UNCHANGED <<order, verif, deferral, paid, grants>> PROVE IInv'
  <2>1. OrderShape' /\ OrderPaysOnce' /\ VerifiedIsGranted'
    BY <1>3 DEF LotsKept, IInv, OrderShape, OrderPaysOnce, VerifiedIsGranted
  <2> QED
    BY <1>0, <1>3, <2>1 DEF LotsKept, IInv
<1>4. ASSUME NEW o \in Orders, NEW s \in {"ORDER_CREATED", "PROOF_RECEIVED"},
             order[o] \in {"NEW", "ORDER_CREATED"}, order' = [order EXCEPT ![o] = s],
             UNCHANGED <<verif, deferral, paid, lot, grants, wallet, alerts>>
      PROVE  IInv'
  <2>1. order'[o] = s /\ \A u \in Orders \ {o} : order'[u] = order[u]
    BY <1>4 DEF IInv, TypeOK
  <2>2. verif[o].status = "NONE"
    <3>1. verif[o].status \in {"NONE", "PENDING"} \cup FinalStatuses
      BY DEF IInv, TypeOK
    <3> QED
      BY <1>4, <3>1 DEF IInv, VerifiedIsGranted, FinalStatuses
  <2>3. OrderShape' /\ OrderPaysOnce' /\ VerifiedIsGranted'
    BY <1>4, <2>1, <2>2 DEF IInv, OrderShape, OrderPaysOnce, VerifiedIsGranted
  <2> QED
    BY <1>2, <1>4, <2>3 DEF OrdersKept
<1>5. ASSUME NEW o \in Orders, Create(o) PROVE IInv'
  BY <1>4, <1>5 DEF Create
<1>6. ASSUME NEW o \in Orders, NEW p \in {"usable", "unusable"}, AddProof(o, p) PROVE IInv'
  BY <1>4, <1>6 DEF AddProof
<1>7. ASSUME NEW o \in Orders, ExpireDue(o) PROVE IInv'
  BY <1>3, <1>7, ExpireKeeps DEF ExpireDue
<1>8. ASSUME NEW c \in Calls, NEW o \in Orders, PrepareAgain(c, o) \/ PrepareThrows(c, o)
      PROVE  IInv'
  BY <1>1, <1>8 DEF PrepareAgain, PrepareThrows
<1>9. ASSUME NEW c \in Calls, NEW o \in Orders, PrepareCharged(c, o) PROVE IInv'
  <2>1. PICK l \in Orders : Consume(l)
    BY <1>9 DEF PrepareCharged
  <2>2. LotsKept
    BY <2>1, ConsumeKeeps
  <2>3. OrdersKept
    <3> DEFINE d == "CHARGED"
    <3>1. /\ Preparable(o) /\ ~Prepared(o) /\ UNCHANGED <<deferral, grants>>
          /\ order' = [order EXCEPT ![o] = "VERIFICATION_PENDING"]
          /\ verif' = [verif EXCEPT ![o] = [status |-> "PENDING", credit |-> d]]
          /\ paid' = [paid EXCEPT ![o] = @ + 1]
      BY <1>9 DEF PrepareCharged
    <3>2. \A u \in Orders : lot'[u].status = "none" <=> lot[u].status = "none"
      BY <2>2 DEF LotsKept
    <3>3. d \in {"CHARGED", "DEFERRED"} /\ d # "DEFERRED"
      OBVIOUS
    <3> HIDE DEF d
    <3> QED
      BY <3>1, <3>2, <3>3, PrepareKeeps
  <2> QED
    BY <1>0, <2>2, <2>3 DEF LotsKept, OrdersKept, IInv
<1>10. ASSUME NEW c \in Calls, NEW o \in Orders, PrepareDeferred(c, o) PROVE IInv'
  <2>1. OrdersKept
    <3> DEFINE d == "DEFERRED"
    <3>1. /\ Preparable(o) /\ ~Prepared(o) /\ UNCHANGED <<paid, lot, grants>>
          /\ order' = [order EXCEPT ![o] = "VERIFICATION_PENDING"]
          /\ verif' = [verif EXCEPT ![o] = [status |-> "PENDING", credit |-> d]]
          /\ deferral' = [deferral EXCEPT ![o] = "PENDING"]
      BY <1>10 DEF PrepareDeferred
    <3>2. d \in {"CHARGED", "DEFERRED"} /\ d # "CHARGED"
      OBVIOUS
    <3> HIDE DEF d
    <3> QED
      BY <3>1, <3>2, PrepareKeeps
  <2> QED
    BY <1>2, <1>10, <2>1 DEF PrepareDeferred
<1>11. ASSUME NEW c \in Calls,
              (\E a \in Answers : ProviderAnswers(c, a)) \/ CallEnds(c) \/ RecordNothing(c)
       PROVE  IInv'
  BY <1>1, <1>11 DEF ProviderAnswers, CallEnds, RecordNothing
<1>12. ASSUME NEW c \in Calls, RecordFailed(c) \/ RecordDuplicate(c) PROVE IInv'
  <2>1. call[c].order \in Orders
    BY <1>12 DEF RecordFailed, RecordDuplicate, IInv, TypeOK
  <2>2. PICK s \in {"FAILED", "DUPLICATE"} : Concluded(call[c].order, s)
    BY <1>12 DEF RecordFailed, RecordDuplicate
  <2>3. OrdersKept
    BY <1>12, <2>1, <2>2, ConcludeKeeps DEF RecordFailed, RecordDuplicate
  <2> QED
    BY <1>2, <1>12, <2>3 DEF RecordFailed, RecordDuplicate
<1>13. ASSUME NEW c \in Calls, Activate(c) PROVE IInv'
  BY <1>0, <1>13, ActivateKeepsLots, ActivateKeepsOrders DEF OrdersKept, IInv
<1>14. ASSUME ServeCustomer PROVE IInv'
  <2>1. PICK l \in Orders : Consume(l)
    BY <1>14 DEF ServeCustomer
  <2> QED
    BY <1>3, <1>14, <2>1, ConsumeKeeps DEF ServeCustomer
<1>15. ASSUME ToggleBusiness \/ Tick \/ UNCHANGED vars PROVE IInv'
  BY <1>1, <1>15 DEF ToggleBusiness, Tick, vars
<1> QED
  BY <1>5, <1>6, <1>7, <1>8, <1>9, <1>10, <1>11, <1>12, <1>13, <1>14, <1>15 DEF Next, Verify

-----------------------------------------------------------------------------
(* The wallet and the sums of the lots.                                    *)

LotsAllocated == SumFunction([o \in Orders |-> lot[o].alloc])
LotsUsed      == SumFunction([o \in Orders |-> lot[o].used])
LotsExpired   == SumFunction([o \in Orders |-> lot[o].expired])

\* One term of a sum over the orders changes.
LEMMA OneTerm ==
  ASSUME NEW f \in [Orders -> Nat], NEW g \in [Orders -> Nat], NEW o \in Orders,
         \A u \in Orders \ {o} : g[u] = f[u]
  PROVE  SumFunction(g) = SumFunction(f) + (g[o] - f[o]) /\ SumFunction(f) \in Int
<1>1. /\ \A u \in Orders : f[u] \in Int /\ g[u] \in Int
      /\ \A u \in Orders \ {o} : f[u] = g[u]
  OBVIOUS
<1>2. SumFunctionOnSet(g, Orders) = SumFunctionOnSet(f, Orders) + (g[o] - f[o])
  BY <1>1, OrdersFinite, SumChanges
<1>3. SumFunctionOnSet(f, Orders) \in Int
  BY <1>1, OrdersFinite, SumIsNumber
<1> QED
  BY <1>2, <1>3 DEF SumFunction

LEMMA OneLot ==
  ASSUME TypeOK, NEW o \in Orders, lot' \in [Orders -> Lots], \A u \in Orders \ {o} : lot'[u] = lot[u]
  PROVE  /\ LotsAllocated' = LotsAllocated + (lot'[o].alloc - lot[o].alloc)
         /\ LotsUsed' = LotsUsed + (lot'[o].used - lot[o].used)
         /\ LotsExpired' = LotsExpired + (lot'[o].expired - lot[o].expired)
         /\ LotsAllocated \in Int /\ LotsUsed \in Int /\ LotsExpired \in Int
<1>1. \A u \in Orders : lot[u] \in Lots /\ lot'[u] \in Lots
  BY DEF TypeOK
<1>2. /\ [u \in Orders |-> lot[u].alloc] \in [Orders -> Nat]
      /\ [u \in Orders |-> lot'[u].alloc] \in [Orders -> Nat]
      /\ [u \in Orders |-> lot[u].used] \in [Orders -> Nat]
      /\ [u \in Orders |-> lot'[u].used] \in [Orders -> Nat]
      /\ [u \in Orders |-> lot[u].expired] \in [Orders -> Nat]
      /\ [u \in Orders |-> lot'[u].expired] \in [Orders -> Nat]
  BY <1>1 DEF Lots
<1>3. /\ LotsAllocated' = LotsAllocated + (lot'[o].alloc - lot[o].alloc) /\ LotsAllocated \in Int
  <2>1. PICK f \in [Orders -> Nat], g \in [Orders -> Nat] :
          f = [u \in Orders |-> lot[u].alloc] /\ g = [u \in Orders |-> lot'[u].alloc]
    BY <1>2
  <2>2. SumFunction(g) = SumFunction(f) + (g[o] - f[o]) /\ SumFunction(f) \in Int
    BY <2>1, OneTerm
  <2> QED
    BY <2>1, <2>2 DEF LotsAllocated
<1>4. /\ LotsUsed' = LotsUsed + (lot'[o].used - lot[o].used) /\ LotsUsed \in Int
  <2>1. PICK f \in [Orders -> Nat], g \in [Orders -> Nat] :
          f = [u \in Orders |-> lot[u].used] /\ g = [u \in Orders |-> lot'[u].used]
    BY <1>2
  <2>2. SumFunction(g) = SumFunction(f) + (g[o] - f[o]) /\ SumFunction(f) \in Int
    BY <2>1, OneTerm
  <2> QED
    BY <2>1, <2>2 DEF LotsUsed
<1>5. /\ LotsExpired' = LotsExpired + (lot'[o].expired - lot[o].expired) /\ LotsExpired \in Int
  <2>1. PICK f \in [Orders -> Nat], g \in [Orders -> Nat] :
          f = [u \in Orders |-> lot[u].expired] /\ g = [u \in Orders |-> lot'[u].expired]
    BY <1>2
  <2>2. SumFunction(g) = SumFunction(f) + (g[o] - f[o]) /\ SumFunction(f) \in Int
    BY <2>1, OneTerm
  <2> QED
    BY <2>1, <2>2 DEF LotsExpired
<1> QED
  BY <1>3, <1>4, <1>5

\* The lots add up to the wallet.
LotsAddUp ==
  wallet.purchased = LotsAllocated /\ wallet.used = LotsUsed /\ wallet.expired = LotsExpired

LEMMA ConsumeAddsUp ==
  ASSUME TypeOK, LotsAddUp, NEW l \in Orders, Consume(l)
  PROVE  LotsAddUp' /\ wallet'.used = wallet.used + 1
<1>1. /\ lot[l] \in Lots /\ lot[l].used + lot[l].expired < lot[l].alloc
      /\ lot'[l] = Used(lot[l]) /\ lot' \in [Orders -> Lots]
      /\ \A o \in Orders \ {l} : lot'[o] = lot[o]
  BY ConsumeEffects DEF Usable, TypeOK
<1>2. lot'[l].used = lot[l].used + 1 /\ lot'[l].expired = lot[l].expired /\ lot'[l].alloc = lot[l].alloc
  BY <1>1, UsedLot
<1>3. lot[l].used \in Nat /\ lot[l].expired \in Nat /\ lot[l].alloc \in Nat
  BY LotNumbers
<1>4. /\ LotsAllocated' = LotsAllocated /\ LotsUsed' = LotsUsed + 1 /\ LotsExpired' = LotsExpired
  BY <1>1, <1>2, <1>3, OneLot
<1>5. /\ wallet'.purchased = wallet.purchased /\ wallet'.used = wallet.used + 1
      /\ wallet'.expired = wallet.expired
  BY DEF Consume, WalletUsed, TypeOK, Wallets
<1> QED
  BY <1>4, <1>5 DEF LotsAddUp

LEMMA ExpireAddsUp ==
  ASSUME TypeOK, LotsAddUp, NEW l \in Orders, ExpireDue(l)
  PROVE  LotsAddUp' /\ wallet'.used = wallet.used
<1>1. /\ lot' \in [Orders -> Lots] /\ \A u \in Orders \ {l} : lot'[u] = lot[u]
      /\ lot'[l].used = lot[l].used /\ lot'[l].alloc = lot[l].alloc
      /\ lot'[l].expired = lot[l].alloc - lot[l].used
  BY ExpireEffects
<1>2. lot[l].used \in Nat /\ lot[l].expired \in Nat /\ lot[l].alloc \in Nat
  BY LotNumbers
<1>3. /\ LotsAllocated' = LotsAllocated /\ LotsUsed' = LotsUsed
      /\ LotsExpired' = LotsExpired + Remaining(l) /\ Remaining(l) \in Int
  BY <1>1, <1>2, OneLot DEF Remaining
<1>4. /\ wallet'.purchased = wallet.purchased /\ wallet'.used = wallet.used
      /\ wallet'.expired = wallet.expired + Remaining(l)
  <2>1. PICK r : r = Remaining(l)
    OBVIOUS
  <2>2. wallet' = [wallet EXCEPT !.expired = wallet.expired + r, !.available = wallet.available - r]
    BY <2>1 DEF ExpireDue
  <2> QED
    BY <2>1, <2>2 DEF TypeOK, Wallets
<1> QED
  BY <1>3, <1>4 DEF LotsAddUp

LEMMA ActivateAddsUp ==
  ASSUME IInv, LotsAddUp, NEW c \in Calls, Activate(c)
  PROVE  LotsAddUp' /\ wallet'.used = wallet.used + Owed(call[c].order)
<1>1. TypeOK
  BY DEF IInv
<1>2. PICK o \in Orders, e \in Nat :
        /\ o = call[c].order /\ Open(o) /\ e = call[c].time + DurationOf[o]
        /\ lot' \in [Orders -> Lots] /\ lot'[o] = NewLot(o, e)
        /\ \A u \in Orders \ {o} : lot'[u] = lot[u]
  BY <1>1, ActivateEffects
<1>3. lot[o].alloc = 0 /\ lot[o].used = 0 /\ lot[o].expired = 0
  <2>1. lot[o] = NoLot
    BY <1>2, OpenOrder
  <2> QED
    BY <2>1 DEF NoLot
<1>4. lot'[o].alloc = CreditsOf[o] /\ lot'[o].used = Owed(o) /\ lot'[o].expired = 0
  BY <1>2, NewLotType
<1>5. CreditsOf[o] \in Nat /\ Owed(o) \in Nat
  BY OwedCredits
<1>6. /\ LotsAllocated' = LotsAllocated + CreditsOf[o] /\ LotsUsed' = LotsUsed + Owed(o)
      /\ LotsExpired' = LotsExpired
  BY <1>1, <1>2, <1>3, <1>4, <1>5, OneLot
<1>7. /\ wallet'.purchased = wallet.purchased + CreditsOf[o]
      /\ wallet'.used = wallet.used + Owed(o) /\ wallet'.expired = wallet.expired
  <2>1. wallet' = Granted(wallet, CreditsOf[o], Owed(o))
    BY <1>2 DEF Activate
  <2>2. wallet \in Wallets
    BY <1>1 DEF TypeOK
  <2> QED
    BY <2>1, <2>2 DEF Granted, Wallets
<1> QED
  BY <1>2, <1>6, <1>7 DEF LotsAddUp

\* Every used credit was taken for a customer or for an order.
CreditsAccounted == wallet.used = served + SumFunction(paid)

LEMMA OnePaid ==
  ASSUME TypeOK, NEW o \in Orders, NEW n \in Nat, paid' = [paid EXCEPT ![o] = paid[o] + n]
  PROVE  SumFunction(paid)' = SumFunction(paid) + n
<1>1. paid \in [Orders -> Nat] /\ paid' \in [Orders -> Nat] /\ paid'[o] = paid[o] + n
      /\ \A u \in Orders \ {o} : paid'[u] = paid[u]
  BY DEF TypeOK
<1>2. SumFunction(paid') = SumFunction(paid) + (paid'[o] - paid[o]) /\ SumFunction(paid) \in Int
  BY <1>1, OneTerm
<1>3. paid[o] \in Nat
  BY <1>1
<1> QED
  BY <1>1, <1>2, <1>3

LEMMA WalletInit == Init => LotsAddUp /\ CreditsAccounted
<1> SUFFICES ASSUME Init PROVE LotsAddUp /\ CreditsAccounted
  OBVIOUS
<1>1. ASSUME NEW f, f = [o \in Orders |-> 0] PROVE SumFunction(f) = 0
  <2>1. \A o \in Orders : f[o] = 0
    BY <1>1
  <2>2. SumFunctionOnSet(f, Orders) = 0
    BY <2>1, OrdersFinite, SumOfZeros
  <2>3. DOMAIN f = Orders
    BY <1>1
  <2> QED
    BY <2>2, <2>3 DEF SumFunction
<1>2. /\ [o \in Orders |-> lot[o].alloc] = [o \in Orders |-> 0]
      /\ [o \in Orders |-> lot[o].used] = [o \in Orders |-> 0]
      /\ [o \in Orders |-> lot[o].expired] = [o \in Orders |-> 0]
      /\ paid = [o \in Orders |-> 0]
  BY DEF Init, NoLot
<1>3. LotsAllocated = 0 /\ LotsUsed = 0 /\ LotsExpired = 0 /\ SumFunction(paid) = 0
  BY <1>1, <1>2 DEF LotsAllocated, LotsUsed, LotsExpired
<1> QED
  BY <1>3 DEF Init, LotsAddUp, CreditsAccounted

LEMMA WalletNext ==
  IInv /\ LotsAddUp /\ CreditsAccounted /\ [Next]_vars => LotsAddUp' /\ CreditsAccounted'
<1> SUFFICES ASSUME IInv, LotsAddUp, CreditsAccounted, [Next]_vars
             PROVE  LotsAddUp' /\ CreditsAccounted'
  OBVIOUS
<1>0. /\ TypeOK /\ SumFunction(paid) \in Int /\ wallet.used \in Nat /\ served \in Nat
  <2>1. TypeOK
    BY DEF IInv
  <2>2. wallet.used \in Nat /\ served \in Nat
    BY <2>1 DEF TypeOK, Wallets
  <2>3. SumFunctionOnSet(paid, Orders) \in Int
    BY <2>1, OrdersFinite, SumIsNumber DEF TypeOK
  <2> QED
    BY <2>1, <2>2, <2>3 DEF SumFunction, TypeOK
<1>1. ASSUME UNCHANGED <<lot, wallet, paid, served>> PROVE LotsAddUp' /\ CreditsAccounted'
  BY <1>1 DEF LotsAddUp, CreditsAccounted, LotsAllocated, LotsUsed, LotsExpired
<1>2. ASSUME NEW o \in Orders, ExpireDue(o) PROVE LotsAddUp' /\ CreditsAccounted'
  BY <1>0, <1>2, ExpireAddsUp DEF ExpireDue, envVars, CreditsAccounted
<1>3. ASSUME NEW c \in Calls, NEW o \in Orders, PrepareCharged(c, o)
      PROVE  LotsAddUp' /\ CreditsAccounted'
  <2>1. PICK l \in Orders : Consume(l)
    BY <1>3 DEF PrepareCharged
  <2>2. paid' = [paid EXCEPT ![o] = paid[o] + 1] /\ served' = served
    BY <1>3 DEF PrepareCharged, envVars
  <2>3. SumFunction(paid)' = SumFunction(paid) + 1
    BY <1>0, <2>2, OnePaid
  <2> QED
    BY <1>0, <2>1, <2>2, <2>3, ConsumeAddsUp DEF CreditsAccounted
<1>4. ASSUME NEW c \in Calls, Activate(c) PROVE LotsAddUp' /\ CreditsAccounted'
  <2>1. PICK o \in Orders : o = call[c].order
    BY <1>0, <1>4, ActivateEffects
  <2>2. paid' = [paid EXCEPT ![o] = paid[o] + Owed(o)] /\ served' = served
    BY <1>4, <2>1 DEF Activate, envVars
  <2>3. Owed(o) \in Nat
    BY OwedCredits
  <2>4. SumFunction(paid)' = SumFunction(paid) + Owed(o)
    BY <1>0, <2>2, <2>3, OnePaid
  <2> QED
    BY <1>0, <1>4, <2>1, <2>2, <2>3, <2>4, ActivateAddsUp DEF CreditsAccounted
<1>5. ASSUME ServeCustomer PROVE LotsAddUp' /\ CreditsAccounted'
  <2>1. PICK l \in Orders : Consume(l)
    BY <1>5 DEF ServeCustomer
  <2>2. paid' = paid /\ served' = served + 1
    BY <1>5 DEF ServeCustomer
  <2> QED
    BY <1>0, <2>1, <2>2, ConsumeAddsUp DEF CreditsAccounted
<1> QED
  BY <1>1, <1>2, <1>3, <1>4, <1>5
     DEF Next, Verify, Create, AddProof, PrepareAgain, PrepareDeferred, PrepareThrows, ProviderAnswers,
         RecordNothing, RecordFailed, RecordDuplicate, CallEnds, ToggleBusiness, Tick, vars, ledgerVars,
         envVars

-----------------------------------------------------------------------------
(* The theorems.                                                           *)

\* The inductive invariant holds in every reachable state.
THEOREM CreditsInvariant == Spec => []IInv
BY IInvInit, IInvNext, PTL DEF Spec

\* An order pays one credit, at once or out of its own lot.
THEOREM CreditsOrderPaysOnce == Spec => []OrderPaysOnce
<1>1. IInv => OrderPaysOnce
  BY DEF IInv
<1> QED
  BY <1>1, CreditsInvariant, PTL

\* A VERIFIED order, and no other, has one grant and its lot; a payment verifies one order.
THEOREM CreditsVerifiedIsGranted == Spec => []VerifiedIsGranted
<1>1. IInv => VerifiedIsGranted
  BY DEF IInv
<1> QED
  BY <1>1, CreditsInvariant, PTL

\* A lot has exactly the alerts of the thresholds its used and expired credits reach.
THEOREM CreditsAlertsFollowUsage == Spec => []AlertsFollowUsage
<1>1. IInv => AlertsFollowUsage
  BY DEF IInv
<1> QED
  BY <1>1, CreditsInvariant, PTL

\* No credit is lost or invented: whichever transactions overlap, the wallet is the sum of its lots,
\* and each used credit was taken for a customer or for an order.
THEOREM CreditsWalletMatchesLots == Spec => []WalletMatchesLots
<1>1. IInv /\ LotsAddUp /\ CreditsAccounted => WalletMatchesLots
  BY DEF IInv, WalletBalanced, LotsAddUp, CreditsAccounted, WalletMatchesLots, LotsAllocated, LotsUsed,
     LotsExpired
<1> QED
  BY <1>1, IInvInit, IInvNext, WalletInit, WalletNext, PTL DEF Spec

-----------------------------------------------------------------------------
(* Action properties.                                                      *)

\* Credits are spent before their lot's expiry; exhausted and expired lots are final.
THEOREM CreditsAreSpentInForce == Spec => CreditsSpentInForce
<1> DEFINE A == \A o \in Orders :
                  /\ lot'[o].used > lot[o].used => lot'[o].expiry > clock
                  /\ lot[o].status \in {"EXHAUSTED", "EXPIRED"} => lot'[o] = lot[o]
<1>1. IInv /\ [Next]_vars => [A]_vars
  <2> SUFFICES ASSUME IInv, Next PROVE A
    BY DEF vars, ledgerVars, envVars
  <2>0. TypeOK /\ \A o \in Orders : ~(lot[o].used > lot[o].used)
    BY LotNumbers DEF IInv
  <2>1. ASSUME UNCHANGED lot PROVE A
    BY <2>0, <2>1
  <2>2. ASSUME NEW l \in Orders, Consume(l) PROVE A
    <3>1. Usable(l) /\ lot'[l] = Used(lot[l]) /\ \A o \in Orders \ {l} : lot'[o] = lot[o]
      BY <2>0, <2>2, ConsumeEffects
    <3>2. /\ lot[l].status = "ACTIVE" /\ lot[l].expiry > clock /\ lot[l] \in Lots
          /\ lot[l].used + lot[l].expired < lot[l].alloc
      BY <2>0, <3>1 DEF Usable, TypeOK
    <3>3. lot'[l].expiry = lot[l].expiry
      BY <3>1, <3>2, UsedLot
    <3> QED
      BY <2>0, <3>1, <3>2, <3>3
  <2>3. ASSUME NEW l \in Orders, ExpireDue(l) PROVE A
    <3>1. /\ lot[l].status = "ACTIVE" /\ lot'[l].used = lot[l].used
          /\ \A o \in Orders \ {l} : lot'[o] = lot[o]
      BY <2>0, <2>3, ExpireEffects
    <3> QED
      BY <2>0, <3>1
  <2>4. ASSUME NEW c \in Calls, Activate(c) PROVE A
    <3> DEFINE o == call[c].order
               expiry == call[c].time + DurationOf[o]
    <3>1. /\ o \in Orders /\ expiry \in Nat /\ expiry > clock /\ Open(o)
          /\ lot'[o] = NewLot(o, expiry) /\ \A u \in Orders \ {o} : lot'[u] = lot[u]
      BY <2>0, <2>4, ActivateEffects
    <3>2. lot'[o].expiry = expiry
      BY <3>1, NewLotType
    <3> HIDE DEF o, expiry
    <3>3. lot[o].status = "none"
      BY <3>1, OpenOrder DEF NoLot
    <3> QED
      BY <2>0, <3>1, <3>2, <3>3
  <2> HIDE DEF A
  <2> QED
    BY <2>1, <2>2, <2>3, <2>4 DEF Next, Verify, Create, AddProof, PrepareAgain, PrepareCharged,
       PrepareDeferred, PrepareThrows, ProviderAnswers, CallEnds, RecordNothing, RecordFailed,
       RecordDuplicate, ServeCustomer, ToggleBusiness, Tick, ledgerVars
<1> HIDE DEF A
<1>2. Spec => [][A]_vars
  BY <1>1, CreditsInvariant, PTL DEF Spec
<1> QED
  BY <1>2 DEF A, CreditsSpentInForce

-----------------------------------------------------------------------------
(* When a preparation throws.                                              *)

\* A lot that is not ACTIVE has no credit left.
EndedLotsAreSpent ==
  \A o \in Orders : lot[o].status # "ACTIVE" => lot[o].used + lot[o].expired = lot[o].alloc

\* Its period is over, and no sweep took the credits it has left.
Lapsed(o) == /\ lot[o].status = "ACTIVE" /\ lot[o].used + lot[o].expired < lot[o].alloc
             /\ lot[o].expiry <= clock

LEMMA SpentNext == IInv /\ EndedLotsAreSpent /\ [Next]_vars => EndedLotsAreSpent'
<1> SUFFICES ASSUME IInv, EndedLotsAreSpent, [Next]_vars PROVE EndedLotsAreSpent'
  OBVIOUS
<1>0. TypeOK
  BY DEF IInv
<1>1. ASSUME UNCHANGED lot PROVE EndedLotsAreSpent'
  BY <1>1 DEF EndedLotsAreSpent
<1>2. ASSUME NEW l \in Orders, Consume(l) PROVE EndedLotsAreSpent'
  <2>1. /\ lot[l].status = "ACTIVE" /\ lot[l].used + lot[l].expired < lot[l].alloc /\ lot[l] \in Lots
        /\ lot'[l] = Used(lot[l]) /\ \A o \in Orders \ {l} : lot'[o] = lot[o]
    BY <1>0, <1>2, ConsumeEffects DEF Usable, TypeOK
  <2>2. lot'[l].status # "ACTIVE" => lot'[l].used + lot'[l].expired = lot'[l].alloc
    <3>1. /\ lot'[l].used = lot[l].used + 1 /\ lot'[l].expired = lot[l].expired
          /\ lot'[l].alloc = lot[l].alloc
          /\ lot'[l].status = IF lot[l].used + lot[l].expired + 1 = lot[l].alloc
                              THEN "EXHAUSTED" ELSE lot[l].status
      BY <2>1, UsedLot
    <3>2. lot[l].used \in Nat /\ lot[l].expired \in Nat
      BY <1>0, LotNumbers
    <3> QED
      BY <2>1, <3>1, <3>2
  <2> QED
    BY <2>1, <2>2 DEF EndedLotsAreSpent
<1>3. ASSUME NEW l \in Orders, ExpireDue(l) PROVE EndedLotsAreSpent'
  <2>1. /\ lot'[l].used = lot[l].used /\ lot'[l].alloc = lot[l].alloc
        /\ lot'[l].expired = lot[l].alloc - lot[l].used /\ \A o \in Orders \ {l} : lot'[o] = lot[o]
    BY <1>0, <1>3, ExpireEffects
  <2>2. lot[l].used \in Nat /\ lot[l].alloc \in Nat
    BY <1>0, LotNumbers
  <2> QED
    BY <2>1, <2>2 DEF EndedLotsAreSpent
<1>4. ASSUME NEW c \in Calls, Activate(c) PROVE EndedLotsAreSpent'
  <2>1. PICK o \in Orders, e \in Nat : lot'[o] = NewLot(o, e) /\ \A u \in Orders \ {o} : lot'[u] = lot[u]
    BY <1>0, <1>4, ActivateEffects
  <2>2. /\ lot'[o].alloc = CreditsOf[o] /\ lot'[o].used = Owed(o) /\ lot'[o].expired = 0
        /\ lot'[o].status = IF Owed(o) = CreditsOf[o] THEN "EXHAUSTED" ELSE "ACTIVE"
    BY <2>1, NewLotType
  <2>3. Owed(o) \in Nat
    BY OwedCredits
  <2> QED
    BY <2>1, <2>2, <2>3 DEF EndedLotsAreSpent
<1> QED
  BY <1>1, <1>2, <1>3, <1>4 DEF Next, Verify, Create, AddProof, PrepareAgain, PrepareCharged,
     PrepareDeferred, PrepareThrows, ProviderAnswers, CallEnds, RecordNothing, RecordFailed,
     RecordDuplicate, ServeCustomer, ToggleBusiness, Tick, vars, ledgerVars

\* A wallet counts no more than its lots have left.
LEMMA CreditsAreInLots ==
  ASSUME TypeOK, WalletBalanced, LotsAddUp,
         \A o \in Orders : lot[o].used + lot[o].expired = lot[o].alloc
  PROVE  wallet.available = 0
<1>1. PICK f, g, h : /\ f = [o \in Orders |-> lot[o].alloc] /\ g = [o \in Orders |-> lot[o].used]
                     /\ h = [o \in Orders |-> lot[o].expired]
  OBVIOUS
<1>2. \A o \in Orders : g[o] \in Int /\ h[o] \in Int /\ f[o] = g[o] + h[o]
  BY <1>1, LotNumbers
<1>3. /\ SumFunctionOnSet(f, Orders) = SumFunctionOnSet(g, Orders) + SumFunctionOnSet(h, Orders)
      /\ SumFunctionOnSet(g, Orders) \in Int /\ SumFunctionOnSet(h, Orders) \in Int
  BY <1>2, OrdersFinite, SumOfSums, SumIsNumber
<1>4. DOMAIN f = Orders /\ DOMAIN g = Orders /\ DOMAIN h = Orders
  BY <1>1
<1>5. LotsAllocated = SumFunction(f) /\ LotsUsed = SumFunction(g) /\ LotsExpired = SumFunction(h)
  BY <1>1 DEF LotsAllocated, LotsUsed, LotsExpired
<1>6. LotsAllocated = LotsUsed + LotsExpired
  BY <1>3, <1>4, <1>5 DEF SumFunction
<1>7. wallet.available \in Nat /\ wallet.used \in Nat /\ wallet.expired \in Nat
  BY DEF TypeOK, Wallets
<1> QED
  BY <1>6, <1>7 DEF WalletBalanced, LotsAddUp

\* Where PreparationChargesOrDefers breaks: a preparation throws only while a lot whose period is
\* over holds credits that the wallet still counts (CreditDeferralBalanceError).
THEOREM ThrowsOnLapsedLots ==
  Spec => [][\A c \in Calls : call[c].at # "threw" /\ call'[c].at = "threw"
                              => \E o \in Orders : Lapsed(o)]_vars
<1> DEFINE A == \A c \in Calls : call[c].at # "threw" /\ call'[c].at = "threw"
                                 => \E o \in Orders : Lapsed(o)
<1>1. Init => EndedLotsAreSpent
  BY DEF Init, EndedLotsAreSpent, NoLot
<1>2. IInv /\ EndedLotsAreSpent /\ LotsAddUp /\ [Next]_vars => [A]_vars
  <2> SUFFICES ASSUME IInv, EndedLotsAreSpent, LotsAddUp, Next,
                      NEW c \in Calls, call[c].at # "threw", call'[c].at = "threw"
               PROVE  \E o \in Orders : Lapsed(o)
    BY DEF vars
  <2>1. PICK d \in Calls, o \in Orders : PrepareThrows(d, o)
    <3>1. TypeOK
      BY DEF IInv
    <3>2. ASSUME NEW d \in Calls, NEW k, k.at # "threw", call' = [call EXCEPT ![d] = k] PROVE FALSE
      BY <3>1, <3>2 DEF TypeOK
    <3>3. ASSUME NEW d \in Calls, NEW o \in Orders,
                 PrepareAgain(d, o) \/ PrepareCharged(d, o) \/ PrepareDeferred(d, o)
          PROVE  FALSE
      <4>1. [NoCall EXCEPT !.at = "calling", !.order = o].at # "threw"
        BY DEF NoCall
      <4> QED
        BY <3>2, <3>3, <4>1 DEF PrepareAgain, PrepareCharged, PrepareDeferred, Called
    <3>4. ASSUME NEW d \in Calls, NEW a \in Answers, ProviderAnswers(d, a) PROVE FALSE
      <4>1. call[d] \in CallStates
        BY <3>1 DEF TypeOK
      <4>2. [call[d] EXCEPT !.at = "answered", !.ans = a, !.time = clock].at # "threw"
        BY <4>1 DEF CallStates
      <4>3. call' = [call EXCEPT ![d] = [call[d] EXCEPT !.at = "answered", !.ans = a, !.time = clock]]
        BY <3>4 DEF ProviderAnswers
      <4> QED
        BY <3>2, <4>2, <4>3
    <3>5. ASSUME NEW d \in Calls, call' = Ended(d) PROVE FALSE
      <4>1. NoCall.at # "threw"
        BY DEF NoCall
      <4> QED
        BY <3>2, <3>5, <4>1 DEF Ended
    <3>6. call' # call
      OBVIOUS
    <3> QED
      BY <3>3, <3>4, <3>5, <3>6 DEF Next, Verify, Create, ExpireDue, AddProof, CallEnds, RecordNothing,
         RecordFailed, RecordDuplicate, Activate, ServeCustomer, ToggleBusiness, Tick
  <2>2. wallet.available > 0 /\ \A l \in Orders : ~Usable(l)
    BY <2>1 DEF PrepareThrows
  <2>3. PICK l \in Orders : lot[l].used + lot[l].expired # lot[l].alloc
    BY <2>2, CreditsAreInLots DEF IInv
  <2>4. /\ lot[l].status = "ACTIVE" /\ lot[l].used + lot[l].expired <= lot[l].alloc
        /\ lot[l].used \in Nat /\ lot[l].expired \in Nat /\ lot[l].alloc \in Nat
        /\ lot[l].expiry \in Nat /\ clock \in Nat
    BY <2>3, LotNumbers DEF IInv, EndedLotsAreSpent, TypeOK
  <2>5. Lapsed(l)
    <3>1. lot[l].used + lot[l].expired < lot[l].alloc
      BY <2>3, <2>4
    <3>2. ~(lot[l].expiry > clock)
      BY <2>2, <2>4, <3>1 DEF Usable
    <3> QED
      BY <2>4, <3>1, <3>2 DEF Lapsed
  <2> QED
    BY <2>5
<1> HIDE DEF A
<1>3. Spec => [][A]_vars
  BY <1>1, <1>2, SpentNext, IInvInit, IInvNext, WalletInit, WalletNext, PTL DEF Spec
<1> QED
  BY <1>3 DEF A

-----------------------------------------------------------------------------
(* Refinement.                                                             *)

LEMMA ActivationInit == Init => Activation!Init
BY DEF Init, Activation!Init, FinalStatuses

\* A payment is spent, in the abstract, exactly when another verification of it is VERIFIED.
LEMMA SpentIsReused ==
  ASSUME IInv, NEW o \in Orders
  PROVE  Activation!Spent(o) <=> Reused(o)
BY VerifiedOrder DEF Activation!Spent, Reused, FinalStatuses

\* Concluding an order concludes it in the abstract.
LEMMA ConcludedFail ==
  ASSUME IInv, NEW o \in Orders, Open(o), Concluded(o, "FAILED"), UNCHANGED grants
  PROVE  Activation!Fail(o)
<1>1. order[o] = "VERIFICATION_PENDING" /\ order' = [order EXCEPT ![o] = "FAILED"]
  BY OpenOrder DEF Concluded
<1> DEFINE p == [u \in Orders |-> IF order[u] \in FinalStatuses THEN order[u] ELSE "OPEN"]
           q == [u \in Orders |-> IF order'[u] \in FinalStatuses THEN order'[u] ELSE "OPEN"]
<1>2. p[o] = "OPEN" /\ q = [p EXCEPT ![o] = "FAILED"]
  BY <1>1 DEF IInv, TypeOK, FinalStatuses
<1> QED
  BY <1>2 DEF Activation!Fail

LEMMA ConcludedDuplicate ==
  ASSUME IInv, NEW o \in Orders, Open(o), Reused(o), Concluded(o, "DUPLICATE"), UNCHANGED grants
  PROVE  Activation!Duplicate(o)
<1>1. order[o] = "VERIFICATION_PENDING" /\ order' = [order EXCEPT ![o] = "DUPLICATE"]
  BY OpenOrder DEF Concluded
<1> DEFINE p == [u \in Orders |-> IF order[u] \in FinalStatuses THEN order[u] ELSE "OPEN"]
           q == [u \in Orders |-> IF order'[u] \in FinalStatuses THEN order'[u] ELSE "OPEN"]
<1>2. p[o] = "OPEN" /\ q = [p EXCEPT ![o] = "DUPLICATE"]
  BY <1>1 DEF IInv, TypeOK, FinalStatuses
<1>3. Activation!Spent(o)
  BY SpentIsReused
<1> QED
  BY <1>2, <1>3 DEF Activation!Duplicate

LEMMA ConcludedVerified ==
  ASSUME IInv, NEW o \in Orders, Open(o), ~Reused(o), Concluded(o, "VERIFIED"),
         grants' = [grants EXCEPT ![o] = @ + 1]
  PROVE  Activation!Verify(o)
<1>1. order[o] = "VERIFICATION_PENDING" /\ order' = [order EXCEPT ![o] = "VERIFIED"]
  BY OpenOrder DEF Concluded
<1> DEFINE p == [u \in Orders |-> IF order[u] \in FinalStatuses THEN order[u] ELSE "OPEN"]
           q == [u \in Orders |-> IF order'[u] \in FinalStatuses THEN order'[u] ELSE "OPEN"]
<1>2. p[o] = "OPEN" /\ q = [p EXCEPT ![o] = "VERIFIED"]
  BY <1>1 DEF IInv, TypeOK, FinalStatuses
<1>3. ~Activation!Spent(o)
  BY SpentIsReused
<1> QED
  BY <1>2, <1>3 DEF Activation!Verify

LEMMA ActivationNext == IInv /\ [Next]_vars => [Activation!Next]_(Activation!vars)
<1> SUFFICES ASSUME IInv, [Next]_vars PROVE [Activation!Next]_(Activation!vars)
  OBVIOUS
<1>1. ASSUME UNCHANGED <<order, grants>> PROVE UNCHANGED Activation!vars
  BY <1>1 DEF Activation!vars
<1>2. ASSUME NEW o \in Orders, NEW s \in {"ORDER_CREATED", "PROOF_RECEIVED"},
             order[o] \in {"NEW", "ORDER_CREATED"}, order' = [order EXCEPT ![o] = s],
             UNCHANGED grants
      PROVE  UNCHANGED Activation!vars
  <2>1. \A u \in Orders :
          (IF order'[u] \in FinalStatuses THEN order'[u] ELSE "OPEN")
            = (IF order[u] \in FinalStatuses THEN order[u] ELSE "OPEN")
    BY <1>2 DEF IInv, TypeOK, FinalStatuses
  <2> QED
    BY <1>2, <2>1 DEF Activation!vars
<1>3. ASSUME NEW c \in Calls, NEW o \in Orders, NEW d \in {"CHARGED", "DEFERRED"}, Preparable(o),
             order' = [order EXCEPT ![o] = "VERIFICATION_PENDING"], UNCHANGED grants
      PROVE  UNCHANGED Activation!vars
  <2>1. \A u \in Orders :
          (IF order'[u] \in FinalStatuses THEN order'[u] ELSE "OPEN")
            = (IF order[u] \in FinalStatuses THEN order[u] ELSE "OPEN")
    BY <1>3 DEF IInv, TypeOK, FinalStatuses, Preparable
  <2> QED
    BY <1>3, <2>1 DEF Activation!vars
<1>4. ASSUME NEW c \in Calls, RecordFailed(c) PROVE Activation!Next
  <2>1. PICK o \in Orders : o = call[c].order
    BY <1>4 DEF RecordFailed, Open, IInv, TypeOK
  <2>2. Open(o) /\ Concluded(o, "FAILED") /\ UNCHANGED grants
    BY <1>4, <2>1 DEF RecordFailed
  <2> QED
    BY <2>2, ConcludedFail DEF Activation!Next
<1>5. ASSUME NEW c \in Calls, RecordDuplicate(c) PROVE Activation!Next
  <2>1. PICK o \in Orders : o = call[c].order
    BY <1>5 DEF RecordDuplicate, Open, IInv, TypeOK
  <2>2. Open(o) /\ Reused(o) /\ Concluded(o, "DUPLICATE") /\ UNCHANGED grants
    BY <1>5, <2>1 DEF RecordDuplicate
  <2> QED
    BY <2>2, ConcludedDuplicate DEF Activation!Next
<1>6. ASSUME NEW c \in Calls, Activate(c) PROVE Activation!Next
  <2>1. PICK o \in Orders : o = call[c].order
    BY <1>6, ActivateEffects DEF IInv
  <2>2. /\ Open(o) /\ ~Reused(o) /\ Concluded(o, "VERIFIED")
        /\ grants' = [grants EXCEPT ![o] = @ + 1]
    BY <1>6, <2>1, ActivateEffects DEF IInv, Activate
  <2> QED
    BY <2>2, ConcludedVerified DEF Activation!Next
<1>7. ASSUME UNCHANGED vars PROVE UNCHANGED Activation!vars
  BY <1>1, <1>7 DEF vars, ledgerVars
<1>8. ASSUME NEW o \in Orders, Create(o) \/ ExpireDue(o) \/ (\E p \in {"usable", "unusable"} : AddProof(o, p))
      PROVE  UNCHANGED Activation!vars
  BY <1>1, <1>2, <1>8 DEF Create, ExpireDue, AddProof
<1>9. ASSUME NEW c \in Calls, Verify(c) PROVE Activation!Next \/ UNCHANGED Activation!vars
  BY <1>1, <1>3, <1>4, <1>5, <1>6, <1>9
     DEF Verify, PrepareAgain, PrepareCharged, PrepareDeferred, PrepareThrows, ProviderAnswers, CallEnds,
         RecordNothing, ledgerVars
<1>10. CASE ServeCustomer \/ ToggleBusiness \/ Tick
  BY <1>1, <1>10 DEF ServeCustomer, ToggleBusiness, Tick, ledgerVars
<1> QED
  BY <1>7, <1>8, <1>9, <1>10 DEF Next

\* Purchase, verification and activation of orders implement PaymentConfirmation.
THEOREM CreditsActivation == Spec => ActivationSpec
<1>1. Init => Activation!Init
  BY ActivationInit
<1>2. IInv /\ [Next]_vars => [Activation!Next]_(Activation!vars)
  BY ActivationNext
<1>3. Spec => Activation!Spec
  BY <1>1, <1>2, CreditsInvariant, PTL DEF Spec, Activation!Spec
<1> QED
  BY <1>3 DEF ActivationSpec
=============================================================================
