---------------------------- MODULE PurchaseLock ----------------------------
(***************************************************************************)
(* One business, whose subscription payments are checked for reuse.  A     *)
(* payment shown again on a later day is a qualifying attempt: it is       *)
(* counted under an advisory lock, and from the threshold on it locks new  *)
(* purchases.  The platform issues a recovery code to an owner, who        *)
(* redeems it before it expires.  Attempts serialise with each other, and  *)
(* not with codes: an attempt reads the lock in one statement and commits  *)
(* later, with issues, revocations and redemptions between.                *)
(***************************************************************************)
EXTENDS Integers, FiniteSets

CONSTANTS
  Attempts,    \* verifications of a payment that was redeemed on an earlier day
  Codes,       \* recovery codes, one per request key
  Owners,      \* users with an active owner role; nothing in the code ends one
  Unset,        \* SQL NULL
  Threshold,   \* qualifying_attempt_threshold
  Window,      \* window_days, in ticks
  CodeLife,    \* expiresInMinutes, in ticks
  MaxClock     \* bound: ticks

ASSUME AttemptsAssumption == IsFiniteSet(Attempts)
ASSUME RuleAssumption == Threshold \in Nat \ {0} /\ Window \in Nat \ {0} /\ CodeLife \in Nat \ {0}
ASSUME BoundAssumption == MaxClock \in Nat
ASSUME UnsetAssumption == Unset \notin Attempts /\ Unset \notin Owners

VARIABLES
  attempt,   \* subscription_fraud_attempts: at, detected_at, the number and the lock it read
  counting,  \* holder of the business's advisory lock
  flag,      \* fraud_flags CROSS_DAY_DUPLICATE of the attempt
  alert,     \* security_alerts of the attempt
  lock,      \* subscription_purchase_locks, by the attempt that made it
  lockFlag,  \* fraud_flags THREE_DUPLICATES of the lock
  code,      \* recovery_codes
  clock      \* now()

fraudVars == <<attempt, counting, flag, alert, lock, lockFlag>>
vars      == <<fraudVars, code, clock>>

FlagStatuses == {"none", "OPEN", "CLEARED"}
LockStatuses == {"none", "ACTIVE", "RECOVERY_ISSUED", "UNLOCKED"}
NoAttempt    == [at |-> "none", time |-> 0, number |-> 0, saw |-> FALSE]
NoCode       == [status |-> "none", lock |-> Unset, user |-> Unset, expiry |-> 0]

Init ==
  /\ attempt  = [a \in Attempts |-> NoAttempt]
  /\ counting = Unset
  /\ flag     = [a \in Attempts |-> "none"]
  /\ alert    = [a \in Attempts |-> "none"]
  /\ lock     = [a \in Attempts |-> "none"]
  /\ lockFlag = [a \in Attempts |-> "none"]
  /\ code     = [c \in Codes |-> NoCode]
  /\ clock    = 0

-----------------------------------------------------------------------------
(* SubscriptionFraudDao.recordCrossDayReuseWithin.                         *)

\* The lock that stops new purchases, as activeLock and createWithin look for it.
Locked(l) == lock[l] \in {"ACTIVE", "RECOVERY_ISSUED"}
\* Mutant: a lock with a code on its way no longer counts.
ActiveLockOnly == \E l \in Attempts : lock[l] = "ACTIVE"

ActiveLock == \E l \in Attempts : Locked(l)

Recorded == {a \in Attempts : attempt[a].at = "recorded"}

\* Attempts of the last window_days.
Counted == {a \in Recorded : attempt[a].time >= clock - Window}

\* Mutant: attempts are not serialised.
CountsAlone == TRUE

\* pg_advisory_xact_lock of the business.
MayCount == counting = Unset

AttemptNumber == Cardinality(Counted) + 1

\* The attempt is counted and looks for a lock; nobody sees its rows yet.  now() is the start
\* of its transaction, which the model takes to be here.
Count(a) ==
  /\ attempt[a].at = "none" /\ MayCount
  /\ counting' = a
  /\ attempt'  = [attempt EXCEPT ![a] = [at |-> "counted", time |-> clock,
                                         number |-> AttemptNumber,
                                         saw |-> ActiveLock]]
  /\ UNCHANGED <<flag, alert, lock, lockFlag, code, clock>>

\* The outcome's transaction commits: flag, evidence, alert, and the lock at the threshold.
Record(a) ==
  /\ attempt[a].at = "counted"
  /\ LET reached == attempt[a].number >= Threshold
         locks   == reached /\ ~attempt[a].saw IN
     /\ locks => ~ActiveLock                       \* uq_active_subscription_purchase_lock
     /\ flag'     = [flag EXCEPT ![a] = "OPEN"]
     /\ alert'    = [alert EXCEPT ![a] = IF reached THEN "CRITICAL" ELSE "HIGH"]
     /\ lock'     = [lock EXCEPT ![a] = IF locks THEN "ACTIVE" ELSE @]
     /\ lockFlag' = [lockFlag EXCEPT ![a] = IF locks THEN "OPEN" ELSE @]
  /\ attempt'  = [attempt EXCEPT ![a] = [@ EXCEPT !.at = "recorded"]]
  /\ counting' = Unset
  /\ UNCHANGED <<code, clock>>

\* It aborts: on the unique index, a deadlock or with its process.
RollBack(a) ==
  /\ attempt[a].at = "counted"
  /\ attempt'  = [attempt EXCEPT ![a] = NoAttempt]
  /\ counting' = Unset
  /\ UNCHANGED <<flag, alert, lock, lockFlag, code, clock>>

-----------------------------------------------------------------------------
(* RecoveryAuthorizationDao.                                               *)

Expired(c) == code[c].expiry <= clock
CodesOf(l) == {c \in Codes : code[c].status = "ACTIVE" /\ code[c].lock = l}

\* The flags after an issue: only their note changes.
Reviewed == flag

\* An open review, and an ACTIVE lock without a live code.
Issuable(a, l) ==
  /\ flag[a] = "OPEN" /\ lock[l] = "ACTIVE"
  /\ \A c \in CodesOf(l) : Expired(c)

\* issueWithin: expired codes of the lock are revoked, all alerts are acknowledged.
Issue(c, a, l, u) ==
  /\ code[c].status = "none" /\ Issuable(a, l)
  /\ code'  = [d \in Codes |->
                 IF d = c THEN [status |-> "ACTIVE", lock |-> l, user |-> u,
                                expiry |-> clock + CodeLife]
                 ELSE IF d \in CodesOf(l) THEN [code[d] EXCEPT !.status = "REVOKED"]
                 ELSE code[d]]
  /\ lock'  = [lock EXCEPT ![l] = "RECOVERY_ISSUED"]
  /\ flag'  = Reviewed
  /\ alert' = [b \in Attempts |-> IF alert[b] = "none" THEN "none" ELSE "ACKNOWLEDGED"]
  /\ UNCHANGED <<attempt, counting, lockFlag, clock>>

\* Mutant: a revoked code leaves its lock as it is.
RevokedLock(l) == lock

\* The lock waits for another code.
ReopenedLock(l) == [lock EXCEPT ![l] = IF @ = "RECOVERY_ISSUED" THEN "ACTIVE" ELSE @]

\* revokeWithin: any review of the business, open or closed, names the code.
Revoke(c, a) ==
  /\ flag[a] # "none" /\ code[c].status = "ACTIVE"
  /\ code' = [code EXCEPT ![c] = [@ EXCEPT !.status = "REVOKED"]]
  /\ lock' = ReopenedLock(code[c].lock)
  /\ UNCHANGED <<attempt, counting, flag, alert, lockFlag, clock>>

\* Mutant: an expired code is accepted until it is revoked.
RedeemableUntilRevoked(c) ==
  /\ code[c].status = "ACTIVE"
  /\ \E l \in Attempts : code[c].lock = l /\ lock[l] = "RECOVERY_ISSUED"

Redeemable(c) ==
  /\ code[c].status = "ACTIVE" /\ ~Expired(c)
  /\ \E l \in Attempts : code[c].lock = l /\ lock[l] = "RECOVERY_ISSUED"

Cleared(f) == [a \in Attempts |-> IF f[a] = "OPEN" THEN "CLEARED" ELSE f[a]]

\* redeemWithin, called by the owner the code was sent to: purchases are unlocked, and every
\* committed open flag of the business is cleared.
Redeem(c) ==
  /\ Redeemable(c)
  /\ code'     = [code EXCEPT ![c] = [@ EXCEPT !.status = "USED"]]
  /\ lock'     = [lock EXCEPT ![code[c].lock] = "UNLOCKED"]
  /\ flag'     = Cleared(flag)
  /\ lockFlag' = Cleared(lockFlag)
  /\ UNCHANGED <<attempt, counting, alert, clock>>

-----------------------------------------------------------------------------
Tick ==
  /\ clock < MaxClock
  /\ clock' = clock + 1
  /\ UNCHANGED <<fraudVars, code>>

Next ==
  \/ \E a \in Attempts : Count(a) \/ Record(a) \/ RollBack(a)
  \/ \E c \in Codes : \/ \E a, l \in Attempts, u \in Owners : Issue(c, a, l, u)
                      \/ \E a \in Attempts : Revoke(c, a)
                      \/ Redeem(c)
  \/ Tick

Spec == Init /\ [][Next]_vars

-----------------------------------------------------------------------------
(* Properties.                                                             *)

\* Every table holds values of its columns' domains, and attempts are numbered from one, as
\* the CHECK of qualifying_attempt_number wants.
TypeOK ==
  /\ attempt \in [Attempts -> [at : {"none", "counted", "recorded"}, time : Nat,
                               number : Nat, saw : BOOLEAN]]
  /\ \A a \in Attempts : attempt[a].at # "none" => attempt[a].number > 0
  /\ counting \in Attempts \cup {Unset}
  /\ flag \in [Attempts -> FlagStatuses]
  /\ alert \in [Attempts -> {"none", "HIGH", "CRITICAL", "ACKNOWLEDGED"}]
  /\ lock \in [Attempts -> LockStatuses]
  /\ lockFlag \in [Attempts -> FlagStatuses]
  /\ code \in [Codes -> [status : {"none", "ACTIVE", "USED", "REVOKED"},
                         lock : Attempts \cup {Unset}, user : Owners \cup {Unset}, expiry : Nat]]
  /\ clock \in Nat

\* However attempts, reviews and redemptions interleave, a business has one lock in force:
\* the attempt that looked for one and found none never meets another when it commits.
OneLock ==
  /\ \A k, l \in Attempts : Locked(k) /\ Locked(l) => k = l
  /\ \A a \in Attempts :
       attempt[a].at = "counted" /\ ~attempt[a].saw => \A l \in Attempts : ~Locked(l)

\* A lock waits for a redemption exactly while one code of it is out, and its own flag is
\* open exactly while it is in force.
CodesMatchLocks ==
  \A l \in Attempts :
    /\ lock[l] = "RECOVERY_ISSUED" <=> CodesOf(l) # {}
    /\ \A c, d \in CodesOf(l) : c = d
    /\ Locked(l) <=> lockFlag[l] = "OPEN"
    /\ lock[l] = "UNLOCKED" <=> lockFlag[l] = "CLEARED"

\* A lock in force can always be reviewed: an attempt's flag is still open, so that the
\* platform has a review to issue a code from.
LockIsReviewable == (\E l \in Attempts : Locked(l)) => \E a \in Attempts : flag[a] = "OPEN"

\* Concurrent attempts do not slip past the count: as soon as Threshold of them lie in one
\* window, some attempt has locked purchases.
ThresholdLocks ==
  \A A \in SUBSET Recorded :
    /\ Cardinality(A) = Threshold
    /\ \A a, b \in A : attempt[a].time - attempt[b].time <= Window
    => \E l \in Attempts : lock[l] # "none"

\* Purchases are unlocked by a live code of their lock and by nothing else, and an unlocked
\* lock, like a used or revoked code, stays what it is.
UnlockedByRedemption ==
  [][/\ \A l \in Attempts :
          /\ Locked(l) /\ ~Locked(l)' =>
               \E c \in CodesOf(l) : code[c].expiry > clock /\ code'[c].status = "USED"
          /\ lock[l] = "UNLOCKED" => lock'[l] = "UNLOCKED"
     /\ \A c \in Codes : code[c].status \in {"USED", "REVOKED"} => code'[c] = code[c]]_vars
=============================================================================
