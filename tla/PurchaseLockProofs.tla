------------------------- MODULE PurchaseLockProofs -------------------------
(***************************************************************************)
(* What TLAPS proves of PurchaseLock for every number of attempts, codes   *)
(* and owners, every threshold, window and life of a code.                 *)
(***************************************************************************)
EXTENDS PurchaseLock, FiniteSetTheorems, TLAPS

-----------------------------------------------------------------------------
(* The inductive invariant.                                                *)

\* The advisory lock has one holder, and rows appear when its transaction commits.
Serial ==
  /\ \A a \in Attempts : attempt[a].at = "counted" <=> counting = a
  /\ \A a \in Attempts : flag[a] # "none" <=> attempt[a].at = "recorded"
  /\ \A l \in Attempts : lock[l] # "none" => attempt[l].at = "recorded"

\* A live code belongs to a lock and a user.
CodesHaveLocks ==
  \A c \in Codes : code[c].status = "ACTIVE" => code[c].lock \in Attempts /\ code[c].user \in Owners

Started == {a \in Attempts : attempt[a].at # "none"}
InOneWindow(A) == \A a, b \in A : attempt[a].time - attempt[b].time <= Window

\* Of attempts in one window, the one counted last has counted all the others.
Numbered ==
  \A A \in SUBSET Started :
    A # {} /\ InOneWindow(A) => \E a \in A : attempt[a].number >= Cardinality(A)

\* An attempt at the threshold has seen a lock or made one.
ReachedLocks ==
  \A a \in Attempts :
    \/ attempt[a].at = "counted" /\ attempt[a].saw
    \/ attempt[a].at = "recorded" /\ attempt[a].number >= Threshold
    => \E l \in Attempts : lock[l] # "none"

LockInv == Serial /\ CodesHaveLocks /\ OneLock /\ CodesMatchLocks /\ LockIsReviewable
CountInv == Numbered /\ ReachedLocks

-----------------------------------------------------------------------------
(* Type correctness.                                                       *)

LEMMA AttemptNumberIsPositive == AttemptNumber \in Nat /\ AttemptNumber > 0
<1>1. IsFiniteSet(Counted)
  BY AttemptsAssumption, FS_Subset DEF Counted, Recorded
<1>2. Cardinality(Counted) \in Nat
  BY <1>1, FS_CardinalityType
<1> QED
  BY <1>2 DEF AttemptNumber

LEMMA TypeInit == Init => TypeOK
BY BoundAssumption, UnsetAssumption
   DEF Init, TypeOK, NoAttempt, NoCode, FlagStatuses, LockStatuses

CodeRows == [status : {"none", "ACTIVE", "USED", "REVOKED"}, lock : Attempts \cup {Unset},
             user : Owners \cup {Unset}, expiry : Nat]

\* A code that takes a status stays a row, and so does the table it is in.
LEMMA CodeChanges ==
  ASSUME code \in [Codes -> CodeRows], NEW c \in Codes,
         NEW st \in {"none", "ACTIVE", "USED", "REVOKED"},
         code' = [code EXCEPT ![c] = [@ EXCEPT !.status = st]]
  PROVE  code' \in [Codes -> CodeRows]
<1>1. [code[c] EXCEPT !.status = st] \in CodeRows
  BY DEF CodeRows
<1> QED
  BY <1>1

LEMMA TypeStep == TypeOK /\ [Next]_vars => TypeOK'
<1> SUFFICES ASSUME TypeOK, [Next]_vars PROVE TypeOK'
  OBVIOUS
<1> USE BoundAssumption, UnsetAssumption, RuleAssumption DEF TypeOK, FlagStatuses, LockStatuses
<1>1. ASSUME NEW a \in Attempts, Count(a) PROVE TypeOK'
  <2> DEFINE new == [at |-> "counted", time |-> clock, number |-> AttemptNumber, saw |-> ActiveLock]
  <2>1. ActiveLock \in BOOLEAN
    BY DEF ActiveLock
  <2>2. new \in [at : {"none", "counted", "recorded"}, time : Nat, number : Nat, saw : BOOLEAN]
    BY <2>1, AttemptNumberIsPositive
  <2>3. new.number > 0
    BY AttemptNumberIsPositive
  <2>4. attempt' = [attempt EXCEPT ![a] = new]
    BY <1>1 DEF Count
  <2> HIDE DEF new
  <2> QED
    BY <1>1, <2>2, <2>3, <2>4 DEF Count
<1>2. ASSUME NEW a \in Attempts, Record(a) PROVE TypeOK'
  BY <1>2 DEF Record
<1>3. ASSUME NEW a \in Attempts, RollBack(a) PROVE TypeOK'
  BY <1>3 DEF RollBack, NoAttempt
<1>4. ASSUME NEW c \in Codes, NEW a \in Attempts, NEW l \in Attempts, NEW u \in Owners, Issue(c, a, l, u)
      PROVE TypeOK'
  <2>1. clock + CodeLife \in Nat /\ l \in Attempts \cup {Unset} /\ u \in Owners \cup {Unset}
    OBVIOUS
  <2>2. ASSUME NEW d \in Codes
        PROVE code'[d] \in [status : {"none", "ACTIVE", "USED", "REVOKED"},
                            lock : Attempts \cup {Unset}, user : Owners \cup {Unset}, expiry : Nat]
    <3>1. CASE d = c
      BY <1>4, <2>1, <3>1 DEF Issue
    <3>2. CASE d # c /\ d \in CodesOf(l)
      <4>1. code'[d] = [code[d] EXCEPT !.status = "REVOKED"]
        BY <1>4, <3>2 DEF Issue
      <4> QED
        BY <4>1
    <3>3. CASE d # c /\ d \notin CodesOf(l)
      <4>1. code'[d] = code[d]
        BY <1>4, <3>3 DEF Issue
      <4> QED
        BY <4>1
    <3> QED
      BY <3>1, <3>2, <3>3
  <2>3. code' \in [Codes -> [status : {"none", "ACTIVE", "USED", "REVOKED"},
                  lock : Attempts \cup {Unset}, user : Owners \cup {Unset}, expiry : Nat]]
    BY <1>4, <2>2 DEF Issue
  <2>4. UNCHANGED <<attempt, counting, lockFlag, clock>> /\ flag' = flag
    BY <1>4 DEF Issue, Reviewed
  <2>5. lock' \in [Attempts -> LockStatuses]
    BY <1>4 DEF Issue
  <2>6. alert' \in [Attempts -> {"none", "HIGH", "CRITICAL", "ACKNOWLEDGED"}]
    BY <1>4 DEF Issue
  <2> QED
    BY <2>3, <2>4, <2>5, <2>6
<1>5. ASSUME NEW c \in Codes, NEW a \in Attempts, Revoke(c, a) PROVE TypeOK'
  <2>1. code' \in [Codes -> CodeRows]
    <3>1. code \in [Codes -> CodeRows]
      BY DEF CodeRows
    <3> QED
      BY <1>5, <3>1, CodeChanges DEF Revoke
  <2>2. lock' \in [Attempts -> LockStatuses]
    BY <1>5 DEF Revoke, ReopenedLock
  <2> QED
    BY <1>5, <2>1, <2>2 DEF Revoke, CodeRows
<1>6. ASSUME NEW c \in Codes, Redeem(c) PROVE TypeOK'
  <2>1. code' \in [Codes -> CodeRows]
    <3>1. code \in [Codes -> CodeRows]
      BY DEF CodeRows
    <3> QED
      BY <1>6, <3>1, CodeChanges DEF Redeem
  <2>2. flag' \in [Attempts -> FlagStatuses] /\ lockFlag' \in [Attempts -> FlagStatuses]
    BY <1>6 DEF Redeem, Cleared
  <2>3. lock' \in [Attempts -> LockStatuses]
    BY <1>6 DEF Redeem
  <2> QED
    BY <1>6, <2>1, <2>2, <2>3 DEF Redeem, CodeRows
<1>7. ASSUME Tick PROVE TypeOK'
  BY <1>7 DEF Tick, fraudVars
<1>8. ASSUME UNCHANGED vars PROVE TypeOK'
  BY <1>8 DEF vars, fraudVars
<1> QED
  BY <1>1, <1>2, <1>3, <1>4, <1>5, <1>6, <1>7, <1>8 DEF Next

-----------------------------------------------------------------------------
(* Locks and codes.                                                        *)

LEMMA LockInit == Init => LockInv
BY UnsetAssumption
   DEF Init, LockInv, Serial, CodesHaveLocks, OneLock, CodesMatchLocks, CodesOf, LockIsReviewable,
       Locked, NoAttempt, NoCode

\* An attempt only reads the locks it counts under.
LEMMA CountKeepsLocks ==
  ASSUME TypeOK, LockInv, NEW x \in Attempts, Count(x)
  PROVE  LockInv'
<1> DEFINE new == [at |-> "counted", time |-> clock, number |-> AttemptNumber, saw |-> ActiveLock]
<1>1. attempt' = [attempt EXCEPT ![x] = new]
  BY DEF Count
<1>2. new.at = "counted" /\ new.saw = ActiveLock
  OBVIOUS
<1> HIDE DEF new
<1>3. Serial' /\ CodesHaveLocks'
  BY <1>1, <1>2, UnsetAssumption DEF Count, MayCount, TypeOK, LockInv, Serial, CodesHaveLocks
<1>4. OneLock'
  BY <1>1, <1>2 DEF Count, TypeOK, LockInv, OneLock, Locked, ActiveLock
<1>5. CodesMatchLocks' /\ LockIsReviewable'
  BY DEF Count, LockInv, CodesMatchLocks, CodesOf, LockIsReviewable, Locked
<1> QED
  BY <1>3, <1>4, <1>5 DEF LockInv

\* The attempt that makes a lock found none, and still finds none.
LEMMA RecordKeepsLocks ==
  ASSUME TypeOK, LockInv, NEW x \in Attempts, Record(x)
  PROVE  LockInv'
<1>1. lock[x] = "none" /\ flag[x] = "none" /\ counting = x
  BY DEF Record, TypeOK, LockInv, Serial
<1>2. Serial' /\ CodesHaveLocks'
  BY <1>1, UnsetAssumption DEF Record, TypeOK, LockInv, Serial, CodesHaveLocks
<1>3. OneLock'
  BY <1>1 DEF Record, TypeOK, LockInv, Serial, OneLock, Locked, ActiveLock
<1>4. CodesMatchLocks'
  BY <1>1 DEF Record, TypeOK, LockInv, CodesMatchLocks, CodesOf, Locked
<1>5. LockIsReviewable'
  BY <1>1 DEF Record, TypeOK, LockInv, LockIsReviewable, Locked
<1> QED
  BY <1>2, <1>3, <1>4, <1>5 DEF LockInv

LEMMA RollBackKeepsLocks ==
  ASSUME TypeOK, LockInv, NEW x \in Attempts, RollBack(x)
  PROVE  LockInv'
<1>1. Serial' /\ CodesHaveLocks'
  BY UnsetAssumption DEF RollBack, NoAttempt, TypeOK, LockInv, Serial, CodesHaveLocks
<1>2. OneLock'
  BY DEF RollBack, NoAttempt, TypeOK, LockInv, OneLock, Locked
<1>3. CodesMatchLocks' /\ LockIsReviewable'
  BY DEF RollBack, LockInv, CodesMatchLocks, CodesOf, LockIsReviewable, Locked
<1> QED
  BY <1>1, <1>2, <1>3 DEF LockInv

LEMMA IssueKeepsLocks ==
  ASSUME TypeOK, LockInv, NEW c \in Codes, NEW a \in Attempts, NEW m \in Attempts, NEW u \in Owners,
         Issue(c, a, m, u)
  PROVE  LockInv'
<1>1. lock[m] = "ACTIVE" /\ CodesOf(m) = {}
  BY DEF Issue, Issuable, LockInv, CodesMatchLocks
<1>2. code'[c].status = "ACTIVE" /\ code'[c].lock = m /\ code'[c].user = u
  BY DEF Issue
<1>3. \A d \in Codes \ {c} : code'[d] = code[d]
  BY <1>1 DEF Issue
<1>4. code[c].status = "none" /\ lock' = [lock EXCEPT ![m] = "RECOVERY_ISSUED"]
  BY DEF Issue
<1>5. UNCHANGED <<attempt, counting, flag, lockFlag>>
  BY DEF Issue, Reviewed
<1>6. CodesOf(m)' = {c} /\ \A l \in Attempts \ {m} : CodesOf(l)' = CodesOf(l)
  BY <1>1, <1>2, <1>3, <1>4 DEF CodesOf
<1>7. \A l \in Attempts : Locked(l)' <=> Locked(l)
  BY <1>1, <1>4 DEF Locked, TypeOK
<1>8. Serial' /\ CodesHaveLocks'
  BY <1>1, <1>2, <1>3, <1>4, <1>5 DEF TypeOK, LockInv, Serial, CodesHaveLocks
<1>9. OneLock' /\ LockIsReviewable'
  BY <1>5, <1>7 DEF LockInv, OneLock, LockIsReviewable
<1>10. CodesMatchLocks'
  <2> SUFFICES ASSUME NEW l \in Attempts
               PROVE /\ lock'[l] = "RECOVERY_ISSUED" <=> CodesOf(l)' # {}
                     /\ \A k, d \in CodesOf(l)' : k = d
                     /\ Locked(l)' <=> lockFlag'[l] = "OPEN"
                     /\ lock'[l] = "UNLOCKED" <=> lockFlag'[l] = "CLEARED"
    BY DEF CodesMatchLocks
  <2>1. CASE l = m
    BY <1>1, <1>4, <1>5, <1>6, <1>7, <2>1 DEF TypeOK, LockInv, CodesMatchLocks
  <2>2. CASE l # m
    BY <1>4, <1>5, <1>6, <1>7, <2>2 DEF TypeOK, LockInv, CodesMatchLocks
  <2> QED
    BY <2>1, <2>2
<1> QED
  BY <1>8, <1>9, <1>10 DEF LockInv

LEMMA RevokeKeepsLocks ==
  ASSUME TypeOK, LockInv, NEW c \in Codes, NEW a \in Attempts, Revoke(c, a)
  PROVE  LockInv'
<1>0. PICK m \in Attempts : m = code[c].lock
  BY DEF Revoke, LockInv, CodesHaveLocks
<1>1. c \in CodesOf(m) /\ lock[m] = "RECOVERY_ISSUED"
  BY <1>0 DEF Revoke, LockInv, CodesMatchLocks, CodesOf
<1>2. CodesOf(m) = {c}
  BY <1>1 DEF LockInv, CodesMatchLocks
<1>3. code'[c].status = "REVOKED" /\ \A d \in Codes \ {c} : code'[d] = code[d]
  BY DEF Revoke, TypeOK
<1>4. lock' = [lock EXCEPT ![m] = "ACTIVE"]
  BY <1>0, <1>1 DEF Revoke, ReopenedLock, TypeOK
<1>5. UNCHANGED <<attempt, counting, flag, lockFlag>>
  BY DEF Revoke
<1>6. CodesOf(m)' = {} /\ \A l \in Attempts \ {m} : CodesOf(l)' = CodesOf(l)
  BY <1>2, <1>3 DEF CodesOf
<1>7. \A l \in Attempts : Locked(l)' <=> Locked(l)
  BY <1>1, <1>4 DEF Locked, TypeOK
<1>8. Serial' /\ CodesHaveLocks'
  BY <1>1, <1>3, <1>4, <1>5 DEF TypeOK, LockInv, Serial, CodesHaveLocks
<1>9. OneLock' /\ LockIsReviewable'
  BY <1>5, <1>7 DEF LockInv, OneLock, LockIsReviewable
<1>10. CodesMatchLocks'
  BY <1>1, <1>4, <1>5, <1>6, <1>7 DEF TypeOK, LockInv, CodesMatchLocks
<1> QED
  BY <1>8, <1>9, <1>10 DEF LockInv

\* The lock that is redeemed was the only one, so no lock misses the flags it clears.
LEMMA RedeemKeepsLocks ==
  ASSUME TypeOK, LockInv, NEW c \in Codes, Redeem(c)
  PROVE  LockInv'
<1>0. PICK m \in Attempts : m = code[c].lock
  BY DEF Redeem, Redeemable
<1>1. c \in CodesOf(m) /\ lock[m] = "RECOVERY_ISSUED"
  BY <1>0 DEF Redeem, Redeemable, CodesOf
<1>2. CodesOf(m) = {c} /\ \A l \in Attempts \ {m} : ~Locked(l)
  BY <1>1 DEF LockInv, CodesMatchLocks, OneLock, Locked
<1>3. code'[c].status = "USED" /\ \A d \in Codes \ {c} : code'[d] = code[d]
  BY DEF Redeem, TypeOK
<1>4. lock' = [lock EXCEPT ![m] = "UNLOCKED"] /\ flag' = Cleared(flag) /\ lockFlag' = Cleared(lockFlag)
  BY <1>0 DEF Redeem
<1>5. UNCHANGED <<attempt, counting>>
  BY DEF Redeem
<1>6. CodesOf(m)' = {} /\ \A l \in Attempts \ {m} : CodesOf(l)' = CodesOf(l)
  BY <1>2, <1>3 DEF CodesOf
<1>7. \A l \in Attempts : ~Locked(l)'
  BY <1>1, <1>2, <1>4 DEF Locked, TypeOK
<1>8. Serial' /\ CodesHaveLocks'
  BY <1>1, <1>3, <1>4, <1>5 DEF TypeOK, LockInv, Serial, CodesHaveLocks, Cleared
<1>9. OneLock' /\ LockIsReviewable'
  BY <1>7 DEF OneLock, LockIsReviewable
<1>10. CodesMatchLocks'
  <2>1. \A l \in Attempts : lockFlag'[l] = IF lockFlag[l] = "OPEN" THEN "CLEARED" ELSE lockFlag[l]
    BY <1>4 DEF Cleared
  <2>2. lock[m] = "RECOVERY_ISSUED" /\ lockFlag[m] = "OPEN" /\ \A l \in Attempts \ {m} : lockFlag[l] # "OPEN"
    BY <1>1, <1>2 DEF LockInv, CodesMatchLocks, Locked
  <2>3. \A l \in Attempts : CodesOf(l)' = {}
    BY <1>2, <1>6 DEF LockInv, CodesMatchLocks, Locked
  <2> QED
    BY <1>1, <1>4, <1>7, <2>1, <2>2, <2>3 DEF TypeOK, LockInv, CodesMatchLocks, Locked
<1> QED
  BY <1>8, <1>9, <1>10 DEF LockInv

LEMMA LockStep == TypeOK /\ LockInv /\ [Next]_vars => LockInv'
<1> SUFFICES ASSUME TypeOK, LockInv, [Next]_vars PROVE LockInv'
  OBVIOUS
<1>1. ASSUME UNCHANGED <<fraudVars, code>> PROVE LockInv'
  BY <1>1 DEF fraudVars, LockInv, Serial, CodesHaveLocks, OneLock, CodesMatchLocks, CodesOf,
              LockIsReviewable, Locked
<1>2. Tick \/ UNCHANGED vars => UNCHANGED <<fraudVars, code>>
  BY DEF Tick, vars
<1> QED
  BY <1>1, <1>2, CountKeepsLocks, RecordKeepsLocks, RollBackKeepsLocks, IssueKeepsLocks,
     RevokeKeepsLocks, RedeemKeepsLocks DEF Next

-----------------------------------------------------------------------------
(* The threshold.                                                          *)

LEMMA CountInit == Init => CountInv
BY DEF Init, CountInv, Numbered, ReachedLocks, Started, NoAttempt

\* Whatever keeps the numbers and the times of the attempts keeps Numbered.
LEMMA NumberedKept ==
  ASSUME Numbered, Started' \subseteq Started,
         \A a \in Started' : attempt'[a].number = attempt[a].number /\ attempt'[a].time = attempt[a].time
  PROVE  Numbered'
<1> SUFFICES ASSUME NEW A \in SUBSET Started', A # {}, InOneWindow(A)'
             PROVE \E a \in A : attempt'[a].number >= Cardinality(A)
  BY DEF Numbered
<1>1. A \in SUBSET Started /\ InOneWindow(A)
  BY DEF InOneWindow
<1>2. PICK a \in A : attempt[a].number >= Cardinality(A)
  BY <1>1 DEF Numbered
<1> QED
  BY <1>2

\* Behind the advisory lock every started attempt is recorded, so the new one counts all
\* those in its window.
LEMMA CountNumbers ==
  ASSUME TypeOK, Serial, Numbered, NEW x \in Attempts, Count(x)
  PROVE  Numbered'
<1> SUFFICES ASSUME NEW A \in SUBSET Started', A # {}, InOneWindow(A)'
             PROVE \E a \in A : attempt'[a].number >= Cardinality(A)
  BY DEF Numbered
<1> DEFINE new == [at |-> "counted", time |-> clock, number |-> AttemptNumber, saw |-> ActiveLock]
<1>1. attempt' = [attempt EXCEPT ![x] = new] /\ attempt[x].at = "none" /\ counting = Unset
  BY DEF Count, MayCount
<1>2. new.at = "counted" /\ new.time = clock /\ new.number = AttemptNumber
  OBVIOUS
<1> HIDE DEF new
<1>3. attempt'[x] = new /\ \A a \in Attempts \ {x} : attempt'[a] = attempt[a]
  BY <1>1 DEF TypeOK
<1>4. Started = Recorded
  BY <1>1, UnsetAssumption DEF Started, Recorded, Serial, TypeOK
<1>5. Started' \subseteq Started \cup {x}
  BY <1>3 DEF Started
<1>6. CASE x \notin A
  <2>1. A \in SUBSET Started /\ InOneWindow(A)
    BY <1>3, <1>5, <1>6 DEF InOneWindow, Started
  <2>2. PICK a \in A : attempt[a].number >= Cardinality(A)
    BY <2>1 DEF Numbered
  <2> QED
    BY <1>3, <1>6, <2>1, <2>2 DEF Started
<1>7. CASE x \in A
  <2> DEFINE B == A \ {x}
  <2>1. B \subseteq Recorded
    BY <1>4, <1>5
  <2>2. \A b \in B : b \in Attempts /\ attempt'[x].time = clock /\ attempt'[b].time = attempt[b].time
    BY <1>2, <1>3, <2>1 DEF Recorded
  <2>3. \A b \in B : clock - attempt[b].time <= Window
    BY <1>7, <2>2 DEF InOneWindow
  <2>4. B \subseteq Counted
    BY <2>1, <2>2, <2>3, RuleAssumption DEF Counted, TypeOK
  <2>5. IsFiniteSet(Counted) /\ IsFiniteSet(A)
    BY AttemptsAssumption, FS_Subset DEF Counted, Recorded, Started
  <2>6. Cardinality(B) <= Cardinality(Counted)
    BY <2>4, <2>5, FS_Subset
  <2>7. Cardinality(B) = Cardinality(A) - 1
    BY <1>7, <2>5, FS_RemoveElement
  <2>8. Cardinality(A) \in Nat /\ Cardinality(Counted) \in Nat
    BY <2>5, FS_CardinalityType
  <2>9. attempt'[x].number >= Cardinality(A)
    BY <1>2, <1>3, <2>6, <2>7, <2>8 DEF AttemptNumber
  <2> QED
    BY <1>7, <2>9
<1> QED
  BY <1>6, <1>7

LEMMA CountStep == TypeOK /\ LockInv /\ CountInv /\ [Next]_vars => CountInv'
<1> SUFFICES ASSUME TypeOK, LockInv, CountInv, [Next]_vars PROVE CountInv'
  OBVIOUS
<1>1. ASSUME NEW x \in Attempts, Count(x) PROVE CountInv'
  <2> DEFINE new == [at |-> "counted", time |-> clock, number |-> AttemptNumber, saw |-> ActiveLock]
  <2>1. attempt' = [attempt EXCEPT ![x] = new] /\ lock' = lock
    BY <1>1 DEF Count
  <2>2. new.at = "counted" /\ new.saw = ActiveLock
    OBVIOUS
  <2> HIDE DEF new
  <2>3. ReachedLocks'
    BY <2>1, <2>2 DEF TypeOK, CountInv, ReachedLocks, ActiveLock, Locked
  <2> QED
    BY <1>1, <2>3, CountNumbers DEF CountInv, LockInv
<1>2. ASSUME NEW x \in Attempts, Record(x) PROVE CountInv'
  <2>1. Started' \subseteq Started /\ \A a \in Started' : /\ attempt'[a].number = attempt[a].number
                                                          /\ attempt'[a].time = attempt[a].time
    BY <1>2 DEF Record, Started, TypeOK
  <2>2. ReachedLocks'
    BY <1>2 DEF Record, TypeOK, CountInv, ReachedLocks
  <2> QED
    BY <2>1, <2>2, NumberedKept DEF CountInv
<1>3. ASSUME NEW x \in Attempts, RollBack(x) PROVE CountInv'
  <2>1. Started' \subseteq Started /\ \A a \in Started' : attempt'[a] = attempt[a]
    BY <1>3 DEF RollBack, NoAttempt, Started, TypeOK
  <2>2. ReachedLocks'
    BY <1>3 DEF RollBack, NoAttempt, TypeOK, CountInv, ReachedLocks
  <2> QED
    BY <2>1, <2>2, NumberedKept DEF CountInv
<1>4. ASSUME UNCHANGED attempt, \A l \in Attempts : lock[l] # "none" => lock'[l] # "none"
      PROVE CountInv'
  <2>1. Started' = Started
    BY <1>4 DEF Started
  <2>2. Numbered'
    BY <1>4, <2>1, NumberedKept DEF CountInv
  <2>3. ReachedLocks'
    BY <1>4 DEF CountInv, ReachedLocks
  <2> QED
    BY <2>2, <2>3 DEF CountInv
<1>5. ASSUME NEW c \in Codes, NEW a \in Attempts, NEW l \in Attempts, NEW u \in Owners, Issue(c, a, l, u)
      PROVE CountInv'
  BY <1>4, <1>5 DEF Issue, TypeOK
<1>6. ASSUME NEW c \in Codes, NEW a \in Attempts, Revoke(c, a) PROVE CountInv'
  BY <1>4, <1>6 DEF Revoke, ReopenedLock, TypeOK
<1>7. ASSUME NEW c \in Codes, Redeem(c) PROVE CountInv'
  BY <1>4, <1>7 DEF Redeem, TypeOK
<1>8. ASSUME Tick \/ UNCHANGED vars PROVE CountInv'
  BY <1>4, <1>8 DEF Tick, vars, fraudVars
<1> QED
  BY <1>1, <1>2, <1>3, <1>5, <1>6, <1>7, <1>8 DEF Next

-----------------------------------------------------------------------------
(* The theorems.                                                           *)

IInv == TypeOK /\ LockInv /\ CountInv

\* Every column of flags, alerts, locks and codes stays in its domain (the tables of
\* 035_v2_subscription_fraud_foundation.sql and 037_v2_recovery_authorization.sql).
THEOREM LockTypeCorrect == Spec => []TypeOK
<1> QED
  BY TypeInit, TypeStep, PTL DEF Spec

\* recordCrossDayReuseWithin and the recovery code's three operations keep the invariant
\* that ties attempts, locks, flags and codes together.
THEOREM LockInvariant == Spec => []IInv
<1>1. Init => IInv
  BY TypeInit, LockInit, CountInit DEF IInv
<1>2. IInv /\ [Next]_vars => IInv'
  BY TypeStep, LockStep, CountStep DEF IInv
<1> QED
  BY <1>1, <1>2, PTL DEF Spec

\* A business has one lock in force: the unique index of its locks is never met.
THEOREM LockIsOne == Spec => []OneLock
<1>1. IInv => OneLock
  BY DEF IInv, LockInv
<1> QED
  BY <1>1, LockInvariant, PTL

\* issueWithin, revokeWithin and redeemWithin keep a lock's status, its code and its flag in step.
THEOREM LockMatchesCodes == Spec => []CodesMatchLocks
<1>1. IInv => CodesMatchLocks
  BY DEF IInv, LockInv
<1> QED
  BY <1>1, LockInvariant, PTL

\* While purchases are locked, issueWithin finds an open flag to issue a code from.
THEOREM LockStaysReviewable == Spec => []LockIsReviewable
<1>1. IInv => LockIsReviewable
  BY DEF IInv, LockInv
<1> QED
  BY <1>1, LockInvariant, PTL

\* Under the advisory lock, Threshold attempts in one window lock the business's purchases.
THEOREM LockAtThreshold == Spec => []ThresholdLocks
<1>1. IInv => ThresholdLocks
  <2> SUFFICES ASSUME IInv, NEW A \in SUBSET Recorded, Cardinality(A) = Threshold,
                      \A a, b \in A : attempt[a].time - attempt[b].time <= Window
               PROVE \E l \in Attempts : lock[l] # "none"
    BY DEF ThresholdLocks
  <2>1. A # {}
    BY FS_EmptySet, RuleAssumption
  <2>2. PICK a \in A : attempt[a].number >= Threshold
    BY <2>1 DEF IInv, CountInv, Numbered, InOneWindow, Started, Recorded
  <2> QED
    BY <2>2 DEF IInv, CountInv, ReachedLocks, Recorded
<1> QED
  BY <1>1, LockInvariant, PTL

\* redeemWithin alone releases a lock, with a live code of it.
THEOREM LockReleased == Spec => UnlockedByRedemption
<1> DEFINE Kept ==
      /\ \A l \in Attempts :
           /\ Locked(l) /\ ~Locked(l)' =>
                \E c \in CodesOf(l) : code[c].expiry > clock /\ code'[c].status = "USED"
           /\ lock[l] = "UNLOCKED" => lock'[l] = "UNLOCKED"
      /\ \A c \in Codes : code[c].status \in {"USED", "REVOKED"} => code'[c] = code[c]
<1>1. IInv /\ [Next]_vars => [Kept]_vars
  <2> SUFFICES ASSUME IInv, Next PROVE Kept
    BY DEF vars
  <2>1. ASSUME NEW a \in Attempts, Count(a) \/ RollBack(a) PROVE Kept
    BY <2>1 DEF Count, RollBack, Locked
  <2>2. ASSUME NEW a \in Attempts, Record(a) PROVE Kept
    <3>1. lock[a] = "none"
      BY <2>2 DEF Record, IInv, LockInv, Serial, TypeOK
    <3> QED
      BY <2>2, <3>1 DEF Record, Locked, IInv, TypeOK
  <2>3. ASSUME NEW c \in Codes, NEW a \in Attempts, NEW l \in Attempts, NEW u \in Owners, Issue(c, a, l, u)
        PROVE Kept
    BY <2>3 DEF Issue, Issuable, CodesOf, Locked, IInv, TypeOK
  <2>4. ASSUME NEW c \in Codes, NEW a \in Attempts, Revoke(c, a) PROVE Kept
    BY <2>4 DEF Revoke, ReopenedLock, Locked, IInv, TypeOK
  <2>5. ASSUME NEW c \in Codes, Redeem(c) PROVE Kept
    BY <2>5 DEF Redeem, Redeemable, Expired, CodesOf, Locked, IInv, TypeOK
  <2>6. ASSUME Tick PROVE Kept
    BY <2>6 DEF Tick, fraudVars, Locked
  <2> QED
    BY <2>1, <2>2, <2>3, <2>4, <2>5, <2>6 DEF Next
<1> QED
  BY <1>1, LockInvariant, PTL DEF Spec, UnlockedByRedemption
=============================================================================
