--------------------------- MODULE Reconciliation ---------------------------
(***************************************************************************)
(* The daily reconciliation of a settlement account, on its ledger.  A     *)
(* cashier drafts a snapshot: the totals of the entries dated before the   *)
(* close, and the balance the bank shows.  Submitting it settles whether   *)
(* the two agree; the manager approves or returns it, and the next draft   *)
(* of the same account and day supersedes a returned one.  A correction    *)
(* may cite a reconciliation of its account as evidence.                   *)
(***************************************************************************)
EXTENDS SettlementLedger, Functions

CONSTANTS
  Scheduled,    \* accounts whose branch has an active reconciliation schedule
  BankBalances  \* balances a cashier may read at the bank

ASSUME ScheduledAssumption == Scheduled \subseteq Accounts
ASSUME BankAssumption      == BankBalances \subseteq Int
ASSUME EvidenceAssumption  == IsFiniteSet(Evidence)

VARIABLES
  snapshot,  \* reconciliations; Evidence is the set of their identities
  history    \* reconciliation_status_history, by transition_no

reconciliationVars == <<snapshot, history>>
vars == <<ledgerVars, reconciliationVars>>

Snapshots  == Evidence
Statuses   == {"DRAFT", "SUBMITTED", "MATCHED", "DISCREPANCY", "APPROVED", "RETURNED", "SUPERSEDED"}
NoSnapshot == [status |-> "none", account |-> None, day |-> 0, number |-> 0, opening |-> 0,
               totals |-> [t \in Types |-> 0], calculated |-> 0, difference |-> 0]

Init ==
  /\ LedgerInit
  /\ snapshot = [r \in Snapshots |-> NoSnapshot]
  /\ history  = [r \in Snapshots |-> <<>>]

-----------------------------------------------------------------------------
(* calculateTotals, under the account's row lock.                          *)

\* The sum of the entries of an account with these numbers.
SumOf(a, ks) == SumFunction([k \in ks |-> ledger[a][k].delta])

\* Entries dated before the close of a day.
Until(a, day) == {k \in DOMAIN ledger[a] : ledger[a][k].day <= day}

\* Entries dated before the close of the day before.
Earlier(a, day) == {k \in DOMAIN ledger[a] : ledger[a][k].day < day}

\* The entries of the period in one category.
Within(a, day, type) == {k \in DOMAIN ledger[a] : ledger[a][k].day = day /\ ledger[a][k].type = type}

\* Mutant: the entries of the period only.
CalculatedInPeriod(a, day) == SumOf(a, Until(a, day) \ Earlier(a, day))

Calculated(a, day) == SumOf(a, Until(a, day))

SnapshotsOf(a, day) == {r \in Snapshots : snapshot[r].account = a /\ snapshot[r].day = day}

\* MAX(sequence_no) + 1.
NextNumber(a, day) == Cardinality(SnapshotsOf(a, day)) + 1

\* The snapshot of a draft.
Draft(a, day, bank) ==
  [status |-> "DRAFT", account |-> a, day |-> day, number |-> NextNumber(a, day),
   opening |-> SumOf(a, Earlier(a, day)),
   totals |-> [t \in Types |-> SumOf(a, Within(a, day, t))],
   calculated |-> Calculated(a, day),
   difference |-> bank - Calculated(a, day)]

-----------------------------------------------------------------------------
(* Workflow.                                                               *)

\* What the trigger of migration 023 lets a status become; nothing in src/ archives a row.
Moves ==
  {<<"DRAFT", "SUBMITTED">>, <<"SUBMITTED", "MATCHED">>, <<"SUBMITTED", "DISCREPANCY">>,
   <<"MATCHED", "APPROVED">>, <<"MATCHED", "RETURNED">>, <<"DISCREPANCY", "APPROVED">>,
   <<"DISCREPANCY", "RETURNED">>, <<"RETURNED", "SUPERSEDED">>}

\* The last RETURNED snapshot of an account and day, if there is one.
LastReturned(a, day) ==
  LET returned == {r \in SnapshotsOf(a, day) : snapshot[r].status = "RETURNED"} IN
  {r \in returned : \A q \in returned : snapshot[q].number <= snapshot[r].number}

Superseded(a, day) ==
  [r \in Snapshots |->
     IF r \in LastReturned(a, day) THEN [snapshot[r] EXCEPT !.status = "SUPERSEDED"] ELSE snapshot[r]]

Recorded(a, day) ==
  [r \in Snapshots |->
     IF r \in LastReturned(a, day) THEN Append(history[r], "SUPERSEDED") ELSE history[r]]

\* The first request with this identity; a later one is answered with the row.
CreateDraft(r, a, day, bank) ==
  /\ a \in Scheduled /\ MayLock(a)
  /\ snapshot[r] = NoSnapshot
  /\ snapshot' = [Superseded(a, day) EXCEPT ![r] = Draft(a, day, bank)]
  /\ history' = [Recorded(a, day) EXCEPT ![r] = <<"DRAFT">>]
  /\ UNCHANGED ledgerVars

Outcome(r) == IF snapshot[r].difference = 0 THEN "MATCHED" ELSE "DISCREPANCY"

\* Two updates and two rows of history in one transaction.
Submit(r) ==
  /\ snapshot[r].status = "DRAFT"
  /\ snapshot' = [snapshot EXCEPT ![r] = [snapshot[r] EXCEPT !.status = Outcome(r)]]
  /\ history' = [history EXCEPT ![r] = history[r] \o <<"SUBMITTED", Outcome(r)>>]
  /\ UNCHANGED ledgerVars

Decidable(r) == snapshot[r].status \in {"MATCHED", "DISCREPANCY"}

Decide(r, decision) ==
  /\ Decidable(r)
  /\ snapshot' = [snapshot EXCEPT ![r] = [snapshot[r] EXCEPT !.status = decision]]
  /\ history' = [history EXCEPT ![r] = Append(history[r], decision)]
  /\ UNCHANGED ledgerVars

-----------------------------------------------------------------------------
(* Corrections, whose evidence is looked up in the scope query.            *)

\* No evidence, or a reconciliation of the corrected account.
EvidenceValid(a, r) == r # None => snapshot[r].account = a

CorrectWithEvidence(i, type, m, day, cites) ==
  /\ CreateCorrection(i, type, m, day, cites, EvidenceValid(form[i].account, cites))
  /\ UNCHANGED reconciliationVars

Next ==
  \/ LedgerStep /\ UNCHANGED reconciliationVars
  \/ \E i \in Requests, type \in Corrections, m \in Amounts, day \in Days,
        cites \in Evidence \cup {None} : CorrectWithEvidence(i, type, m, day, cites)
  \/ \E r \in Snapshots, a \in Accounts, day \in Days, bank \in BankBalances :
       CreateDraft(r, a, day, bank)
  \/ \E r \in Snapshots : Submit(r) \/ Decide(r, "APPROVED") \/ Decide(r, "RETURNED")

Spec == Init /\ [][Next]_vars

-----------------------------------------------------------------------------
\* The type of both tables; a snapshot exists exactly when it has a history.
TypeOK ==
  /\ LedgerTypeOK
  /\ snapshot \in [Snapshots ->
       [status : Statuses \cup {"none"}, account : Accounts \cup {None}, day : Days \cup {0},
        number : Nat, opening : Int, totals : [Types -> Int], calculated : Int, difference : Int]]
  /\ history \in [Snapshots -> Seq(Statuses)]
  /\ \A r \in Snapshots : IF history[r] = <<>> THEN snapshot[r] = NoSnapshot
                                               ELSE snapshot[r].number > 0

\* The history of a snapshot is a path of the workflow that ends in its
\* status, so the trigger that guards the table never refuses a transition
\* (migration 023 payguard_guard_reconciliation_mutation).
HistoryIsWorkflow ==
  \A r \in Snapshots : snapshot[r] # NoSnapshot =>
    /\ history[r][1] = "DRAFT"
    /\ history[r][Len(history[r])] = snapshot[r].status
    /\ \A n \in 1..Len(history[r]) - 1 : <<history[r][n], history[r][n + 1]>> \in Moves

\* The opening balance and the category totals of a snapshot add up to its
\* calculated balance: each entry before the close is in one of them, however
\* late it was posted for its day (calculateTotals).
CategoriesAddUp ==
  \A r \in Snapshots :
    snapshot[r].calculated = snapshot[r].opening + SumFunction(snapshot[r].totals)

\* A superseded snapshot was returned before, and a later one of the same
\* account and day replaces it (createWithin).
SupersededIsReplaced ==
  \A r \in Snapshots : snapshot[r].status = "SUPERSEDED" =>
    \E q \in SnapshotsOf(snapshot[r].account, snapshot[r].day) :
      snapshot[q].number > snapshot[r].number

\* A posted correction cites a reconciliation of the account it corrects
\* (correction.dao.ts evidence_valid).
CorrectionsCiteTheirAccount ==
  \A a \in Accounts : \A k \in DOMAIN ledger[a] :
    ledger[a][k].cites # None => snapshot[ledger[a][k].cites].account = a

\* A snapshot is what its cashier confirmed until the end: entries dated in
\* its period that are posted later change neither the totals nor the outcome
\* of the comparison with the bank (migration 023, submitWithin).
SnapshotsAreImmutable ==
  [][\A r \in Snapshots : snapshot[r] # NoSnapshot =>
       /\ snapshot'[r] = [snapshot[r] EXCEPT !.status = snapshot'[r].status]
       /\ snapshot'[r].status = "MATCHED" => snapshot[r].difference = 0]_snapshot

\* A draft that covers every entry of its account calculates the account's
\* own calculated balance.  The snapshot's opening balance sums entries, and
\* the opening balance of the account is not one.
SnapshotMatchesAccount ==
  [][\A r \in Snapshots :
       snapshot[r] = NoSnapshot /\ snapshot'[r] # NoSnapshot =>
         LET s == snapshot'[r] IN
         (Until(s.account, s.day) = DOMAIN ledger[s.account]) =>
            s.calculated = account[s.account].balance]_snapshot

\* A draft's calculated balance is its opening balance and its totals, each entry before the
\* close counted in one of them, and agrees with the account's own up to the opening balance of
\* the account (calculateTotals).
SnapshotFollowsAccount ==
  [][\A r \in Snapshots :
       snapshot[r] = NoSnapshot /\ snapshot'[r] # NoSnapshot =>
         LET s == snapshot'[r] IN
         /\ s.calculated = s.opening + SumFunction(s.totals)
         /\ (Until(s.account, s.day) = DOMAIN ledger[s.account]) =>
              s.calculated + account[s.account].opening = account[s.account].balance]_snapshot
=============================================================================
