------------------------ MODULE ReconciliationProofs ------------------------
(***************************************************************************)
(* What TLAPS proves of Reconciliation: it only adds snapshots to the      *)
(* ledger, their workflow, and what the sums of a draft are, for any       *)
(* number of accounts, days and snapshots.                                 *)
(***************************************************************************)
EXTENDS Reconciliation, SettlementLedgerProofs, FiniteSums

-----------------------------------------------------------------------------
(* The ledger under reconciliation.                                        *)

LEMMA StepIsLedgerStep == [Next]_vars => [LedgerNext]_ledgerVars
<1> SUFFICES ASSUME [Next]_vars PROVE [LedgerNext]_ledgerVars
  OBVIOUS
<1>1. CASE LedgerStep /\ UNCHANGED reconciliationVars
  BY <1>1 DEF LedgerNext
<1>2. ASSUME NEW i \in Requests, NEW type \in Corrections, NEW m \in Amounts, NEW day \in Days,
             NEW cites \in Evidence \cup {None}, CorrectWithEvidence(i, type, m, day, cites)
      PROVE  LedgerNext
  <2>1. EvidenceValid(form[i].account, cites) \in BOOLEAN
    BY DEF EvidenceValid
  <2> QED
    BY <1>2, <2>1 DEF CorrectWithEvidence, LedgerNext
<1>3. ASSUME NEW r \in Snapshots, NEW a \in Accounts, NEW day \in Days, NEW bank \in BankBalances,
             CreateDraft(r, a, day, bank)
      PROVE  UNCHANGED ledgerVars
  BY <1>3 DEF CreateDraft
<1>4. ASSUME NEW r \in Snapshots, Submit(r) \/ Decide(r, "APPROVED") \/ Decide(r, "RETURNED")
      PROVE  UNCHANGED ledgerVars
  BY <1>4 DEF Submit, Decide
<1>5. CASE UNCHANGED vars
  BY <1>5 DEF vars
<1> QED
  BY <1>1, <1>2, <1>3, <1>4, <1>5 DEF Next

\* Reconciliation is a client of the ledger: with its snapshots hidden, each
\* step is one of the ledger's or none, so every theorem of the ledger holds.
THEOREM ReconciliationKeepsLedger == Spec => LedgerSpec
<1>1. Init => LedgerInit
  BY DEF Init
<1> QED
  BY <1>1, StepIsLedgerStep, PTL DEF Spec, LedgerSpec

-----------------------------------------------------------------------------
(* The invariant of the snapshots.                                         *)

\* A row of the table, whatever its amounts are.
RowsWith(X) ==
  [status : Statuses \cup {"none"}, account : Accounts \cup {None}, day : Days \cup {0},
   number : Nat, opening : X, totals : X, calculated : X, difference : X]

IsRow(s) == \E X : s \in RowsWith(X)

\* Rows that exist are of an account, numbered, and have a history.
Rows ==
  /\ snapshot = [r \in Snapshots |-> snapshot[r]]
  /\ history \in [Snapshots -> Seq(Statuses)]
  /\ \A r \in Snapshots :
       /\ IsRow(snapshot[r])
       /\ history[r] = <<>> => snapshot[r] = NoSnapshot
       /\ history[r] # <<>> => snapshot[r].account \in Accounts

\* A snapshot that matches shows no difference.
MatchedIsEqual == \A r \in Snapshots : snapshot[r].status = "MATCHED" => snapshot[r].difference = 0

\* Snapshots of an account and day are numbered up to their count.
NumberedUpToCount ==
  \A r \in Snapshots : snapshot[r] # NoSnapshot =>
    snapshot[r].number <= Cardinality(SnapshotsOf(snapshot[r].account, snapshot[r].day))

SnapshotInv == Rows /\ HistoryIsWorkflow /\ MatchedIsEqual
NumberInv == NumberedUpToCount /\ SupersededIsReplaced

\* A row that changes its status only.
LEMMA StatusChange ==
  ASSUME NEW s, IsRow(s), NEW st \in Statuses
  PROVE  LET t == [s EXCEPT !.status = st] IN
         /\ IsRow(t) /\ t.status = st /\ t.account = s.account /\ t.day = s.day
         /\ t.number = s.number /\ t.difference = s.difference
<1>1. PICK X : s \in RowsWith(X)
  BY DEF IsRow
<1>2. [s EXCEPT !.status = st] \in RowsWith(X)
  BY <1>1 DEF RowsWith
<1> QED
  BY <1>1, <1>2 DEF IsRow, RowsWith

LEMMA InitialSnapshots == Init => SnapshotInv /\ NumberInv
<1> SUFFICES ASSUME Init PROVE SnapshotInv /\ NumberInv
  OBVIOUS
<1>1. \A r \in Snapshots : snapshot[r] = NoSnapshot /\ history[r] = <<>>
  BY DEF Init
<1>2. IsRow(NoSnapshot) /\ NoSnapshot.status = "none"
  <2>1. NoSnapshot \in RowsWith({0, [t \in Types |-> 0]})
    BY DEF NoSnapshot, RowsWith
  <2> QED
    BY <2>1 DEF IsRow, NoSnapshot
<1>3. <<>> \in Seq(Statuses)
  BY EmptySeq
<1>4. Rows
  BY <1>1, <1>2, <1>3 DEF Init, Rows
<1> QED
  BY <1>1, <1>2, <1>4 DEF SnapshotInv, NumberInv, HistoryIsWorkflow, MatchedIsEqual, NumberedUpToCount,
     SupersededIsReplaced

-----------------------------------------------------------------------------
(* Histories.                                                              *)

\* A history that leads along the workflow to this status.
Path(h, status) ==
  /\ h \in Seq(Statuses) /\ h # <<>>
  /\ h[1] = "DRAFT"
  /\ h[Len(h)] = status
  /\ \A n \in 1..Len(h) - 1 : <<h[n], h[n + 1]>> \in Moves

LEMMA PathGrows ==
  ASSUME NEW h, NEW s, NEW t \in Statuses, Path(h, s), <<s, t>> \in Moves
  PROVE  Path(Append(h, t), t)
<1> DEFINE g == Append(h, t)
<1>1. /\ h \in Seq(Statuses) /\ h # <<>> /\ h[1] = "DRAFT" /\ h[Len(h)] = s
      /\ \A n \in 1..Len(h) - 1 : <<h[n], h[n + 1]>> \in Moves
  BY DEF Path
<1>2. /\ g \in Seq(Statuses) /\ g # <<>> /\ Len(g) = Len(h) + 1
      /\ \A n \in 1..Len(h) : g[n] = h[n]
      /\ g[Len(h) + 1] = t
  BY <1>1, AppendProperties
<1>3. Len(h) \in Nat \ {0}
  BY <1>1, EmptySeq
<1> HIDE DEF g
<1>4. ASSUME NEW n \in 1..Len(g) - 1 PROVE <<g[n], g[n + 1]>> \in Moves
  <2>1. CASE n = Len(h)
    <3>1. Len(h) \in 1..Len(h)
      BY <1>3
    <3> QED
      BY <1>1, <1>2, <2>1, <3>1
  <2>2. CASE n # Len(h)
    <3>1. n \in 1..Len(h) - 1 /\ n \in 1..Len(h) /\ n + 1 \in 1..Len(h)
      BY <1>2, <1>3, <2>2
    <3> QED
      BY <1>1, <1>2, <3>1
  <2> QED
    BY <2>1, <2>2
<1>5. g[1] = "DRAFT" /\ g[Len(g)] = t
  BY <1>1, <1>2, <1>3
<1>6. Path(g, t)
  BY <1>2, <1>4, <1>5 DEF Path
<1> QED
  BY <1>6 DEF g

LEMMA TwoMore ==
  ASSUME NEW h \in Seq(Statuses), NEW s \in Statuses, NEW t \in Statuses
  PROVE  h \o <<s, t>> = Append(Append(h, s), t)
<1>1. <<s, t>> \in Seq(Statuses) /\ Len(<<s, t>>) = 2
  OBVIOUS
<1>2. /\ h \o <<s, t>> \in Seq(Statuses) /\ Len(h \o <<s, t>>) = Len(h) + 2
      /\ \A i \in 1..Len(h) + 2 : (h \o <<s, t>>)[i] = IF i <= Len(h) THEN h[i] ELSE <<s, t>>[i - Len(h)]
  BY <1>1, ConcatProperties
<1>3. /\ Append(h, s) \in Seq(Statuses) /\ Len(Append(h, s)) = Len(h) + 1
      /\ \A i \in 1..Len(h) : Append(h, s)[i] = h[i]
      /\ Append(h, s)[Len(h) + 1] = s
  BY AppendProperties
<1>4. /\ Append(Append(h, s), t) \in Seq(Statuses) /\ Len(Append(Append(h, s), t)) = Len(Append(h, s)) + 1
      /\ \A i \in 1..Len(Append(h, s)) : Append(Append(h, s), t)[i] = Append(h, s)[i]
      /\ Append(Append(h, s), t)[Len(Append(h, s)) + 1] = t
  BY <1>3, AppendProperties
<1>5. Len(h) \in Nat
  BY LenProperties
<1>6. ASSUME NEW i \in 1..Len(h) + 2 PROVE (h \o <<s, t>>)[i] = Append(Append(h, s), t)[i]
  <2>1. CASE i \in 1..Len(h)
    BY <1>2, <1>3, <1>4, <1>5, <2>1
  <2>2. CASE i = Len(h) + 1
    <3>1. i - Len(h) = 1
      BY <1>5, <2>2
    <3> QED
      BY <1>2, <1>3, <1>4, <1>5, <2>2, <3>1
  <2>3. CASE i = Len(h) + 2
    <3>1. i - Len(h) = 2
      BY <1>5, <2>3
    <3> QED
      BY <1>2, <1>3, <1>4, <1>5, <2>3, <3>1
  <2> QED
    BY <1>5, <2>1, <2>2, <2>3
<1> QED
  BY <1>2, <1>3, <1>4, <1>5, <1>6, SeqEqual

LEMMA HistoriesArePaths ==
  Rows => (HistoryIsWorkflow <=>
             \A r \in Snapshots : snapshot[r] # NoSnapshot => Path(history[r], snapshot[r].status))
BY DEF Rows, HistoryIsWorkflow, Path

-----------------------------------------------------------------------------
(* What a step does to a row.                                              *)

Same(q) == snapshot'[q] = snapshot[q] /\ history'[q] = history[q]

Moved(q) ==
  /\ snapshot[q] # NoSnapshot
  /\ \E st \in Statuses :
       /\ snapshot'[q] = [snapshot[q] EXCEPT !.status = st]
       /\ Path(history'[q], st)
       /\ st = "MATCHED" => snapshot[q].difference = 0

Drafted(q) ==
  /\ snapshot[q] = NoSnapshot
  /\ IsRow(snapshot'[q]) /\ snapshot'[q].status = "DRAFT"
  /\ snapshot'[q].account \in Accounts /\ snapshot'[q].number > 0
  /\ history'[q] = <<"DRAFT">>

RowsChange ==
  /\ snapshot' = [q \in Snapshots |-> snapshot'[q]]
  /\ history' = [q \in Snapshots |-> history'[q]]
  /\ \A q \in Snapshots : Same(q) \/ Moved(q) \/ Drafted(q)

\* The draft is numbered after the snapshots it follows.
LEMMA CountIsNat ==
  ASSUME NEW a, NEW day
  PROVE  /\ IsFiniteSet(SnapshotsOf(a, day))
         /\ Cardinality(SnapshotsOf(a, day)) \in Nat
<1>1. SnapshotsOf(a, day) \in SUBSET Evidence
  BY DEF SnapshotsOf, Snapshots
<1> QED
  BY <1>1, EvidenceAssumption, FS_Subset, FS_CardinalityType

LEMMA DraftIsRow ==
  ASSUME NEW a \in Accounts, NEW day \in Days, NEW bank
  PROVE  LET d == Draft(a, day, bank) IN
         /\ IsRow(d) /\ d.status = "DRAFT" /\ d.account = a /\ d.day = day
         /\ d.number = Cardinality(SnapshotsOf(a, day)) + 1 /\ d.number \in Nat /\ d.number > 0
         /\ d # NoSnapshot
<1> DEFINE X == {Draft(a, day, bank).opening, Draft(a, day, bank).totals,
                 Draft(a, day, bank).calculated, Draft(a, day, bank).difference}
<1>1. Cardinality(SnapshotsOf(a, day)) \in Nat
  BY CountIsNat
<1>2. Draft(a, day, bank).number = Cardinality(SnapshotsOf(a, day)) + 1
  BY DEF Draft, NextNumber
<1>3. /\ Draft(a, day, bank).status = "DRAFT" /\ Draft(a, day, bank).account = a
      /\ Draft(a, day, bank).day = day
  BY DEF Draft
<1>4. Draft(a, day, bank) \in RowsWith(X)
  BY <1>1, <1>2, <1>3 DEF Draft, RowsWith, Statuses
<1>5. Draft(a, day, bank) # NoSnapshot
  BY <1>3 DEF NoSnapshot
<1> HIDE DEF X
<1> QED
  BY <1>1, <1>2, <1>3, <1>4, <1>5 DEF IsRow

\* The workflow of a row that exists.
LEMMA RowMoves ==
  ASSUME SnapshotInv, NEW q \in Snapshots, NEW s \in Statuses, NEW st \in Statuses,
         snapshot[q].status = s, <<s, st>> \in Moves
  PROVE  snapshot[q] # NoSnapshot /\ Path(Append(history[q], st), st)
<1>1. snapshot[q] # NoSnapshot
  BY DEF NoSnapshot, Statuses
<1>2. Path(history[q], s)
  BY <1>1, HistoriesArePaths DEF SnapshotInv
<1> QED
  BY <1>1, <1>2, PathGrows

\* A returned snapshot that the draft supersedes.
LEMMA DraftChangesRows ==
  ASSUME SnapshotInv, NEW r \in Snapshots, NEW a \in Accounts, NEW day \in Days, NEW bank,
         CreateDraft(r, a, day, bank)
  PROVE  RowsChange
<1>1. snapshot[r] = NoSnapshot /\ r \notin LastReturned(a, day)
  BY DEF CreateDraft, LastReturned, NoSnapshot
<1>2. /\ snapshot' = [Superseded(a, day) EXCEPT ![r] = Draft(a, day, bank)]
      /\ history' = [Recorded(a, day) EXCEPT ![r] = <<"DRAFT">>]
  BY DEF CreateDraft
<1>3. snapshot' = [q \in Snapshots |-> snapshot'[q]] /\ history' = [q \in Snapshots |-> history'[q]]
  <2>1. /\ Superseded(a, day) = [q \in Snapshots |-> Superseded(a, day)[q]]
        /\ Recorded(a, day) = [q \in Snapshots |-> Recorded(a, day)[q]]
    BY DEF Superseded, Recorded
  <2>2. snapshot' = [q \in Snapshots |-> snapshot'[q]]
    BY <1>2, <2>1
  <2>3. history' = [q \in Snapshots |-> history'[q]]
    BY <1>2, <2>1
  <2> QED
    BY <2>2, <2>3
<1>4. Drafted(r)
  <2>1. DOMAIN Superseded(a, day) = Snapshots /\ DOMAIN Recorded(a, day) = Snapshots
    BY DEF Superseded, Recorded
  <2>2. snapshot'[r] = Draft(a, day, bank)
    BY <1>2, <2>1
  <2>3. history'[r] = <<"DRAFT">>
    BY <1>2, <2>1
  <2> QED
    BY <1>1, <2>2, <2>3, DraftIsRow DEF Drafted
<1>5. ASSUME NEW q \in Snapshots, q # r, q \in LastReturned(a, day) PROVE Moved(q)
  <2>1. snapshot'[q] = [snapshot[q] EXCEPT !.status = "SUPERSEDED"] /\ history'[q] = Append(history[q], "SUPERSEDED")
    BY <1>2, <1>5 DEF Superseded, Recorded
  <2>2. snapshot[q].status = "RETURNED"
    BY <1>5 DEF LastReturned
  <2>3. <<"RETURNED", "SUPERSEDED">> \in Moves /\ "RETURNED" \in Statuses /\ "SUPERSEDED" \in Statuses
    BY DEF Moves, Statuses
  <2>4. snapshot[q] # NoSnapshot /\ Path(history'[q], "SUPERSEDED")
    BY <2>1, <2>2, <2>3, RowMoves
  <2> QED
    BY <2>1, <2>3, <2>4 DEF Moved
<1>6. ASSUME NEW q \in Snapshots, q # r, q \notin LastReturned(a, day) PROVE Same(q)
  BY <1>2, <1>6 DEF Superseded, Recorded, Same
<1> QED
  BY <1>3, <1>4, <1>5, <1>6 DEF RowsChange

LEMMA SubmitChangesRows ==
  ASSUME SnapshotInv, NEW r \in Snapshots, Submit(r)
  PROVE  RowsChange
<1>1. PICK o \in {"MATCHED", "DISCREPANCY"} :
        o = Outcome(r) /\ (o = "MATCHED" => snapshot[r].difference = 0)
  BY DEF Outcome
<1>2. /\ snapshot[r].status = "DRAFT"
      /\ snapshot' = [snapshot EXCEPT ![r] = [snapshot[r] EXCEPT !.status = o]]
      /\ history' = [history EXCEPT ![r] = history[r] \o <<"SUBMITTED", o>>]
  BY <1>1 DEF Submit
<1>3. snapshot = [q \in Snapshots |-> snapshot[q]] /\ history \in [Snapshots -> Seq(Statuses)]
  BY DEF SnapshotInv, Rows
<1>4. /\ o \in Statuses /\ "SUBMITTED" \in Statuses /\ "DRAFT" \in Statuses
      /\ <<"DRAFT", "SUBMITTED">> \in Moves /\ <<"SUBMITTED", o>> \in Moves
  BY DEF Statuses, Moves
<1>5. snapshot[r] # NoSnapshot /\ Path(Append(history[r], "SUBMITTED"), "SUBMITTED")
  BY <1>2, <1>4, RowMoves
<1>6. Path(Append(Append(history[r], "SUBMITTED"), o), o)
  BY <1>4, <1>5, PathGrows
<1>7. history[r] \o <<"SUBMITTED", o>> = Append(Append(history[r], "SUBMITTED"), o)
  BY <1>3, <1>4, TwoMore
<1>8. snapshot'[r] = [snapshot[r] EXCEPT !.status = o] /\ Path(history'[r], o)
  BY <1>2, <1>3, <1>6, <1>7
<1>9. Moved(r)
  BY <1>1, <1>4, <1>5, <1>8 DEF Moved
<1>10. \A q \in Snapshots : q # r => Same(q)
  BY <1>2, <1>3 DEF Same
<1>11. snapshot' = [q \in Snapshots |-> snapshot'[q]] /\ history' = [q \in Snapshots |-> history'[q]]
  BY <1>2, <1>3
<1> QED
  BY <1>9, <1>10, <1>11 DEF RowsChange

LEMMA DecideChangesRows ==
  ASSUME SnapshotInv, NEW r \in Snapshots, NEW decision \in {"APPROVED", "RETURNED"}, Decide(r, decision)
  PROVE  RowsChange
<1>1. PICK s \in {"MATCHED", "DISCREPANCY"} : snapshot[r].status = s
  BY DEF Decide, Decidable
<1>2. /\ snapshot' = [snapshot EXCEPT ![r] = [snapshot[r] EXCEPT !.status = decision]]
      /\ history' = [history EXCEPT ![r] = Append(history[r], decision)]
  BY DEF Decide
<1>3. snapshot = [q \in Snapshots |-> snapshot[q]] /\ history \in [Snapshots -> Seq(Statuses)]
  BY DEF SnapshotInv, Rows
<1>4. s \in Statuses /\ decision \in Statuses /\ <<s, decision>> \in Moves
  BY DEF Statuses, Moves
<1>5. snapshot[r] # NoSnapshot /\ Path(Append(history[r], decision), decision)
  BY <1>1, <1>4, RowMoves
<1>6. snapshot'[r] = [snapshot[r] EXCEPT !.status = decision] /\ history'[r] = Append(history[r], decision)
  BY <1>2, <1>3
<1>7. Moved(r)
  BY <1>4, <1>5, <1>6 DEF Moved
<1>8. \A q \in Snapshots : q # r => Same(q)
  BY <1>2, <1>3 DEF Same
<1>9. snapshot' = [q \in Snapshots |-> snapshot'[q]] /\ history' = [q \in Snapshots |-> history'[q]]
  BY <1>2, <1>3
<1> QED
  BY <1>7, <1>8, <1>9 DEF RowsChange

LEMMA StepChangesRows == SnapshotInv /\ [Next]_vars => RowsChange
<1> SUFFICES ASSUME SnapshotInv, [Next]_vars PROVE RowsChange
  OBVIOUS
<1>1. snapshot = [q \in Snapshots |-> snapshot[q]] /\ history = [q \in Snapshots |-> history[q]]
  BY DEF SnapshotInv, Rows
<1>2. CASE UNCHANGED reconciliationVars
  <2>1. snapshot' = snapshot /\ history' = history
    BY <1>2 DEF reconciliationVars
  <2> QED
    BY <1>1, <2>1 DEF RowsChange, Same
<1>3. ASSUME NEW r \in Snapshots, NEW a \in Accounts, NEW day \in Days, NEW bank \in BankBalances,
             CreateDraft(r, a, day, bank)
      PROVE  RowsChange
  BY <1>3, DraftChangesRows
<1>4. ASSUME NEW r \in Snapshots, Submit(r) \/ Decide(r, "APPROVED") \/ Decide(r, "RETURNED")
      PROVE  RowsChange
  BY <1>4, SubmitChangesRows, DecideChangesRows
<1>5. UNCHANGED vars => UNCHANGED reconciliationVars
  BY DEF vars
<1>6. \A i, type, m, day, cites : CorrectWithEvidence(i, type, m, day, cites) => UNCHANGED reconciliationVars
  BY DEF CorrectWithEvidence
<1> QED
  BY <1>2, <1>3, <1>4, <1>5, <1>6 DEF Next

-----------------------------------------------------------------------------
(* Workflow theorems.                                                      *)

LEMMA RowsChangeKeepsInvariant == SnapshotInv /\ RowsChange => SnapshotInv'
<1> SUFFICES ASSUME SnapshotInv, RowsChange PROVE SnapshotInv'
  OBVIOUS
<1> DEFINE Good(s, h) ==
      /\ IsRow(s) /\ h \in Seq(Statuses)
      /\ h = <<>> => s = NoSnapshot
      /\ h # <<>> => s.account \in Accounts
      /\ s # NoSnapshot => Path(h, s.status)
      /\ s.status = "MATCHED" => s.difference = 0
<1>1. \A q \in Snapshots : Good(snapshot[q], history[q])
  BY HistoriesArePaths DEF SnapshotInv, Rows, MatchedIsEqual
<1>2. ASSUME NEW q \in Snapshots, Moved(q) PROVE Good(snapshot'[q], history'[q])
  <2>1. PICK st \in Statuses :
          /\ snapshot'[q] = [snapshot[q] EXCEPT !.status = st]
          /\ Path(history'[q], st)
          /\ st = "MATCHED" => snapshot[q].difference = 0
    BY <1>2 DEF Moved
  <2>2. snapshot[q].account \in Accounts /\ IsRow(snapshot[q])
    BY <1>1, <1>2 DEF Moved
  <2>3. /\ IsRow(snapshot'[q]) /\ snapshot'[q].status = st
        /\ snapshot'[q].account = snapshot[q].account /\ snapshot'[q].difference = snapshot[q].difference
    BY <2>1, <2>2, StatusChange
  <2>4. history'[q] \in Seq(Statuses) /\ history'[q] # <<>>
    BY <2>1 DEF Path
  <2> QED
    BY <2>1, <2>2, <2>3, <2>4
<1>3. ASSUME NEW q \in Snapshots, Drafted(q) PROVE Good(snapshot'[q], history'[q])
  <2>1. Path(<<"DRAFT">>, "DRAFT")
    BY DEF Path, Statuses
  <2>2. <<"DRAFT">> \in Seq(Statuses) /\ <<"DRAFT">> # <<>>
    BY <2>1 DEF Path
  <2> QED
    BY <1>3, <2>1, <2>2 DEF Drafted
<1>4. \A q \in Snapshots : Good(snapshot'[q], history'[q])
  <2>1. \A q \in Snapshots : Same(q) => Good(snapshot'[q], history'[q])
    BY <1>1 DEF Same
  <2> HIDE DEF Good
  <2> QED
    BY <1>2, <1>3, <2>1 DEF RowsChange
<1>5. snapshot' = [q \in Snapshots |-> snapshot'[q]] /\ history' = [q \in Snapshots |-> history'[q]]
  BY DEF RowsChange
<1>6. history' \in [Snapshots -> Seq(Statuses)]
  BY <1>4, <1>5
<1>7. Rows' /\ MatchedIsEqual'
  BY <1>4, <1>5, <1>6 DEF Rows, MatchedIsEqual
<1>8. HistoryIsWorkflow'
  BY <1>4 DEF HistoryIsWorkflow, Path
<1> QED
  BY <1>7, <1>8 DEF SnapshotInv

\* Rows, histories and outcomes, for every interleaving with the ledger.
THEOREM SnapshotInvariant == Spec => []SnapshotInv
<1>1. Init => SnapshotInv
  BY InitialSnapshots
<1>2. SnapshotInv /\ [Next]_vars => SnapshotInv'
  BY StepChangesRows, RowsChangeKeepsInvariant
<1> QED
  BY <1>1, <1>2, PTL DEF Spec

\* The trigger of the table never refuses a transition the code makes.
THEOREM ReconciliationWorkflow == Spec => []HistoryIsWorkflow
<1>1. SnapshotInv => HistoryIsWorkflow
  BY DEF SnapshotInv
<1> QED
  BY <1>1, SnapshotInvariant, PTL

\* Nothing but its status ever changes in a snapshot, and only a snapshot
\* without a difference is MATCHED.
THEOREM SnapshotsStay == Spec => SnapshotsAreImmutable
<1>1. SnapshotInv /\ RowsChange =>
        [\A r \in Snapshots : snapshot[r] # NoSnapshot =>
           /\ snapshot'[r] = [snapshot[r] EXCEPT !.status = snapshot'[r].status]
           /\ snapshot'[r].status = "MATCHED" => snapshot[r].difference = 0]_snapshot
  <2> SUFFICES ASSUME SnapshotInv, RowsChange, NEW r \in Snapshots, snapshot[r] # NoSnapshot
               PROVE  /\ snapshot'[r] = [snapshot[r] EXCEPT !.status = snapshot'[r].status]
                      /\ snapshot'[r].status = "MATCHED" => snapshot[r].difference = 0
    OBVIOUS
  <2>1. IsRow(snapshot[r])
    BY DEF SnapshotInv, Rows
  <2>2. CASE Same(r)
    <3>1. PICK X : snapshot[r] \in RowsWith(X)
      BY <2>1 DEF IsRow
    <3>2. snapshot[r] = [snapshot[r] EXCEPT !.status = snapshot[r].status]
      BY <3>1 DEF RowsWith
    <3> QED
      BY <2>2, <3>2 DEF Same, SnapshotInv, MatchedIsEqual
  <2>3. CASE Moved(r)
    <3>1. PICK st \in Statuses :
            /\ snapshot'[r] = [snapshot[r] EXCEPT !.status = st]
            /\ st = "MATCHED" => snapshot[r].difference = 0
      BY <2>3 DEF Moved
    <3>2. snapshot'[r].status = st
      BY <2>1, <3>1, StatusChange
    <3> QED
      BY <3>1, <3>2
  <2> QED
    BY <2>2, <2>3 DEF RowsChange, Drafted
<1>2. SnapshotInv /\ [Next]_vars => RowsChange
  BY StepChangesRows
<1> QED
  BY <1>1, <1>2, SnapshotInvariant, PTL DEF Spec, SnapshotsAreImmutable

-----------------------------------------------------------------------------
(* Numbers.                                                                *)

\* A row keeps its account, its day and its number.
Keeps(q) ==
  /\ snapshot'[q].account = snapshot[q].account
  /\ snapshot'[q].day = snapshot[q].day
  /\ snapshot'[q].number = snapshot[q].number
  /\ snapshot'[q] # NoSnapshot <=> snapshot[q] # NoSnapshot

LEMMA MovedKeeps ==
  ASSUME SnapshotInv, NEW q \in Snapshots, Same(q) \/ Moved(q)
  PROVE  Keeps(q)
<1>1. CASE Same(q)
  BY <1>1 DEF Same, Keeps
<1>2. CASE Moved(q)
  <2>1. PICK st \in Statuses : snapshot'[q] = [snapshot[q] EXCEPT !.status = st]
    BY <1>2 DEF Moved
  <2>2. IsRow(snapshot[q]) /\ snapshot[q] # NoSnapshot
    BY <1>2 DEF SnapshotInv, Rows, Moved
  <2>3. st # "none" /\ NoSnapshot.status = "none"
    BY DEF Statuses, NoSnapshot
  <2>4. /\ snapshot'[q].status = st
        /\ snapshot'[q].account = snapshot[q].account
        /\ snapshot'[q].day = snapshot[q].day
        /\ snapshot'[q].number = snapshot[q].number
    BY <2>1, <2>2, StatusChange
  <2>5. snapshot'[q] # NoSnapshot
    BY <2>3, <2>4
  <2> QED
    BY <2>2, <2>4, <2>5 DEF Keeps
<1> QED
  BY <1>1, <1>2

LEMMA ExistingRows ==
  ASSUME SnapshotInv, NEW q \in Snapshots, snapshot[q] # NoSnapshot
  PROVE  snapshot[q].account \in Accounts /\ snapshot[q].number \in Nat
<1>1. IsRow(snapshot[q]) /\ snapshot[q].account \in Accounts
  BY DEF SnapshotInv, Rows
<1> QED
  BY <1>1 DEF IsRow, RowsWith

\* Steps that draft nothing and supersede nothing.
LEMMA KeptNumbers ==
  ASSUME NumberInv, \A q \in Snapshots : Keeps(q),
         \A q \in Snapshots : snapshot'[q].status = "SUPERSEDED" => snapshot[q].status = "SUPERSEDED"
  PROVE  NumberInv'
<1>1. ASSUME NEW a, NEW day PROVE SnapshotsOf(a, day)' = SnapshotsOf(a, day)
  BY DEF SnapshotsOf, Keeps
<1>2. ASSUME NEW q \in Snapshots
      PROVE  SnapshotsOf(snapshot[q].account, snapshot[q].day)' = SnapshotsOf(snapshot[q].account, snapshot[q].day)
  BY DEF SnapshotsOf, Keeps
<1>3. NumberedUpToCount'
  BY <1>2 DEF NumberInv, NumberedUpToCount, Keeps
<1>4. SupersededIsReplaced'
  BY <1>2 DEF NumberInv, SupersededIsReplaced, Keeps, SnapshotsOf
<1> QED
  BY <1>3, <1>4 DEF NumberInv

LEMMA DraftNumbers ==
  ASSUME SnapshotInv, NumberInv, NEW r \in Snapshots, NEW a \in Accounts, NEW day \in Days, NEW bank,
         CreateDraft(r, a, day, bank)
  PROVE  NumberInv'
<1> DEFINE N == Cardinality(SnapshotsOf(a, day))
<1>1. N \in Nat /\ IsFiniteSet(SnapshotsOf(a, day))
  BY CountIsNat
<1>2. snapshot[r] = NoSnapshot /\ snapshot[r].account = None /\ a # None
  BY NoneAssumption DEF CreateDraft, NoSnapshot
<1>3. /\ snapshot'[r].account = a /\ snapshot'[r].day = day /\ snapshot'[r].number = N + 1
      /\ snapshot'[r].status = "DRAFT"
  <2>1. DOMAIN Superseded(a, day) = Snapshots
    BY DEF Superseded
  <2>2. snapshot'[r] = Draft(a, day, bank)
    BY <2>1 DEF CreateDraft
  <2> QED
    BY <2>2, DraftIsRow
<1>4. ASSUME NEW q \in Snapshots, q # r PROVE Keeps(q)
  <2>1. snapshot'[q] = Superseded(a, day)[q] /\ history'[q] = Recorded(a, day)[q]
    BY <1>4 DEF CreateDraft, Superseded, Recorded
  <2>2. CASE snapshot[q] # NoSnapshot
    <3>1. ~Drafted(q)
      BY <2>2 DEF Drafted
    <3> QED
      BY <3>1, DraftChangesRows, MovedKeeps DEF RowsChange
  <2>3. CASE snapshot[q] = NoSnapshot
    <3>1. q \notin LastReturned(a, day)
      BY <2>3 DEF LastReturned, NoSnapshot
    <3> QED
      BY <2>1, <3>1 DEF Superseded, Keeps
  <2> QED
    BY <2>2, <2>3
<1>5. ASSUME NEW q \in Snapshots, q # r, snapshot'[q].status = "SUPERSEDED", snapshot[q].status # "SUPERSEDED"
      PROVE  q \in SnapshotsOf(a, day) /\ snapshot[q] # NoSnapshot
  <2>1. snapshot'[q] = Superseded(a, day)[q]
    BY <1>5 DEF CreateDraft, Superseded
  <2>2. q \in LastReturned(a, day)
    BY <1>5, <2>1 DEF Superseded
  <2> QED
    BY <2>2 DEF LastReturned, NoSnapshot
<1>6. SnapshotsOf(a, day)' = SnapshotsOf(a, day) \cup {r}
  BY <1>2, <1>3, <1>4 DEF SnapshotsOf, Keeps
<1>7. Cardinality(SnapshotsOf(a, day)') = N + 1
  <2>1. r \notin SnapshotsOf(a, day)
    BY <1>2 DEF SnapshotsOf
  <2> QED
    BY <1>1, <1>6, <2>1, FS_AddElement
<1>8. ASSUME NEW q \in Snapshots, q # r, snapshot[q] # NoSnapshot, ~(snapshot[q].account = a /\ snapshot[q].day = day)
      PROVE  SnapshotsOf(snapshot[q].account, snapshot[q].day)' = SnapshotsOf(snapshot[q].account, snapshot[q].day)
  <2>1. snapshot[q].account # None
    BY <1>8, ExistingRows, NoneAssumption
  <2> QED
    BY <1>2, <1>3, <1>4, <1>8, <2>1 DEF SnapshotsOf, Keeps
<1> HIDE DEF N
<1>9. NumberedUpToCount'
  <2>1. ASSUME NEW q \in Snapshots, snapshot'[q] # NoSnapshot
        PROVE  snapshot'[q].number <= Cardinality(SnapshotsOf(snapshot[q].account, snapshot[q].day)')
    <3>1. CASE q = r
      BY <3>1, <1>1, <1>3, <1>7 DEF N
    <3>2. CASE q # r
      <4>1. /\ snapshot[q] # NoSnapshot /\ snapshot'[q].number = snapshot[q].number
            /\ snapshot'[q].account = snapshot[q].account /\ snapshot'[q].day = snapshot[q].day
        BY <2>1, <3>2, <1>4 DEF Keeps
      <4>2. snapshot[q].number \in Nat
        BY <4>1, ExistingRows
      <4>3. snapshot[q].number <= Cardinality(SnapshotsOf(snapshot[q].account, snapshot[q].day))
        BY <4>1 DEF NumberInv, NumberedUpToCount
      <4> QED
        BY <4>1, <4>2, <4>3, <3>2, <1>1, <1>7, <1>8 DEF N
    <3> QED
      BY <3>1, <3>2
  <2> QED
    BY <2>1 DEF NumberedUpToCount
<1>10. SupersededIsReplaced'
  <2>1. ASSUME NEW q \in Snapshots, snapshot'[q].status = "SUPERSEDED"
        PROVE  \E p \in Snapshots : /\ snapshot'[p].account = snapshot'[q].account
                                     /\ snapshot'[p].day = snapshot'[q].day
                                     /\ snapshot'[p].number > snapshot'[q].number
    <3>1. q # r
      BY <1>3, <2>1
    <3>2. CASE snapshot[q].status = "SUPERSEDED"
      <4>1. PICK p \in Snapshots : /\ snapshot[p].account = snapshot[q].account
                                   /\ snapshot[p].day = snapshot[q].day
                                   /\ snapshot[p].number > snapshot[q].number
        BY <3>2 DEF NumberInv, SupersededIsReplaced, SnapshotsOf
      <4>2. snapshot[q].account # None
        BY <3>2, ExistingRows, NoneAssumption DEF NoSnapshot
      <4>3. p # r
        BY <1>2, <4>1, <4>2
      <4> QED
        BY <1>4, <3>1, <4>1, <4>3 DEF Keeps
    <3>3. CASE snapshot[q].status # "SUPERSEDED"
      <4>1. snapshot[q].account = a /\ snapshot[q].day = day /\ snapshot[q] # NoSnapshot
        BY <1>5, <2>1, <3>1, <3>3 DEF SnapshotsOf
      <4>2. snapshot[q].number <= N /\ snapshot[q].number \in Nat
        BY <4>1, ExistingRows DEF NumberInv, NumberedUpToCount, N
      <4>3. snapshot'[r].number > snapshot'[q].number
        BY <1>1, <1>3, <1>4, <3>1, <4>2 DEF Keeps, N
      <4> QED
        BY <1>3, <1>4, <3>1, <4>1, <4>3 DEF Keeps
    <3> QED
      BY <3>2, <3>3
  <2> QED
    BY <2>1 DEF SupersededIsReplaced, SnapshotsOf
<1> QED
  BY <1>9, <1>10 DEF NumberInv

\* Submitting and deciding change the status of one row, and supersede none.
LEMMA StatusKeepsNumbers ==
  ASSUME SnapshotInv, NumberInv, NEW r \in Snapshots, snapshot[r] # NoSnapshot,
         NEW st \in Statuses \ {"SUPERSEDED"},
         snapshot' = [snapshot EXCEPT ![r] = [snapshot[r] EXCEPT !.status = st]]
  PROVE  NumberInv'
<1>1. snapshot = [q \in Snapshots |-> snapshot[q]] /\ IsRow(snapshot[r])
  BY DEF SnapshotInv, Rows
<1>2. /\ snapshot'[r] = [snapshot[r] EXCEPT !.status = st]
      /\ \A q \in Snapshots : q # r => snapshot'[q] = snapshot[q]
  BY <1>1
<1> DEFINE t == [snapshot[r] EXCEPT !.status = st]
<1>0. /\ t.status = st /\ t.account = snapshot[r].account /\ t.day = snapshot[r].day
      /\ t.number = snapshot[r].number
  BY <1>1, StatusChange
<1> HIDE DEF t
<1>3. /\ snapshot'[r].status = st
      /\ snapshot'[r].account = snapshot[r].account
      /\ snapshot'[r].day = snapshot[r].day
      /\ snapshot'[r].number = snapshot[r].number
  BY <1>0, <1>2 DEF t
<1>4. snapshot'[r] # NoSnapshot
  BY <1>3 DEF Statuses, NoSnapshot
<1>5. Keeps(r)
  BY <1>3, <1>4 DEF Keeps
<1>6. \A q \in Snapshots : Keeps(q)
  BY <1>2, <1>5 DEF Keeps
<1>7. \A q \in Snapshots : snapshot'[q].status = "SUPERSEDED" => snapshot[q].status = "SUPERSEDED"
  BY <1>2, <1>3
<1> QED
  BY <1>6, <1>7, KeptNumbers

LEMMA StepKeepsNumbers == SnapshotInv /\ NumberInv /\ [Next]_vars => NumberInv'
<1> SUFFICES ASSUME SnapshotInv, NumberInv, [Next]_vars PROVE NumberInv'
  OBVIOUS
<1>1. CASE UNCHANGED reconciliationVars
  <2>1. snapshot' = snapshot
    BY <1>1 DEF reconciliationVars
  <2>2. /\ \A q \in Snapshots : Keeps(q)
        /\ \A q \in Snapshots : snapshot'[q].status = "SUPERSEDED" => snapshot[q].status = "SUPERSEDED"
    BY <2>1 DEF Keeps
  <2> QED
    BY <2>2, KeptNumbers
<1>2. ASSUME NEW r \in Snapshots, NEW a \in Accounts, NEW day \in Days, NEW bank \in BankBalances,
             CreateDraft(r, a, day, bank)
      PROVE  NumberInv'
  BY <1>2, DraftNumbers
<1>3. ASSUME NEW r \in Snapshots, Submit(r) PROVE NumberInv'
  <2>1. PICK st \in {"MATCHED", "DISCREPANCY"} : st = Outcome(r)
    BY DEF Outcome
  <2>2. /\ st \in Statuses \ {"SUPERSEDED"} /\ snapshot[r] # NoSnapshot
        /\ snapshot' = [snapshot EXCEPT ![r] = [snapshot[r] EXCEPT !.status = st]]
    BY <1>3, <2>1 DEF Submit, Statuses, NoSnapshot
  <2> QED
    BY <2>2, StatusKeepsNumbers
<1>4. ASSUME NEW r \in Snapshots, NEW st \in {"APPROVED", "RETURNED"}, Decide(r, st) PROVE NumberInv'
  <2>1. /\ st \in Statuses \ {"SUPERSEDED"} /\ snapshot[r] # NoSnapshot
        /\ snapshot' = [snapshot EXCEPT ![r] = [snapshot[r] EXCEPT !.status = st]]
    BY <1>4 DEF Decide, Decidable, Statuses, NoSnapshot
  <2> QED
    BY <2>1, StatusKeepsNumbers
<1>5. UNCHANGED vars => UNCHANGED reconciliationVars
  BY DEF vars
<1>6. \A i, type, m, day, cites : CorrectWithEvidence(i, type, m, day, cites) => UNCHANGED reconciliationVars
  BY DEF CorrectWithEvidence
<1> QED
  BY <1>1, <1>2, <1>3, <1>4, <1>5, <1>6 DEF Next

\* Numbers never exceed the count of an account and day, so the next draft
\* always has a later one than the snapshot it supersedes.
THEOREM ReconciliationNumbers == Spec => []SupersededIsReplaced
<1>1. Init => SnapshotInv /\ NumberInv
  BY InitialSnapshots
<1>2. SnapshotInv /\ NumberInv /\ [Next]_vars => SnapshotInv' /\ NumberInv'
  BY StepChangesRows, RowsChangeKeepsInvariant, StepKeepsNumbers
<1>3. NumberInv => SupersededIsReplaced
  BY DEF NumberInv
<1> QED
  BY <1>1, <1>2, <1>3, PTL DEF Spec

-----------------------------------------------------------------------------
(* Evidence.                                                               *)

\* What an entry may be after a step: one that was there, or one that cites
\* nothing, or one that cites a reconciliation of its account.
KeptOrValid(b, k) ==
  \/ k \in DOMAIN ledger[b] /\ ledger'[b][k] = ledger[b][k]
  \/ ledger'[b][k].cites = None
  \/ snapshot[ledger'[b][k].cites].account = b

LEMMA PostedIsLast ==
  ASSUME LedgerTypeOK, NEW a \in Accounts, NEW e, Post(a, e), e.cites = None \/ snapshot[e.cites].account = a,
         NEW b \in Accounts, NEW k \in DOMAIN ledger'[b]
  PROVE  KeptOrValid(b, k)
<1> DEFINE x == [type |-> e.type, delta |-> e.delta, day |-> e.day, source |-> e.source,
                 reverses |-> e.reverses, cites |-> e.cites, running |-> BalanceAfter(a, e)]
<1>1. ledger \in [Accounts -> Seq(Entries)] /\ x.cites = e.cites
  BY DEF LedgerTypeOK
<1>2. ledger' = [ledger EXCEPT ![a] = Append(ledger[a], x)]
  BY DEF Post
<1> HIDE DEF x
<1>3. CASE b # a
  BY <1>1, <1>2, <1>3 DEF KeptOrValid
<1>4. CASE b = a
  <2>1. ledger'[a] = Append(ledger[a], x) /\ ledger[a] \in Seq(Entries)
    BY <1>1, <1>2
  <2>2. /\ DOMAIN ledger'[a] = 1..Len(ledger[a]) + 1
        /\ DOMAIN ledger[a] = 1..Len(ledger[a]) /\ Len(ledger[a]) \in Nat
        /\ \A n \in 1..Len(ledger[a]) : ledger'[a][n] = ledger[a][n]
        /\ ledger'[a][Len(ledger[a]) + 1] = x
    BY <2>1
  <2>3. CASE k \in 1..Len(ledger[a])
    BY <1>4, <2>2, <2>3 DEF KeptOrValid
  <2>4. CASE k = Len(ledger[a]) + 1
    BY <1>1, <1>4, <2>2, <2>4 DEF KeptOrValid
  <2> QED
    BY <1>4, <2>2, <2>3, <2>4
<1> QED
  BY <1>3, <1>4

LEMMA OperationCites ==
  ASSUME LedgerTypeOK, NEW i \in Requests, NEW type, NEW d, NEW day, NEW k, NEW cites,
         Operation(i, type, d, day, k, cites), EvidenceValid(form[i].account, cites),
         NEW b \in Accounts, NEW n \in DOMAIN ledger'[b]
  PROVE  KeptOrValid(b, n)
<1> DEFINE e == [type |-> type, delta |-> d, day |-> day, source |-> i, reverses |-> k, cites |-> cites]
<1>1. form[i].account \in Accounts /\ Post(form[i].account, e)
  BY DEF Operation, LedgerTypeOK
<1>2. e.cites = None \/ snapshot[e.cites].account = form[i].account
  BY DEF EvidenceValid
<1> HIDE DEF e
<1> QED
  BY <1>1, <1>2, PostedIsLast

LEMMA StepKeepsCites ==
  ASSUME LedgerTypeOK, [Next]_vars, NEW b \in Accounts, NEW n \in DOMAIN ledger'[b]
  PROVE  KeptOrValid(b, n)
<1>1. CASE ledger' = ledger
  BY <1>1 DEF KeptOrValid
<1>2. ASSUME NEW p \in Payments, NEW a \in Accounts, NEW m \in Amounts, NEW day \in Days,
             PostVerified(p, a, m, day)
      PROVE  KeptOrValid(b, n)
  <2> DEFINE e == [type |-> "VERIFIED_DEPOSIT", delta |-> Signed("VERIFIED_DEPOSIT", m), day |-> day,
                   source |-> p, reverses |-> 0, cites |-> None]
  <2>1. Post(a, e) /\ e.cites = None
    BY <1>2 DEF PostVerified
  <2> HIDE DEF e
  <2> QED
    BY <2>1, PostedIsLast
<1>3. \A a : EvidenceValid(a, None)
  BY DEF EvidenceValid
<1>4. ASSUME NEW i \in Requests, NEW m \in Amounts, NEW day \in Days,
             CreateDeposit(i, m, day) \/ CreateWithdrawal(i, m, day)
      PROVE  KeptOrValid(b, n)
  BY <1>3, <1>4, OperationCites DEF CreateDeposit, CreateWithdrawal
<1>5. ASSUME NEW i \in Requests, NEW day \in Days, NEW k, ApproveReversal(i, k, day)
      PROVE  KeptOrValid(b, n)
  BY <1>3, <1>5, OperationCites DEF ApproveReversal
<1>6. ASSUME NEW i \in Requests, NEW type \in Corrections, NEW m \in Amounts, NEW day \in Days,
             NEW cites \in Evidence \cup {None}, CorrectWithEvidence(i, type, m, day, cites)
      PROVE  KeptOrValid(b, n)
  BY <1>6, OperationCites DEF CorrectWithEvidence, CreateCorrection
<1>7. ASSUME LedgerStep PROVE KeptOrValid(b, n)
  <2>1. (\/ \E a \in Accounts, o \in Openings : OpenAccount(a, o)
         \/ \E a \in Accounts : Deactivate(a)
         \/ \E i \in Requests, a \in Accounts : Ask(i, a)
         \/ \E i \in Requests : LockScope(i) \/ EndWithin(i)) => ledger' = ledger
    BY DEF OpenAccount, Deactivate, Ask, LockScope, EndWithin
  <2> QED
    BY <1>1, <1>2, <1>4, <1>5, <1>7, <2>1 DEF LedgerStep
<1>8. (\/ \E r \in Snapshots, a \in Accounts, day \in Days, bank \in BankBalances : CreateDraft(r, a, day, bank)
       \/ \E r \in Snapshots : Submit(r) \/ Decide(r, "APPROVED") \/ Decide(r, "RETURNED")
       \/ UNCHANGED vars) => ledger' = ledger
  BY DEF CreateDraft, Submit, Decide, vars, ledgerVars
<1> QED
  BY <1>1, <1>6, <1>7, <1>8 DEF Next

\* A snapshot keeps its account, so what a correction was checked against stays true.
LEMMA CitesInvariant ==
  SnapshotInv /\ LedgerTypeOK /\ LedgerTypeOK' /\ CorrectionsCiteTheirAccount /\ [Next]_vars
    => CorrectionsCiteTheirAccount'
<1> SUFFICES ASSUME SnapshotInv, LedgerTypeOK, LedgerTypeOK', CorrectionsCiteTheirAccount, [Next]_vars,
                    NEW b \in Accounts, NEW k \in DOMAIN ledger'[b], ledger'[b][k].cites # None
             PROVE  snapshot'[ledger'[b][k].cites].account = b
  BY DEF CorrectionsCiteTheirAccount
<1> DEFINE r == ledger'[b][k].cites
<1>1. r \in Snapshots
  <2>1. ledger'[b] \in Seq(Entries)
    BY DEF LedgerTypeOK
  <2>2. ledger'[b][k] \in Entries
    BY <2>1
  <2> QED
    BY <2>2 DEF Entries, Snapshots
<1>2. snapshot[r].account = b
  BY StepKeepsCites DEF KeptOrValid, CorrectionsCiteTheirAccount
<1> HIDE DEF r
<1>3. snapshot[r] # NoSnapshot
  BY <1>2, NoneAssumption DEF NoSnapshot
<1>4. Same(r) \/ Moved(r)
  BY <1>1, <1>3, StepChangesRows DEF RowsChange, Drafted
<1>5. snapshot'[r].account = snapshot[r].account
  BY <1>1, <1>4, MovedKeeps DEF Keeps
<1> QED
  BY <1>2, <1>5 DEF r

\* The evidence of a posted correction is a reconciliation of its account.
THEOREM ReconciliationEvidence == Spec => []CorrectionsCiteTheirAccount
<1>1. Init => CorrectionsCiteTheirAccount
  BY DEF Init, LedgerInit, CorrectionsCiteTheirAccount
<1>2. Spec => []LedgerTypeOK
  BY ReconciliationKeepsLedger, LedgerTypeCorrect, PTL
<1> QED
  BY <1>1, <1>2, SnapshotInvariant, CitesInvariant, PTL DEF Spec

-----------------------------------------------------------------------------
(* The sums of a draft.                                                    *)

Deltas(a, ks) == [k \in ks |-> ledger[a][k].delta]

LEMMA EntryDeltas ==
  ASSUME LedgerTypeOK, NEW a \in Accounts
  PROVE  /\ ledger[a] \in Seq(Entries) /\ Len(ledger[a]) \in Nat
         /\ DOMAIN ledger[a] = 1..Len(ledger[a]) /\ IsFiniteSet(DOMAIN ledger[a])
         /\ \A k \in DOMAIN ledger[a] : ledger[a][k].delta \in Int
<1>1. ledger[a] \in Seq(Entries)
  BY DEF LedgerTypeOK
<1>2. Len(ledger[a]) \in Nat /\ DOMAIN ledger[a] = 1..Len(ledger[a])
  BY <1>1
<1>3. \A k \in DOMAIN ledger[a] : ledger[a][k] \in Entries
  BY <1>1, <1>2
<1>4. \A k \in DOMAIN ledger[a] : ledger[a][k].delta \in Int
  BY <1>3 DEF Entries
<1>5. IsFiniteSet(1..Len(ledger[a]))
  BY <1>2, FS_Interval
<1> QED
  BY <1>1, <1>2, <1>4, <1>5

LEMMA SumIsInt ==
  ASSUME LedgerTypeOK, NEW a \in Accounts, NEW ks \in SUBSET DOMAIN ledger[a]
  PROVE  SumOf(a, ks) \in Int
<1>1. PICK f : f = Deltas(a, ks)
  OBVIOUS
<1>2. IsFiniteSet(ks) /\ \A k \in ks : f[k] \in Int
  BY <1>1, EntryDeltas, FS_Subset DEF Deltas
<1>3. SumFunctionOnSet(f, ks) \in Int
  BY <1>2, SumIsNumber
<1>4. SumOf(a, ks) = SumFunctionOnSet(f, ks)
  BY <1>1 DEF SumOf, SumFunction, Deltas
<1> QED
  BY <1>3, <1>4

\* The sum of the first entries of an account, one by one.
LEMMA NextEntry ==
  ASSUME LedgerTypeOK, NEW a \in Accounts, NEW n \in DOMAIN ledger[a]
  PROVE  SumOf(a, 1..n) = ledger[a][n].delta + SumOf(a, 1..(n - 1))
<1>1. PICK f, g : f = Deltas(a, 1..n) /\ g = Deltas(a, 1..(n - 1))
  OBVIOUS
<1>2. /\ n \in Nat /\ n > 0 /\ n \in 1..n /\ (1..n) \ {n} = 1..(n - 1)
      /\ 1..n \subseteq DOMAIN ledger[a]
  BY EntryDeltas
<1>3. IsFiniteSet(1..n) /\ IsFiniteSet(1..(n - 1))
  <2>1. 1 \in Int /\ n \in Int /\ n - 1 \in Int
    BY <1>2
  <2> QED
    BY <2>1, FS_Interval
<1>4. /\ \A k \in 1..n : f[k] \in Int
      /\ \A k \in 1..(n - 1) : f[k] = g[k]
      /\ f[n] = ledger[a][n].delta
  BY <1>1, <1>2, EntryDeltas DEF Deltas
<1>5. SumFunctionOnSet(f, 1..n) = f[n] + SumFunctionOnSet(f, (1..n) \ {n})
  BY <1>2, <1>3, <1>4, SumWithout
<1>6. SumFunctionOnSet(f, 1..(n - 1)) = SumFunctionOnSet(g, 1..(n - 1))
  BY <1>3, <1>4, SumOfEqual
<1>7. SumOf(a, 1..n) = SumFunctionOnSet(f, 1..n) /\ SumOf(a, 1..(n - 1)) = SumFunctionOnSet(g, 1..(n - 1))
  BY <1>1 DEF SumOf, SumFunction, Deltas
<1> QED
  BY <1>2, <1>4, <1>5, <1>6, <1>7

\* The entries up to one add up to its running balance: the least number for which they do not
\* would be a break of the chain.
LEMMA RunningIsSum ==
  ASSUME LedgerTypeOK, BalancesChain, NEW a \in Accounts, NEW n \in 0..Len(ledger[a])
  PROVE  SumOf(a, 1..n) + account[a].opening = Before(a, n + 1)
<1> DEFINE Adds(m) == SumOf(a, 1..m) + account[a].opening = Before(a, m + 1)
           S == {m \in 0..Len(ledger[a]) : ~Adds(m)}
<1>1. Len(ledger[a]) \in Nat /\ DOMAIN ledger[a] = 1..Len(ledger[a])
  BY EntryDeltas
<1>2. account[a].opening \in Nat
  BY DEF LedgerTypeOK
<1>3. Adds(0)
  <2>1. SumOf(a, 1..0) = 0
    <3>1. PICK f : f = Deltas(a, {})
      OBVIOUS
    <3>2. SumFunctionOnSet(f, {}) = 0
      BY SumOfNothing
    <3>3. 1..0 = {}
      OBVIOUS
    <3> QED
      BY <3>1, <3>2, <3>3 DEF SumOf, SumFunction, Deltas
  <2>2. Before(a, 1) = account[a].opening
    BY DEF Before
  <2> QED
    BY <1>2, <2>1, <2>2
<1>4. ASSUME NEW m \in 1..Len(ledger[a]), Adds(m - 1) PROVE Adds(m)
  <2>1. ledger[a][m].running = Before(a, m) + ledger[a][m].delta
    BY <1>1 DEF BalancesChain
  <2>2. Before(a, m + 1) = ledger[a][m].running
    <3>1. m + 1 # 1 /\ (m + 1) - 1 = m
      BY <1>1
    <3> QED
      BY <3>1 DEF Before
  <2>3. Before(a, (m - 1) + 1) = Before(a, m)
    <3>1. (m - 1) + 1 = m
      BY <1>1
    <3> QED
      BY <3>1
  <2>4. SumOf(a, 1..m) = ledger[a][m].delta + SumOf(a, 1..(m - 1))
    BY <1>1, NextEntry
  <2>5. SumOf(a, 1..(m - 1)) \in Int /\ ledger[a][m].delta \in Int
    <3>1. 1..(m - 1) \in SUBSET DOMAIN ledger[a]
      BY <1>1
    <3> QED
      BY <1>1, <3>1, SumIsInt, EntryDeltas
  <2>6. SumOf(a, 1..(m - 1)) + account[a].opening = Before(a, m)
    BY <1>4, <2>3
  <2> QED
    BY <1>2, <2>1, <2>2, <2>4, <2>5, <2>6
<1> HIDE DEF Adds
<1>5. S = {}
  <2> SUFFICES ASSUME S # {} PROVE FALSE
    OBVIOUS
  <2>1. S \in SUBSET Nat
    BY <1>1
  <2>2. PICK m \in S : \A k \in S : m <= k
    <3> HIDE DEF S
    <3> QED
      BY <2>1, LeastNumber
  <2>3. m \in 0..Len(ledger[a]) /\ ~Adds(m)
    BY <2>2
  <2>4. m # 0
    BY <1>3, <2>3
  <2>5. m - 1 \in 0..Len(ledger[a]) /\ m \in 1..Len(ledger[a]) /\ ~(m <= m - 1)
    BY <1>1, <2>3, <2>4
  <2>6. Adds(m - 1)
    BY <2>2, <2>5
  <2> QED
    BY <1>4, <2>3, <2>5, <2>6
<1>6. Adds(n)
  BY <1>5
<1> QED
  BY <1>6 DEF Adds

\* All entries of an account and its opening balance are its calculated balance.
LEMMA EntriesAreBalance ==
  ASSUME LedgerTypeOK, BalancesChain, NEW a \in Accounts
  PROVE  SumOf(a, DOMAIN ledger[a]) + account[a].opening = account[a].balance
<1>1. Len(ledger[a]) \in 0..Len(ledger[a]) /\ DOMAIN ledger[a] = 1..Len(ledger[a])
  BY EntryDeltas
<1>2. account[a].balance = Before(a, Len(ledger[a]) + 1)
  BY DEF BalancesChain
<1> QED
  BY <1>1, <1>2, RunningIsSum

-----------------------------------------------------------------------------
(* The numbers of a row.                                                   *)

SnapshotRows ==
  [status : Statuses \cup {"none"}, account : Accounts \cup {None}, day : Days \cup {0},
   number : Nat, opening : Int, totals : [Types -> Int], calculated : Int, difference : Int]

\* Rows of the table are typed, and those with a history are numbered.
RowsTyped ==
  \A r \in Snapshots :
    snapshot[r] \in SnapshotRows /\ (history[r] # <<>> => snapshot[r].number > 0)

LEMMA DraftIsTyped ==
  ASSUME LedgerTypeOK, NEW a \in Accounts, NEW day \in Days, NEW bank \in BankBalances
  PROVE  Draft(a, day, bank) \in SnapshotRows /\ Draft(a, day, bank).number > 0
<1>1. /\ SumOf(a, Until(a, day)) \in Int /\ SumOf(a, Earlier(a, day)) \in Int
      /\ \A t \in Types : SumOf(a, Within(a, day, t)) \in Int
  <2>1. /\ Until(a, day) \in SUBSET DOMAIN ledger[a] /\ Earlier(a, day) \in SUBSET DOMAIN ledger[a]
        /\ \A t \in Types : Within(a, day, t) \in SUBSET DOMAIN ledger[a]
    BY DEF Until, Earlier, Within
  <2> QED
    BY <2>1, SumIsInt
<1>2. bank - Calculated(a, day) \in Int
  BY <1>1, BankAssumption DEF Calculated
<1>3. [t \in Types |-> SumOf(a, Within(a, day, t))] \in [Types -> Int]
  BY <1>1
<1>4. NextNumber(a, day) \in Nat /\ NextNumber(a, day) > 0
  BY CountIsNat DEF NextNumber
<1> QED
  BY <1>1, <1>2, <1>3, <1>4 DEF Draft, SnapshotRows, Calculated, Statuses

LEMMA StatusIsTyped ==
  ASSUME NEW s \in SnapshotRows, NEW st \in Statuses
  PROVE  [s EXCEPT !.status = st] \in SnapshotRows /\ [s EXCEPT !.status = st].number = s.number
BY DEF SnapshotRows

\* What a step may do to a row, in numbers: a row that moves keeps them.
LEMMA DraftsAreTyped ==
  ASSUME LedgerTypeOK, SnapshotInv, [Next]_vars, NEW q \in Snapshots, Drafted(q)
  PROVE  \E a \in Accounts, day \in Days, bank \in BankBalances : snapshot'[q] = Draft(a, day, bank)
<1>1. snapshot[q] = NoSnapshot /\ snapshot'[q].status = "DRAFT" /\ snapshot'[q] # snapshot[q]
  BY DEF Drafted, NoSnapshot
<1>2. snapshot = [r \in Snapshots |-> snapshot[r]] /\ history \in [Snapshots -> Seq(Statuses)]
  BY DEF SnapshotInv, Rows
<1>3. ASSUME NEW r \in Snapshots, Submit(r) \/ Decide(r, "APPROVED") \/ Decide(r, "RETURNED")
      PROVE  FALSE
  <2>1. r # q
    BY <1>1, <1>3 DEF Submit, Decide, Decidable, NoSnapshot
  <2>2. snapshot'[q] = snapshot[q]
    BY <1>2, <1>3, <2>1 DEF Submit, Decide
  <2> QED
    BY <1>1, <2>2
<1>4. ASSUME NEW r \in Snapshots, NEW a \in Accounts, NEW day \in Days, NEW bank \in BankBalances,
             CreateDraft(r, a, day, bank)
      PROVE  snapshot'[q] = Draft(a, day, bank)
  <2>1. snapshot' = [Superseded(a, day) EXCEPT ![r] = Draft(a, day, bank)]
    BY <1>4 DEF CreateDraft
  <2>2. Superseded(a, day)[q] = snapshot[q] /\ DOMAIN Superseded(a, day) = Snapshots
    <3>1. q \notin LastReturned(a, day)
      BY <1>1 DEF LastReturned, NoSnapshot
    <3> QED
      BY <3>1 DEF Superseded
  <2>3. CASE q = r
    BY <2>1, <2>2, <2>3
  <2>4. CASE q # r
    <3>1. snapshot'[q] = snapshot[q]
      BY <2>1, <2>2, <2>4
    <3> QED
      BY <1>1, <3>1
  <2> QED
    BY <2>3, <2>4
<1> QED
  BY <1>1, <1>3, <1>4 DEF Next, reconciliationVars, vars, CorrectWithEvidence

LEMMA RowsStayTyped ==
  SnapshotInv /\ LedgerTypeOK /\ RowsTyped /\ [Next]_vars => RowsTyped'
<1> SUFFICES ASSUME SnapshotInv, LedgerTypeOK, RowsTyped, [Next]_vars, NEW q \in Snapshots
             PROVE  snapshot'[q] \in SnapshotRows /\ (history'[q] # <<>> => snapshot'[q].number > 0)
  BY DEF RowsTyped
<1>1. Same(q) \/ Moved(q) \/ Drafted(q)
  BY StepChangesRows DEF RowsChange
<1>2. CASE Same(q)
  BY <1>2 DEF Same, RowsTyped
<1>3. CASE Moved(q)
  <2>1. PICK st \in Statuses : snapshot'[q] = [snapshot[q] EXCEPT !.status = st]
    BY <1>3 DEF Moved
  <2>2. history[q] # <<>> /\ snapshot[q] \in SnapshotRows
    BY <1>3 DEF Moved, SnapshotInv, Rows, RowsTyped
  <2> QED
    BY <2>1, <2>2, StatusIsTyped DEF RowsTyped
<1>4. CASE Drafted(q)
  BY <1>4, DraftsAreTyped, DraftIsTyped
<1> QED
  BY <1>1, <1>2, <1>3, <1>4

LEMMA RowsStartTyped == Init => RowsTyped
<1> SUFFICES ASSUME Init, NEW r \in Snapshots
             PROVE  snapshot[r] \in SnapshotRows /\ history[r] = <<>>
  BY DEF RowsTyped
<1>1. snapshot[r] = NoSnapshot /\ history[r] = <<>>
  BY DEF Init
<1>2. NoSnapshot \in SnapshotRows
  BY DEF NoSnapshot, SnapshotRows
<1> QED
  BY <1>1, <1>2

\* Both tables are typed, and a snapshot exists exactly when it has a history.
THEOREM ReconciliationTypeCorrect == Spec => []TypeOK
<1>1. Spec => []LedgerTypeOK
  BY ReconciliationKeepsLedger, LedgerTypeCorrect, PTL
<1>2. LedgerTypeOK /\ SnapshotInv /\ RowsTyped => TypeOK
  <2> SUFFICES ASSUME LedgerTypeOK, SnapshotInv, RowsTyped PROVE TypeOK
    OBVIOUS
  <2>1. snapshot \in [Snapshots -> SnapshotRows]
    BY DEF SnapshotInv, Rows, RowsTyped
  <2>2. \A r \in Snapshots : IF history[r] = <<>> THEN snapshot[r] = NoSnapshot
                                                  ELSE snapshot[r].number > 0
    BY DEF SnapshotInv, Rows, RowsTyped
  <2>3. history \in [Snapshots -> Seq(Statuses)]
    BY DEF SnapshotInv, Rows
  <2> QED
    BY <2>1, <2>2, <2>3 DEF TypeOK, SnapshotRows
<1> QED
  BY <1>1, <1>2, SnapshotInvariant, RowsStartTyped, RowsStayTyped, PTL DEF Spec

LEMMA TypesAreFinite == IsFiniteSet(Types)
<1>1. \A x : IsFiniteSet({x})
  BY FS_Singleton
<1>2. /\ {"VERIFIED_DEPOSIT", "MANUAL_DEPOSIT", "POSITIVE_CORRECTION"} =
           {"VERIFIED_DEPOSIT"} \cup ({"MANUAL_DEPOSIT"} \cup {"POSITIVE_CORRECTION"})
      /\ {"WITHDRAWAL", "NEGATIVE_CORRECTION"} = {"WITHDRAWAL"} \cup {"NEGATIVE_CORRECTION"}
  OBVIOUS
<1>3. IsFiniteSet({"MANUAL_DEPOSIT"} \cup {"POSITIVE_CORRECTION"})
  BY <1>1, FS_Union
<1>4. IsFiniteSet(Credits) /\ IsFiniteSet(Debits)
  <2>1. IsFiniteSet({"VERIFIED_DEPOSIT"} \cup ({"MANUAL_DEPOSIT"} \cup {"POSITIVE_CORRECTION"}))
    BY <1>1, <1>3, FS_Union
  <2>2. IsFiniteSet({"WITHDRAWAL"} \cup {"NEGATIVE_CORRECTION"})
    BY <1>1, FS_Union
  <2> QED
    BY <1>2, <2>1, <2>2 DEF Credits, Debits
<1>5. IsFiniteSet(Credits \cup Debits)
  BY <1>4, FS_Union
<1> QED
  BY <1>1, <1>5, FS_Union DEF Types

\* Every entry before the close of a day is in one category of its draft: an earlier one in the
\* opening balance, one of the day in the total of its type.
LEMMA DraftAddsUp ==
  ASSUME LedgerTypeOK, NEW a \in Accounts, NEW day \in Days, NEW bank
  PROVE  LET d == Draft(a, day, bank) IN d.calculated = d.opening + SumFunction(d.totals)
<1>1. PICK until, earlier, today :
        /\ until = Until(a, day) /\ earlier = Earlier(a, day)
        /\ today = {k \in DOMAIN ledger[a] : ledger[a][k].day = day}
  OBVIOUS
<1>2. \A k \in DOMAIN ledger[a] :
        ledger[a][k].day \in Int /\ ledger[a][k].type \in Types /\ ledger[a][k].delta \in Int
  <2>1. \A k \in DOMAIN ledger[a] : ledger[a][k] \in Entries
    BY EntryDeltas
  <2>2. Days \subseteq Int
    BY DaysAssumption
  <2> QED
    BY <2>1, <2>2 DEF Entries
<1>3. day \in Int
  BY DaysAssumption
<1>4. until \in SUBSET DOMAIN ledger[a] /\ earlier \in SUBSET until /\ today = until \ earlier
  <2>1. until = {k \in DOMAIN ledger[a] : ledger[a][k].day <= day}
    BY <1>1 DEF Until
  <2>2. earlier = {k \in DOMAIN ledger[a] : ledger[a][k].day < day}
    BY <1>1 DEF Earlier
  <2>3. ASSUME NEW k \in DOMAIN ledger[a]
        PROVE  /\ k \in earlier => k \in until
               /\ k \in today <=> k \in until /\ k \notin earlier
    BY <1>1, <1>2, <1>3, <2>1, <2>2
  <2> QED
    BY <1>1, <2>1, <2>2, <2>3
<1>5. /\ IsFiniteSet(until) /\ IsFiniteSet(earlier) /\ IsFiniteSet(today)
  <2>1. IsFiniteSet(DOMAIN ledger[a])
    BY EntryDeltas
  <2>2. IsFiniteSet(until)
    BY <1>4, <2>1, FS_Subset
  <2> QED
    BY <1>4, <2>2, FS_Subset
<1>6. PICK f : f = Deltas(a, until)
  OBVIOUS
<1>7. \A k \in until : f[k] = ledger[a][k].delta /\ f[k] \in Int
  BY <1>2, <1>4, <1>6 DEF Deltas
<1>8. SumFunctionOnSet(f, until) = SumFunctionOnSet(f, earlier) + SumFunctionOnSet(f, today)
  BY <1>4, <1>5, <1>7, SumOfPieces
<1>9. ASSUME NEW ks \in SUBSET until PROVE SumOf(a, ks) = SumFunctionOnSet(f, ks)
  <2>1. PICK h : h = Deltas(a, ks)
    OBVIOUS
  <2>2. IsFiniteSet(ks) /\ \A k \in ks : h[k] = f[k]
    BY <1>5, <1>7, <2>1, FS_Subset DEF Deltas
  <2>3. SumFunctionOnSet(h, ks) = SumFunctionOnSet(f, ks)
    BY <2>2, SumOfEqual
  <2>4. SumOf(a, ks) = SumFunctionOnSet(h, ks)
    BY <2>1 DEF SumOf, SumFunction, Deltas
  <2> QED
    BY <2>3, <2>4
<1>10. PICK class, part, g :
         /\ class = [k \in today |-> ledger[a][k].type]
         /\ part = [t \in Types |-> Within(a, day, t)]
         /\ g = [t \in Types |-> SumOf(a, Within(a, day, t))]
  OBVIOUS
<1>11. \A k \in today : class[k] \in Types /\ f[k] \in Int
  BY <1>2, <1>4, <1>7, <1>10
<1>12. ASSUME NEW t \in Types
       PROVE  /\ \A k : k \in part[t] <=> k \in today /\ class[k] = t
              /\ g[t] = SumFunctionOnSet(f, part[t])
  <2>1. \A k : k \in part[t] <=> k \in today /\ class[k] = t
    BY <1>1, <1>10 DEF Within
  <2>2. part[t] = Within(a, day, t) /\ part[t] \in SUBSET until
    BY <1>4, <1>10, <2>1
  <2> QED
    BY <1>9, <1>10, <2>1, <2>2
<1>13. SumFunctionOnSet(f, today) = SumFunctionOnSet(g, Types)
  BY <1>5, <1>11, <1>12, TypesAreFinite, SumOfClasses
<1>14. SumOf(a, until) = SumOf(a, earlier) + SumFunction(g)
  <2>1. SumFunction(g) = SumFunctionOnSet(g, Types)
    BY <1>10 DEF SumFunction
  <2>2. SumOf(a, until) = SumFunctionOnSet(f, until) /\ SumOf(a, earlier) = SumFunctionOnSet(f, earlier)
    BY <1>4, <1>9
  <2> QED
    BY <1>8, <1>13, <2>1, <2>2
<1>15. /\ Draft(a, day, bank).calculated = SumOf(a, until)
       /\ Draft(a, day, bank).opening = SumOf(a, earlier) /\ Draft(a, day, bank).totals = g
  BY <1>1, <1>10 DEF Draft, Calculated
<1> QED
  BY <1>14, <1>15

\* A draft's opening balance and totals count each entry before the close once; one that covers
\* all entries of its account is off the account's calculated balance by the account's opening
\* balance, and by nothing else (calculateTotals).
THEOREM ReconciliationFollowsAccount == Spec => SnapshotFollowsAccount
<1>1. Spec => [](LedgerTypeOK /\ BalancesChain)
  BY ReconciliationKeepsLedger, LedgerTypeCorrect, LedgerBalancesChain, PTL
<1>2. SnapshotInv /\ LedgerTypeOK /\ BalancesChain /\ [Next]_vars =>
        [\A r \in Snapshots :
           snapshot[r] = NoSnapshot /\ snapshot'[r] # NoSnapshot =>
             LET s == snapshot'[r] IN
             /\ s.calculated = s.opening + SumFunction(s.totals)
             /\ (Until(s.account, s.day) = DOMAIN ledger[s.account]) =>
                  s.calculated + account[s.account].opening = account[s.account].balance]_snapshot
  <2> SUFFICES ASSUME SnapshotInv, LedgerTypeOK, BalancesChain, [Next]_vars, NEW r \in Snapshots,
                      snapshot[r] = NoSnapshot, snapshot'[r] # NoSnapshot, NEW s, s = snapshot'[r]
               PROVE  /\ s.calculated = s.opening + SumFunction(s.totals)
                      /\ (Until(s.account, s.day) = DOMAIN ledger[s.account]) =>
                           s.calculated + account[s.account].opening = account[s.account].balance
    OBVIOUS
  <2>1. Drafted(r)
    BY StepChangesRows DEF RowsChange, Same, Moved
  <2>2. PICK a \in Accounts, day \in Days, bank \in BankBalances : s = Draft(a, day, bank)
    BY <2>1, DraftsAreTyped
  <2>3. s.account = a /\ s.day = day /\ s.calculated = SumOf(a, Until(a, day))
    BY <2>2 DEF Draft, Calculated
  <2>4. s.calculated = s.opening + SumFunction(s.totals)
    BY <2>2, DraftAddsUp
  <2> QED
    BY <2>3, <2>4, EntriesAreBalance
<1> QED
  BY <1>1, <1>2, SnapshotInvariant, PTL DEF Spec, SnapshotFollowsAccount

LEMMA NothingAddsUp == NoSnapshot.calculated = NoSnapshot.opening + SumFunction(NoSnapshot.totals)
<1>1. PICK f : f = [t \in Types |-> 0]
  OBVIOUS
<1>2. NoSnapshot.calculated = 0 /\ NoSnapshot.opening = 0 /\ NoSnapshot.totals = f
  BY <1>1 DEF NoSnapshot
<1>3. SumFunctionOnSet(f, Types) = 0
  BY <1>1, TypesAreFinite, SumOfZeros
<1> QED
  BY <1>1, <1>2, <1>3 DEF SumFunction

LEMMA RowsKeepAddingUp ==
  SnapshotInv /\ LedgerTypeOK /\ RowsTyped /\ CategoriesAddUp /\ [Next]_vars => CategoriesAddUp'
<1> SUFFICES ASSUME SnapshotInv, LedgerTypeOK, RowsTyped, CategoriesAddUp, [Next]_vars, NEW q \in Snapshots
             PROVE  snapshot'[q].calculated = snapshot'[q].opening + SumFunction(snapshot'[q].totals)
  BY DEF CategoriesAddUp
<1>1. Same(q) \/ Moved(q) \/ Drafted(q)
  BY StepChangesRows DEF RowsChange
<1>2. CASE Same(q)
  BY <1>2 DEF Same, CategoriesAddUp
<1>3. CASE Moved(q)
  <2>1. PICK st \in Statuses : snapshot'[q] = [snapshot[q] EXCEPT !.status = st]
    BY <1>3 DEF Moved
  <2>2. snapshot[q] \in SnapshotRows
    BY DEF RowsTyped
  <2>3. /\ snapshot'[q].calculated = snapshot[q].calculated
        /\ snapshot'[q].opening = snapshot[q].opening /\ snapshot'[q].totals = snapshot[q].totals
    BY <2>1, <2>2 DEF SnapshotRows
  <2> QED
    BY <2>3 DEF CategoriesAddUp
<1>4. CASE Drafted(q)
  BY <1>4, DraftsAreTyped, DraftAddsUp
<1> QED
  BY <1>1, <1>2, <1>3, <1>4

\* A snapshot's opening balance and the totals of its categories add up to its calculated balance
\* (calculateTotals).
THEOREM ReconciliationAddsUp == Spec => []CategoriesAddUp
<1>1. Spec => []LedgerTypeOK
  BY ReconciliationKeepsLedger, LedgerTypeCorrect, PTL
<1>2. Init => CategoriesAddUp
  BY NothingAddsUp DEF Init, CategoriesAddUp
<1> QED
  BY <1>1, <1>2, SnapshotInvariant, RowsStartTyped, RowsStayTyped, RowsKeepAddingUp, PTL DEF Spec
=============================================================================
