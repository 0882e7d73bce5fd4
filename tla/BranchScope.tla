---------------------------- MODULE BranchScope ----------------------------
(***************************************************************************)
(* Who may do and read what in a branch.  A request passes the session,    *)
(* the role and the branch of its access token first; the transaction of   *)
(* an operation reads the assignment again, in its first statement, and    *)
(* posts when it gets the lock it waits for.  Between any two of these the *)
(* person may be removed and the business suspended.  What an operation    *)
(* does to the money is SettlementLedger's and Reconciliation's.           *)
(***************************************************************************)
EXTENDS Naturals, FiniteSets

CONSTANTS
  Firms, Persons,  \* businesses, and people who work for them or for the platform
  Clients,         \* concurrent requests
  Nowhere,         \* SQL NULL
  MaxRecords       \* bound: rows that are written

ASSUME NowhereApart == Nowhere \notin Firms \cup {1, 2}
ASSUME RecordBound  == MaxRecords \in Nat

VARIABLES
  post,      \* role, business and branch of a person, as the access token carries them
  firm,      \* businesses.status
  request,   \* requests that write
  records,   \* the rows they have written
  answer     \* the answer to the last request, if that read

scopeVars == <<post, firm, request, records, answer>>

\* A branch belongs to a business.
Sites == Firms \X {1, 2}

Jobs ==
  [role : {"MANAGER", "CASHIER", "WAITER"}, site : Sites]
    \cup [role : {"PRIMARY_OWNER"}, site : Firms \X {Nowhere}]
    \cup [role : {"PLATFORM_SUPER_ADMIN"}, site : {<<Nowhere, Nowhere>>}]

NoRow == [op |-> "none"]
NoRequest == [step |-> "idle"]

NoAnswer == [by |-> Nowhere, query |-> "none", rows |-> {}]

ScopeInit ==
  /\ \E job \in [Persons -> Jobs] :
       post = [p \in Persons |-> [role |-> job[p].role, site |-> job[p].site, active |-> TRUE]]
  /\ firm    = [f \in Firms |-> "ACTIVE"]
  /\ request = [c \in Clients |-> NoRequest]
  /\ records = {}
  /\ answer  = NoAnswer
-----------------------------------------------------------------------------
(* What ends under a request: StaffAccess has the rest of it.              *)

Leave(p) ==
  /\ post[p].active /\ post[p].role \in {"MANAGER", "CASHIER", "WAITER"}
  /\ post' = [post EXCEPT ![p].active = FALSE]
  /\ UNCHANGED <<firm, request, records, answer>>

SetFirmStatus(f, status) ==
  /\ firm[f] # status
  /\ firm' = [firm EXCEPT ![f] = status]
  /\ UNCHANGED <<post, request, records, answer>>
-----------------------------------------------------------------------------
(* The guards of a request.                                                *)

Role(p)    == post[p].role
FirmOf(p)  == post[p].site[1]
IsAdmin(p) == Role(p) = "PLATFORM_SUPER_ADMIN"

\* AuthGuard: the session and what it rests on are active.
Authenticated(p) == post[p].active /\ (FirmOf(p) \in Firms => firm[FirmOf(p)] = "ACTIVE")

\* RolesGuard.
HasRole(p, roles) == Role(p) \in roles

\* assertCashier, assertManager: the role, and the branch of the token.
WorksAt(p, role, s) == HasRole(p, {role}) /\ post[p].site = s

\* The request is admitted: its transaction has not begun.
Admit(c, p, op, s, row) ==
  /\ request[c] = NoRequest /\ Authenticated(p)
  /\ request' = [request EXCEPT ![c] =
       [step |-> "admitted", op |-> op, by |-> p, site |-> s, row |-> row, inPost |-> FALSE]]
  /\ answer' = NoAnswer
  /\ UNCHANGED <<post, firm, records>>

Rows(op) == {r \in records : r.op = op}

AskDeposit(c, p, s)     == WorksAt(p, "CASHIER", s) /\ Admit(c, p, "deposit", s, NoRow)
AskWithdrawal(c, p, s)  == WorksAt(p, "CASHIER", s) /\ Admit(c, p, "withdrawal", s, NoRow)
AskCorrection(c, p, s)  == WorksAt(p, "MANAGER", s) /\ Admit(c, p, "correction", s, NoRow)
AskSnapshot(c, p, s)    == WorksAt(p, "CASHIER", s) /\ Admit(c, p, "snapshot", s, NoRow)
AskSubmission(c, p, s)  == post[p].site = s /\ Admit(c, p, "submission", s, NoRow)

\* A manager reverses a posting of the ledger, and decides on a snapshot that was submitted.
AskReversal(c, p, s) ==
  /\ WorksAt(p, "MANAGER", s)
  /\ \E row \in Rows("deposit") \cup Rows("withdrawal") \cup Rows("correction") :
       Admit(c, p, "reversal", s, row)

AskDecision(c, p, s) ==
  WorksAt(p, "MANAGER", s) /\ \E row \in Rows("submit") : Admit(c, p, "decision", s, row)

AskSubmit(c, p, s) ==
  WorksAt(p, "CASHIER", s) /\ \E row \in Rows("snapshot") : Admit(c, p, "submit", s, row)

AskAttachment(c, p, s) ==
  WorksAt(p, "CASHIER", s) /\ \E row \in Rows("deposit") : Admit(c, p, "attachment", s, row)

\* assertOwner compares the business of the path; the branch is the transaction's to check.
AskPurchase(c, p, s) ==
  /\ HasRole(p, {"PRIMARY_OWNER"})
  /\ Admit(c, p, "purchase", s, NoRow)

\* The proof of an order.
AskProof(c, p, s) ==
  /\ HasRole(p, {"PRIMARY_OWNER"}) /\ s[1] = FirmOf(p)
  /\ \E row \in Rows("purchase") : Admit(c, p, "proof", s, row)

\* What the verification of an order's proof leaves: an invoice, or the fraud attempt and the flag of
\* a payment that was used before, and, at the threshold, the lock of the business's purchases.
Verdicts == {"invoice", "reuse", "lock"}

AskVerification(c, p, s) ==
  /\ HasRole(p, {"PRIMARY_OWNER"}) /\ s[1] = FirmOf(p)
  /\ \E row \in Rows("proof"), verdict \in Verdicts : Admit(c, p, verdict, s, row)
-----------------------------------------------------------------------------
(* The transaction.                                                        *)

\* Mutant: the token is taken at its word.
TrustsToken(r) == TRUE

\* Membership, role and assignment are read again.
StillInPost(r) == post[r.by].active

\* The row the operation is about is one of the branch.
RowInBranch(r) == r.row.site = r.site

\* An INSERT ... SELECT reads the business and the branch too; the lock of an account does not.
FirmInForce(r) == firm[FirmOf(r.by)] = "ACTIVE" /\ r.site[1] = FirmOf(r.by)

DepositScope(r)    == StillInPost(r)
WithdrawalScope(r) == StillInPost(r)
CorrectionScope(r) == StillInPost(r)
SnapshotScope(r)   == StillInPost(r)
SubmitScope(r)     == StillInPost(r) /\ RowInBranch(r) /\ r.row.by = r.by
DecisionScope(r)   == StillInPost(r) /\ RowInBranch(r)
ReversalScope(r)   == StillInPost(r) /\ RowInBranch(r)
SubmissionScope(r) == StillInPost(r) /\ FirmInForce(r)
PurchaseScope(r)   == StillInPost(r) /\ FirmInForce(r)

\* These look for their row only.
AttachmentScope(r)   == RowInBranch(r) /\ r.row.by = r.by
ProofScope(r)        == RowInBranch(r)
VerificationScope(r) == RowInBranch(r)

Rechecked(r) ==
  CASE r.op = "deposit"    -> DepositScope(r)
    [] r.op = "withdrawal" -> WithdrawalScope(r)
    [] r.op = "correction" -> CorrectionScope(r)
    [] r.op = "snapshot"   -> SnapshotScope(r)
    [] r.op = "submit"     -> SubmitScope(r)
    [] r.op = "decision"   -> DecisionScope(r)
    [] r.op = "reversal"   -> ReversalScope(r)
    [] r.op = "submission" -> SubmissionScope(r)
    [] r.op = "purchase"   -> PurchaseScope(r)
    [] r.op = "attachment" -> AttachmentScope(r)
    [] r.op = "proof"      -> ProofScope(r)
    [] r.op \in Verdicts   -> VerificationScope(r)

Begin(c) ==
  /\ request[c].step = "admitted"
  /\ request' = [request EXCEPT ![c] =
       IF Rechecked(request[c])
         THEN [@ EXCEPT !.step = "begun", !.inPost = post[request[c].by].active]
         ELSE NoRequest]
  /\ UNCHANGED <<post, firm, records, answer>>

\* The lock is granted and the rows are inserted: nothing is read again.
WriteRows(c) ==
  LET r == request[c] IN
  /\ r.step = "begun"
  /\ request' = [request EXCEPT ![c] = NoRequest]
  /\ \/ /\ Cardinality(records) < MaxRecords
        /\ records' = records \cup {[op |-> r.op, by |-> r.by, site |-> r.site,
                                     row |-> r.row, inPost |-> r.inPost]}
     \/ UNCHANGED records  \* a conflict, or a rollback
  /\ UNCHANGED <<post, firm, answer>>
-----------------------------------------------------------------------------
(* Requests that read.                                                     *)

Financial == {"PRIMARY_OWNER", "MANAGER", "CASHIER"}
Reviewing == {"PRIMARY_OWNER", "MANAGER"}
Everyone  == {"PRIMARY_OWNER", "MANAGER", "CASHIER", "WAITER", "PLATFORM_SUPER_ADMIN"}

\* The query is "audit", "summary" or one of those that list or find rows.
Answers(p, query, rows) ==
  /\ Authenticated(p)
  /\ answer' = [by |-> p, query |-> query, rows |-> rows]
  /\ UNCHANGED <<post, firm, request, records>>

\* Mutant: the business of the path is compared, its branch is not.
AnyBranch(p, s) == FirmOf(p) = s[1]

\* The branch of a path: that of the token, when the role is one of a branch.
OwnBranch(p, s) == FirmOf(p) = s[1] /\ (post[p].site[2] # Nowhere => post[p].site = s)

\* The queries of the DAOs, by business and branch.
RowsAt(s, ops)     == {r \in records : r.site = s /\ r.op \in ops}
DepositsAt(s)      == RowsAt(s, {"deposit", "attachment"})
WithdrawalsAt(s)   == RowsAt(s, {"withdrawal"})
CorrectionsAt(s)   == RowsAt(s, {"correction"})
SnapshotsAt(s)     == RowsAt(s, {"snapshot", "submit", "decision"})
PurchasesAt(s)     == RowsAt(s, {"purchase", "proof"})

MayRead(p, roles, s) == HasRole(p, roles) /\ OwnBranch(p, s)

ReadDeposits(p, s)    == MayRead(p, Financial, s) /\ Answers(p, "rows", DepositsAt(s))
ReadWithdrawals(p, s) == MayRead(p, Financial, s) /\ Answers(p, "rows", WithdrawalsAt(s))
ReadCorrections(p, s) == MayRead(p, Reviewing, s) /\ Answers(p, "rows", CorrectionsAt(s))
ReadSnapshots(p, s)   == MayRead(p, Financial, s) /\ Answers(p, "rows", SnapshotsAt(s))
ReadPurchases(p, s)   == MayRead(p, {"PRIMARY_OWNER"}, s) /\ Answers(p, "rows", PurchasesAt(s))

\* The scope of a business: the branch of the token replaces the one that is asked for.
Scope(p, f) == [firm |-> f, branch |-> post[p].site[2]]

\* Of a scope a query compares what is not NULL.
In(scope, ops) ==
  {r \in records : /\ r.op \in ops
                   /\ scope.firm # Nowhere => r.site[1] = scope.firm
                   /\ scope.branch # Nowhere => r.site[2] = scope.branch}

\* The business whatever the branch.
Wide(scope) == [scope EXCEPT !.branch = Nowhere]

Postings == {"deposit", "withdrawal", "correction", "reversal"}

\* The queries by scope; a submission stands for its attempts and for its case.  A purchase lock has
\* no branch, and a summary counts those of the whole business.
LedgerOf(scope)      == In(scope, Postings)
SummaryOf(scope)     == In(scope, {"submission", "purchase"} \cup Verdicts) \cup In(Wide(scope), {"lock"})
CasesOf(scope)       == In(scope, {"submission"})
SubmissionsOf(scope) == In(scope, {"submission"})
AuditOf(scope)       == In(scope, {r.op : r \in records})
FraudOf(scope)       == In(Wide(scope), {"reuse", "lock"})

Own(p) == Scope(p, FirmOf(p))

ReadLedger(p)      == HasRole(p, Financial) /\ Answers(p, "rows", LedgerOf(Own(p)))
ReadSummary(p)     == HasRole(p, Financial) /\ Answers(p, "summary", SummaryOf(Own(p)))
ReadReviewCases(p) == HasRole(p, Reviewing) /\ Answers(p, "rows", CasesOf(Own(p)))
ReadAudit(p)       == HasRole(p, Reviewing) /\ Answers(p, "audit", AuditOf(Own(p)))

\* An administrator reads the audit rows and the fraud reviews of all businesses, or of one.
ReadPlatformAudit(p, f) == IsAdmin(p) /\ Answers(p, "audit", AuditOf(Scope(p, f)))
ReadFraudReviews(p, f)  == IsAdmin(p) /\ Answers(p, "rows", FraudOf(Scope(p, f)))

\* A waiter reads what he submitted, an administrator the transactions of any business.
ReadTransactions(p, f) ==
  /\ HasRole(p, Everyone) /\ (IsAdmin(p) \/ f = FirmOf(p))
  /\ Answers(p, "rows", {r \in SubmissionsOf(Scope(p, f)) : Role(p) = "WAITER" => r.by = p})

Write(c, p, s) ==
  \/ AskDeposit(c, p, s) \/ AskWithdrawal(c, p, s) \/ AskCorrection(c, p, s)
  \/ AskSnapshot(c, p, s) \/ AskSubmit(c, p, s) \/ AskDecision(c, p, s)
  \/ AskReversal(c, p, s) \/ AskAttachment(c, p, s) \/ AskSubmission(c, p, s)
  \/ AskPurchase(c, p, s) \/ AskProof(c, p, s) \/ AskVerification(c, p, s)

Read(p) ==
  \/ \E s \in Sites : \/ ReadDeposits(p, s) \/ ReadWithdrawals(p, s) \/ ReadCorrections(p, s)
                      \/ ReadSnapshots(p, s) \/ ReadPurchases(p, s)
  \/ ReadLedger(p) \/ ReadSummary(p) \/ ReadReviewCases(p) \/ ReadAudit(p)
  \/ \E f \in Firms : ReadTransactions(p, f)
  \/ \E f \in Firms \cup {Nowhere} : ReadPlatformAudit(p, f) \/ ReadFraudReviews(p, f)

ScopeNext ==
  \/ \E p \in Persons : Leave(p) \/ Read(p)
  \/ \E f \in Firms, status \in {"ACTIVE", "SUSPENDED"} : SetFirmStatus(f, status)
  \/ \E c \in Clients : \/ \E p \in Persons, s \in Sites : Write(c, p, s)
                        \/ Begin(c) \/ WriteRows(c)

ScopeSpec == ScopeInit /\ [][ScopeNext]_scopeVars
-----------------------------------------------------------------------------
\* Whoever writes a row was in post in its branch when the transaction began, even if the token
\* was checked before a removal, and what a cashier submits or attaches to is his own; only an
\* attachment, a proof and its verification may follow a removal (lockScope, submitWithin,
\* decideWithin).
AuthorsWereInPost ==
  \A r \in records :
    /\ FirmOf(r.by) = r.site[1]
    /\ Role(r.by) # "PRIMARY_OWNER" => post[r.by].site = r.site
    /\ r.op \notin {"attachment", "proof"} \cup Verdicts => r.inPost
    /\ r.row # NoRow => r.row.site = r.site
    /\ r.op \in {"submit", "attachment"} => r.row.by = r.by

\* An answer holds rows of the reader's business only, of the branch of who has one, and of a
\* waiter's own; but a summary tells a branch of the locks of the whole business.  An administrator
\* sees submissions and fraud, and the rest through the audit list (the scope methods of the
\* services, the WHERE of the DAOs).
ReadersStayInScope ==
  \A r \in answer.rows :
    LET p == answer.by IN
    /\ IF IsAdmin(p) THEN answer.query = "audit" \/ r.op \in {"submission", "reuse", "lock"}
                     ELSE r.site[1] = FirmOf(p)
    /\ Role(p) \in {"MANAGER", "CASHIER", "WAITER"} =>
         r.site = post[p].site \/ (answer.query = "summary" /\ r.op = "lock")
    /\ Role(p) = "WAITER" => r.by = p /\ r.op = "submission"
=============================================================================
