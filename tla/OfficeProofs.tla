---------------------------- MODULE OfficeProofs ----------------------------
(***************************************************************************)
(* What TLAPS proves of the parts around the money: bank accounts, what    *)
(* requests do and read in a branch, proofs and their review, migrations,  *)
(* the browser's session, and the staff with their sessions.  They share   *)
(* no variable; each has its own specification, and the theorems hold for  *)
(* every value of its constants.                                           *)
(***************************************************************************)
EXTENDS AccountRegistry, BranchScope, ProofIntake, SchemaMigrations, WebSession, StaffAccess,
        FiniteSums, TLAPS

-----------------------------------------------------------------------------
(* Bank accounts.                                                          *)

AccountRows == [bank : Banks \cup {"none"}, place : Places \cup {"none"},
                status : {"none", "ACTIVE", "INACTIVE"}]

RegistryTypeOK ==
  /\ registered \in [Tables \X Numbers -> AccountRows]
  /\ open \in [Registrations -> {Closed} \cup [table : Tables, number : Numbers, row : AccountRows]]

\* A number that an open transaction inserted has no committed account yet.
OpenNumbersAreNew ==
  \A r \in Registrations, table \in Tables :
    IsOpen(r) => registered[<<table, open[r].number>>] = Unregistered

\* The trigger's lock and the indexes keep open transactions apart, from each other ...
OpenAreApart ==
  \A q, r \in Registrations :
    q # r /\ IsOpen(q) /\ IsOpen(r) =>
      open[q].number # open[r].number /\ ~SameActive(open[q].row, open[r].row)

\* ... and from the accounts of their table.
OpenDoNotCollide ==
  \A r \in Registrations, n \in Numbers :
    IsOpen(r) => ~SameActive(registered[<<open[r].table, n>>], open[r].row)

RegistryInv ==
  RegistryTypeOK /\ OpenNumbersAreNew /\ OpenAreApart /\ OpenDoNotCollide /\ AccountsAreApart

LEMMA InsertKeepsApart ==
  ASSUME RegistryInv,
         NEW r \in Registrations, NEW table \in Tables, NEW number \in Numbers,
         NEW row \in AccountRows, Insert(r, table, number, row)
  PROVE  RegistryInv'
<1>1. /\ registered' = registered
      /\ open' = [open EXCEPT ![r] = [table |-> table, number |-> number, row |-> row]]
      /\ ~IsOpen(r)
  BY DEF Insert
<1>2. RegistryTypeOK'
  BY <1>1 DEF RegistryInv, RegistryTypeOK
<1>3. \A q \in Registrations : q # r => open'[q] = open[q] /\ (IsOpen(q)' <=> IsOpen(q))
  BY <1>1 DEF RegistryInv, RegistryTypeOK, IsOpen
<1>4. open'[r] = [table |-> table, number |-> number, row |-> row]
  BY <1>1 DEF RegistryInv, RegistryTypeOK
<1>5. OpenNumbersAreNew'
  BY <1>1, <1>3, <1>4 DEF RegistryInv, OpenNumbersAreNew, Insert, NumberUnused
<1>6. \A q \in Registrations :
        q # r /\ IsOpen(q) => open[q].number # number /\ ~SameActive(open[q].row, row)
  BY DEF Insert, NumberFree, IndexFree
<1>7. \A a, b : SameActive(a, b) <=> SameActive(b, a)
  BY DEF SameActive
<1>8. OpenAreApart'
  BY <1>3, <1>4, <1>6, <1>7 DEF RegistryInv, OpenAreApart, SameActive
<1>9. \A n \in Numbers : ~SameActive(registered[<<table, n>>], row)
  BY DEF Insert, IndexAccepts, NumberUnused, SameActive, Unregistered
<1>10. OpenDoNotCollide'
  BY <1>1, <1>3, <1>4, <1>9 DEF RegistryInv, OpenDoNotCollide, SameActive
<1>11. AccountsAreApart'
  BY <1>1 DEF RegistryInv, AccountsAreApart, SameActive
<1> QED
  BY <1>2, <1>5, <1>8, <1>10, <1>11 DEF RegistryInv

\* A row that is written over one that is no longer new keeps everything apart.
LEMMA UpdateKeepsApart ==
  ASSUME RegistryInv, open' = open,
         NEW table \in Tables, NEW number \in Numbers, NEW row \in AccountRows,
         registered[<<table, number>>] # Unregistered,
         registered' = [registered EXCEPT ![<<table, number>>] = row],
         IndexFree(row), IndexAccepts(table, number, row)
  PROVE  RegistryInv'
<1>1. RegistryTypeOK'
  BY DEF RegistryInv, RegistryTypeOK
<1>2. /\ registered'[<<table, number>>] = row
      /\ \A t \in Tables, n \in Numbers :
           t # table \/ n # number => registered'[<<t, n>>] = registered[<<t, n>>]
  BY DEF RegistryInv, RegistryTypeOK
<1>3. \A q \in Registrations : IsOpen(q)' <=> IsOpen(q)
  BY DEF IsOpen
<1>4. \A q \in Registrations : IsOpen(q) => open[q].number \in Numbers /\ open[q].table \in Tables
  BY DEF RegistryInv, RegistryTypeOK, IsOpen
<1>5. OpenNumbersAreNew'
  BY <1>2, <1>3, <1>4 DEF RegistryInv, OpenNumbersAreNew
<1>6. OpenAreApart'
  BY <1>3 DEF RegistryInv, OpenAreApart, SameActive
<1>7. \A q \in Registrations : IsOpen(q) => ~SameActive(row, open[q].row)
  BY DEF IndexFree, SameActive
<1>8. OpenDoNotCollide'
  BY <1>2, <1>3, <1>4, <1>7 DEF RegistryInv, OpenDoNotCollide, SameActive
<1>9. AccountsAreApart'
  <2>1. ASSUME NEW n \in Numbers PROVE \E t \in Tables : registered'[<<t, n>>] = Unregistered
    <3>1. PICK t \in Tables : registered[<<t, n>>] = Unregistered
      BY DEF RegistryInv, AccountsAreApart
    <3>2. t # table \/ n # number
      BY <3>1
    <3> QED
      BY <1>2, <3>1, <3>2
  <2>2. \A t \in Tables, m, n \in Numbers :
          m # n => ~SameActive(registered'[<<t, m>>], registered'[<<t, n>>])
    BY <1>2 DEF RegistryInv, AccountsAreApart, IndexAccepts, SameActive
  <2> QED
    BY <2>1, <2>2 DEF AccountsAreApart, SameActive
<1> QED
  BY <1>1, <1>5, <1>6, <1>8, <1>9 DEF RegistryInv

LEMMA FinishKeepsApart ==
  ASSUME RegistryInv, NEW r \in Registrations, Finish(r)
  PROVE  RegistryInv'
<1> DEFINE t == open[r].table
           n == open[r].number
<1>1. /\ IsOpen(r) /\ t \in Tables /\ n \in Numbers /\ open[r].row \in AccountRows
      /\ open' = [open EXCEPT ![r] = Closed]
  BY DEF Finish, RegistryInv, RegistryTypeOK, IsOpen
<1>2. /\ ~IsOpen(r)'
      /\ \A q \in Registrations : q # r => open'[q] = open[q] /\ (IsOpen(q)' <=> IsOpen(q))
  BY <1>1 DEF RegistryInv, RegistryTypeOK, IsOpen
<1>3. CASE registered' = registered
  <2>1. RegistryTypeOK'
    BY <1>1, <1>3 DEF RegistryInv, RegistryTypeOK
  <2>2. OpenNumbersAreNew' /\ OpenAreApart' /\ OpenDoNotCollide' /\ AccountsAreApart'
    BY <1>2, <1>3
       DEF RegistryInv, OpenNumbersAreNew, OpenAreApart, OpenDoNotCollide, AccountsAreApart,
           SameActive
  <2> QED
    BY <2>1, <2>2 DEF RegistryInv
<1>4. CASE registered' = [registered EXCEPT ![<<open[r].table, open[r].number>>] = open[r].row]
  <2>1. RegistryTypeOK'
    BY <1>1, <1>4 DEF RegistryInv, RegistryTypeOK
  <2>2. /\ registered'[<<t, n>>] = open[r].row
        /\ \A s \in Tables, m \in Numbers :
             s # t \/ m # n => registered'[<<s, m>>] = registered[<<s, m>>]
    BY <1>1, <1>4 DEF RegistryInv, RegistryTypeOK
  <2>3. \A q \in Registrations : IsOpen(q) => open[q].number \in Numbers /\ open[q].table \in Tables
    BY DEF RegistryInv, RegistryTypeOK, IsOpen
  <2>4. \A q \in Registrations : q # r /\ IsOpen(q) =>
          open[q].number # n /\ ~SameActive(open[r].row, open[q].row)
    BY <1>1 DEF RegistryInv, OpenAreApart
  <2>5. OpenNumbersAreNew'
    BY <1>2, <2>2, <2>3, <2>4 DEF RegistryInv, OpenNumbersAreNew
  <2>6. OpenAreApart'
    BY <1>2 DEF RegistryInv, OpenAreApart, SameActive
  <2>7. OpenDoNotCollide'
    BY <1>2, <2>2, <2>3, <2>4 DEF RegistryInv, OpenDoNotCollide, SameActive
  <2>8. \A m \in Numbers : \E s \in Tables : registered'[<<s, m>>] = Unregistered
    <3>1. \A s \in Tables : registered[<<s, n>>] = Unregistered
      BY <1>1 DEF RegistryInv, OpenNumbersAreNew
    <3>2. \E s \in Tables : s # t
      BY DEF Tables
    <3>3. ASSUME NEW m \in Numbers PROVE \E s \in Tables : registered[<<s, m>>] = Unregistered
      BY DEF RegistryInv, AccountsAreApart
    <3>4. \E s \in Tables : registered'[<<s, n>>] = Unregistered
      BY <1>1, <2>2, <3>1, <3>2
    <3>5. ASSUME NEW m \in Numbers, m # n PROVE \E s \in Tables : registered'[<<s, m>>] = Unregistered
      BY <2>2, <3>3, <3>5
    <3> QED
      BY <3>4, <3>5
  <2>9. \A s \in Tables, m, k \in Numbers :
          m # k => ~SameActive(registered'[<<s, m>>], registered'[<<s, k>>])
    BY <1>1, <2>2 DEF RegistryInv, AccountsAreApart, OpenDoNotCollide, SameActive
  <2>10. AccountsAreApart'
    BY <2>8, <2>9 DEF AccountsAreApart, SameActive
  <2> QED
    BY <2>1, <2>5, <2>6, <2>7, <2>10 DEF RegistryInv
<1> QED
  BY <1>3, <1>4 DEF Finish

\* Rows, banks and the requests under way stay in their domains, a request that took an advisory
\* lock is the only one on that number, and the tables are apart: the transactions of
\* createBranchAccount and updatePlatformAccount, from lock to commit.
THEOREM RegistryStaysApart == RegistrySpec => []RegistryInv
<1>1. RegistryInit => RegistryInv
  BY DEF RegistryInit, RegistryInv, RegistryTypeOK, OpenNumbersAreNew, OpenAreApart,
         OpenDoNotCollide, AccountsAreApart, IsOpen, SameActive, AccountRows, Unregistered, Tables
<1>2. RegistryInv /\ [RegistryNext]_registryVars => RegistryInv'
  <2> SUFFICES ASSUME RegistryInv, [RegistryNext]_registryVars PROVE RegistryInv'
    OBVIOUS
  <2>1. ASSUME registered' = registered, open' = open PROVE RegistryInv'
    BY <2>1 DEF RegistryInv, RegistryTypeOK, OpenNumbersAreNew, OpenAreApart, OpenDoNotCollide,
                AccountsAreApart, IsOpen, SameActive
  <2>2. ASSUME NEW b \in Banks, CreateBank(b) \/ DisableBank(b) PROVE RegistryInv'
    BY <2>1, <2>2 DEF CreateBank, DisableBank
  <2>3. CASE OwnerChanges
    BY <2>1, <2>3 DEF OwnerChanges
  <2>4. ASSUME NEW r \in Registrations, NEW p \in Places, NEW b \in Banks, NEW n \in Numbers,
               CreateBranchAccount(r, p, b, n)
        PROVE  RegistryInv'
    <3> DEFINE row == [bank |-> b, place |-> p, status |-> "ACTIVE"]
    <3>1. row \in AccountRows /\ "settlement" \in Tables
      BY DEF AccountRows, Tables
    <3>2. Insert(r, "settlement", n, row)
      BY <2>4 DEF CreateBranchAccount
    <3> HIDE DEF row
    <3> QED
      BY <3>1, <3>2, InsertKeepsApart
  <2>5. ASSUME NEW r \in Registrations, NEW b \in Banks, NEW n \in Numbers,
               CreatePlatformAccount(r, b, n)
        PROVE  RegistryInv'
    <3> DEFINE row == [bank |-> b, place |-> "none", status |-> "ACTIVE"]
    <3>1. row \in AccountRows /\ "platform" \in Tables
      BY DEF AccountRows, Tables
    <3>2. Insert(r, "platform", n, row)
      BY <2>5 DEF CreatePlatformAccount
    <3> HIDE DEF row
    <3> QED
      BY <3>1, <3>2, InsertKeepsApart
  <2>6. ASSUME NEW r \in Registrations, Finish(r) PROVE RegistryInv'
    BY <2>6, FinishKeepsApart
  <2>7. ASSUME NEW n \in Numbers, DeactivateBranchAccount(n) PROVE RegistryInv'
    <3> DEFINE k == <<"settlement", n>>
               row == [registered[k] EXCEPT !.status = "INACTIVE"]
    <3>1. registered[k] \in AccountRows /\ "settlement" \in Tables
      BY DEF RegistryInv, RegistryTypeOK, Tables
    <3>2. row \in AccountRows /\ row.status = "INACTIVE"
      BY <3>1 DEF AccountRows
    <3>3. registered[k] # Unregistered /\ open' = open
      BY <2>7 DEF DeactivateBranchAccount, Unregistered
    <3>4. registered' = [registered EXCEPT ![k] = row]
      BY <2>7, <3>1 DEF DeactivateBranchAccount, RegistryInv, RegistryTypeOK
    <3>5. IndexFree(row) /\ IndexAccepts("settlement", n, row)
      BY <3>2 DEF IndexFree, IndexAccepts, SameActive
    <3> HIDE DEF row
    <3> QED
      BY <3>1, <3>2, <3>3, <3>4, <3>5, UpdateKeepsApart
  <2>8. ASSUME NEW n \in Numbers, NEW active \in BOOLEAN, UpdatePlatformAccount(n, active)
        PROVE  RegistryInv'
    <3> DEFINE k == <<"platform", n>>
               row == [registered[k] EXCEPT !.status = IF active THEN "ACTIVE" ELSE "INACTIVE"]
    <3>1. registered[k] \in AccountRows /\ "platform" \in Tables
      BY DEF RegistryInv, RegistryTypeOK, Tables
    <3>2. row \in AccountRows
      BY <3>1 DEF AccountRows
    <3>3. /\ registered[k] # Unregistered /\ open' = open
          /\ registered' = [registered EXCEPT ![k] = row]
          /\ IndexFree(row) /\ IndexAccepts("platform", n, row)
      BY <2>8 DEF UpdatePlatformAccount
    <3> HIDE DEF row
    <3> QED
      BY <3>1, <3>2, <3>3, UpdateKeepsApart
  <2>9. CASE UNCHANGED registryVars
    BY <2>1, <2>9 DEF registryVars
  <2> QED
    BY <2>2, <2>3, <2>4, <2>5, <2>6, <2>7, <2>8, <2>9 DEF RegistryNext
<1> QED
  BY <1>1, <1>2, PTL DEF RegistrySpec

\* A number is never a branch's and the platform's account, and a place has one active account
\* at a bank: createBranchAccount, updatePlatformAccount and the trigger, run concurrently.
THEOREM AccountsStayApart == RegistrySpec => []AccountsAreApart
<1>1. RegistryInv => AccountsAreApart
  BY DEF RegistryInv
<1> QED
  BY <1>1, RegistryStaysApart, PTL
-----------------------------------------------------------------------------
(* Requests in a branch.                                                   *)

StaffOps == {"deposit", "withdrawal", "correction", "snapshot", "submission", "reversal",
             "decision", "submit", "attachment"}
RowOps   == {"reversal", "decision", "submit", "attachment", "proof"} \cup Verdicts
Ops      == StaffOps \cup {"purchase", "proof"} \cup Verdicts

\* What looks for its row only.
RowOnly == {"attachment", "proof"} \cup Verdicts

Posts ==
  {q \in [role : {job.role : job \in Jobs}, site : {job.site : job \in Jobs}, active : BOOLEAN] :
     [role |-> q.role, site |-> q.site] \in Jobs}

Requests ==
  {NoRequest} \cup [step : {"admitted", "begun"}, op : Ops, by : Persons, site : Sites,
                    row : records \cup {NoRow}, inPost : BOOLEAN]

ScopeTypeOK ==
  /\ post \in [Persons -> Posts]
  /\ request \in [Clients -> Requests]
  /\ \A r \in records : r.op \in Ops /\ r.by \in Persons /\ r.site \in Sites
  /\ answer.rows # {} => answer.by \in Persons

\* The author works where the row is written ...
AtWork(r) ==
  FirmOf(r.by) = r.site[1] /\ (Role(r.by) # "PRIMARY_OWNER" => post[r.by].site = r.site)

\* ... and the row it is about is one of the branch, and his own where it must be.
OfOwnBranch(r) ==
  /\ r.row # NoRow => r.row.site = r.site
  /\ r.op \in {"submit", "attachment"} => r.row.by = r.by

\* The guards have placed staff in their branch and found a row; only the owner's order waits
\* for the transaction to compare the business.
AdmittedInBranch ==
  \A c \in Clients :
    request[c] # NoRequest =>
      /\ request[c].op = "purchase" => Role(request[c].by) = "PRIMARY_OWNER"
      /\ request[c].op # "purchase" => AtWork(request[c])
      /\ request[c].op \notin RowOps => request[c].row = NoRow

\* What the transaction has read is what the row will say.
BegunInPost ==
  \A c \in Clients :
    request[c].step = "begun" =>
      /\ AtWork(request[c]) /\ OfOwnBranch(request[c])
      /\ request[c].op \notin RowOnly => request[c].inPost

ScopeInv ==
  ScopeTypeOK /\ AdmittedInBranch /\ BegunInPost /\ AuthorsWereInPost /\ ReadersStayInScope

LEMMA PostKinds ==
  ASSUME NEW q \in Posts
  PROVE  /\ q.role \in {"MANAGER", "CASHIER", "WAITER"} => q.site \in Sites /\ q.site[2] # Nowhere
         /\ q.role = "PRIMARY_OWNER" => q.site \in Firms \X {Nowhere}
         /\ q.role = "PLATFORM_SUPER_ADMIN" => q.site = <<Nowhere, Nowhere>>
         /\ q.role \in {"MANAGER", "CASHIER", "WAITER", "PRIMARY_OWNER", "PLATFORM_SUPER_ADMIN"}
BY NowhereApart DEF Posts, Jobs, Sites

\* A request that is admitted takes no row and no answer with it.
LEMMA AdmitKeepsScope ==
  ASSUME ScopeInv,
         NEW c \in Clients, NEW p \in Persons, NEW op \in Ops, NEW s \in Sites,
         NEW row \in records \cup {NoRow}, Admit(c, p, op, s, row),
         op = "purchase" => Role(p) = "PRIMARY_OWNER",
         op # "purchase" => FirmOf(p) = s[1] /\ (Role(p) # "PRIMARY_OWNER" => post[p].site = s),
         op \notin RowOps => row = NoRow
  PROVE  ScopeInv'
<1> DEFINE new == [step |-> "admitted", op |-> op, by |-> p, site |-> s, row |-> row,
                   inPost |-> FALSE]
<1>1. /\ request' = [request EXCEPT ![c] = new] /\ answer' = NoAnswer
      /\ post' = post /\ firm' = firm /\ records' = records
  BY DEF Admit
<1>2. new \in Requests
  BY DEF Requests
<1>3. ScopeTypeOK'
  <2>1. Requests' = Requests
    BY <1>1 DEF Requests
  <2>2. request' \in [Clients -> Requests]
    BY <1>1, <1>2 DEF ScopeInv, ScopeTypeOK
  <2> QED
    BY <1>1, <2>1, <2>2 DEF ScopeInv, ScopeTypeOK, NoAnswer
<1>4. request'[c] = new /\ \A d \in Clients \ {c} : request'[d] = request[d]
  BY <1>1 DEF ScopeInv, ScopeTypeOK
<1>5. AdmittedInBranch'
  BY <1>1, <1>4 DEF ScopeInv, AdmittedInBranch, AtWork, Role, FirmOf
<1>6. BegunInPost'
  BY <1>1, <1>4 DEF ScopeInv, BegunInPost, AtWork, OfOwnBranch, Role, FirmOf
<1>7. AuthorsWereInPost' /\ ReadersStayInScope'
  BY <1>1 DEF ScopeInv, AuthorsWereInPost, ReadersStayInScope, Role, FirmOf, IsAdmin, NoAnswer
<1> QED
  BY <1>3, <1>5, <1>6, <1>7 DEF ScopeInv

LEMMA WriteKeepsScope ==
  ASSUME ScopeInv, NEW c \in Clients, NEW p \in Persons, NEW s \in Sites, Write(c, p, s)
  PROVE  ScopeInv'
<1> USE DEF Ops, StaffOps, RowOps, Verdicts
<1>1. ASSUME NEW op \in StaffOps, NEW row \in records \cup {NoRow}, post[p].site = s,
             op \notin RowOps => row = NoRow, Admit(c, p, op, s, row)
      PROVE  ScopeInv'
  BY <1>1, AdmitKeepsScope DEF FirmOf
<1>2. CASE AskDeposit(c, p, s)
  BY <1>1, <1>2 DEF AskDeposit, WorksAt
<1>3. CASE AskWithdrawal(c, p, s)
  BY <1>1, <1>3 DEF AskWithdrawal, WorksAt
<1>4. CASE AskCorrection(c, p, s)
  BY <1>1, <1>4 DEF AskCorrection, WorksAt
<1>5. CASE AskSnapshot(c, p, s)
  BY <1>1, <1>5 DEF AskSnapshot, WorksAt
<1>6. CASE AskSubmission(c, p, s)
  BY <1>1, <1>6 DEF AskSubmission
<1>7. CASE AskReversal(c, p, s)
  <2> PICK row \in records : Admit(c, p, "reversal", s, row)
    BY <1>7 DEF AskReversal, Rows
  <2> QED
    BY <1>1, <1>7 DEF AskReversal, WorksAt
<1>8. CASE AskDecision(c, p, s)
  <2> PICK row \in records : Admit(c, p, "decision", s, row)
    BY <1>8 DEF AskDecision, Rows
  <2> QED
    BY <1>1, <1>8 DEF AskDecision, WorksAt
<1>9. CASE AskSubmit(c, p, s)
  <2> PICK row \in records : Admit(c, p, "submit", s, row)
    BY <1>9 DEF AskSubmit, Rows
  <2> QED
    BY <1>1, <1>9 DEF AskSubmit, WorksAt
<1>10. CASE AskAttachment(c, p, s)
  <2> PICK row \in records : Admit(c, p, "attachment", s, row)
    BY <1>10 DEF AskAttachment, Rows
  <2> QED
    BY <1>1, <1>10 DEF AskAttachment, WorksAt
<1>11. CASE AskPurchase(c, p, s)
  BY <1>11, AdmitKeepsScope DEF AskPurchase, HasRole
<1>12. CASE AskProof(c, p, s)
  <2> PICK row \in records : Admit(c, p, "proof", s, row)
    BY <1>12 DEF AskProof, Rows
  <2> QED
    BY <1>12, AdmitKeepsScope DEF AskProof, HasRole
<1>13. CASE AskVerification(c, p, s)
  <2> PICK row \in records, verdict \in Verdicts : Admit(c, p, verdict, s, row)
    BY <1>13 DEF AskVerification, Rows
  <2> QED
    BY <1>13, AdmitKeepsScope DEF AskVerification, HasRole
<1> QED
  BY <1>2, <1>3, <1>4, <1>5, <1>6, <1>7, <1>8, <1>9, <1>10, <1>11, <1>12, <1>13 DEF Write

\* What an operation checks again makes the row one of its author's branch.
LEMMA RecheckedIsInBranch ==
  ASSUME ScopeInv, NEW c \in Clients, request[c].step = "admitted", Rechecked(request[c])
  PROVE  /\ AtWork(request[c]) /\ OfOwnBranch(request[c])
         /\ request[c].op \notin RowOnly => post[request[c].by].active
<1> DEFINE r == request[c]
<1>1. r \in Requests /\ r # NoRequest
  BY DEF ScopeInv, ScopeTypeOK, NoRequest
<1>2. r.op \in Ops
  BY <1>1 DEF Requests
<1>3. /\ r.op = "purchase" => Role(r.by) = "PRIMARY_OWNER"
      /\ r.op # "purchase" => AtWork(r)
      /\ r.op \notin RowOps => r.row = NoRow
  BY <1>1 DEF ScopeInv, AdmittedInBranch
<1> HIDE DEF r
<1>4. Rechecked(r)
  BY DEF r
<1>5. r.op = "purchase" => AtWork(r)
  BY <1>3, <1>4 DEF Rechecked, Verdicts, PurchaseScope, FirmInForce, AtWork
<1>6. r.op \in RowOps => r.row.site = r.site /\ (r.op \in {"submit", "attachment"} => r.row.by = r.by)
  BY <1>4 DEF Rechecked, RowOps, Verdicts, ReversalScope, DecisionScope, SubmitScope,
              AttachmentScope, ProofScope, VerificationScope, RowInBranch
<1>7. r.op \notin RowOnly => post[r.by].active
  BY <1>2, <1>4
     DEF Ops, StaffOps, RowOnly, Verdicts, Rechecked, DepositScope, WithdrawalScope, CorrectionScope, SnapshotScope,
         SubmitScope, DecisionScope, ReversalScope, SubmissionScope, PurchaseScope, StillInPost
<1> QED
  BY <1>3, <1>5, <1>6, <1>7 DEF OfOwnBranch, RowOps, r

LEMMA BeginKeepsScope ==
  ASSUME ScopeInv, NEW c \in Clients, Begin(c)
  PROVE  ScopeInv'
<1> DEFINE r   == request[c]
           new == [r EXCEPT !.step = "begun", !.inPost = post[r.by].active]
<1>1. /\ post' = post /\ firm' = firm /\ records' = records /\ answer' = answer
      /\ r.step = "admitted"
      /\ request' = [request EXCEPT ![c] = IF Rechecked(r) THEN new ELSE NoRequest]
  BY DEF Begin
<1>2. r \in Requests /\ r # NoRequest /\ r.by \in Persons
  BY <1>1 DEF ScopeInv, ScopeTypeOK, NoRequest, Requests
<1>3. post[r.by].active \in BOOLEAN
  BY <1>2 DEF ScopeInv, ScopeTypeOK, Posts
<1>4. /\ new \in Requests /\ new.step = "begun" /\ new.inPost = post[r.by].active
      /\ new.op = r.op /\ new.by = r.by /\ new.site = r.site /\ new.row = r.row
  BY <1>2, <1>3 DEF Requests
<1>5. Requests' = Requests
  BY <1>1 DEF Requests
<1>6. ScopeTypeOK'
  <2>1. request' \in [Clients -> Requests]
    BY <1>1, <1>4 DEF ScopeInv, ScopeTypeOK, Requests
  <2> QED
    BY <1>1, <1>5, <2>1 DEF ScopeInv, ScopeTypeOK
<1>7. /\ request'[c] = IF Rechecked(r) THEN new ELSE NoRequest
      /\ \A d \in Clients \ {c} : request'[d] = request[d]
  BY <1>1 DEF ScopeInv, ScopeTypeOK
<1>8. Rechecked(r) =>
        AtWork(r) /\ OfOwnBranch(r) /\ (r.op \notin RowOnly => post[r.by].active)
  BY <1>1, RecheckedIsInBranch
<1> HIDE DEF new
<1>9. AdmittedInBranch'
  <2>1. /\ r.op = "purchase" => Role(r.by) = "PRIMARY_OWNER"
        /\ r.op # "purchase" => AtWork(r)
        /\ r.op \notin RowOps => r.row = NoRow
    BY <1>2 DEF ScopeInv, AdmittedInBranch
  <2>2. ASSUME NEW q \in Clients, request'[q] # NoRequest
        PROVE  (/\ request[q].op = "purchase" => Role(request[q].by) = "PRIMARY_OWNER"
                /\ request[q].op # "purchase" => AtWork(request[q])
                /\ request[q].op \notin RowOps => request[q].row = NoRow)'
    <3>1. CASE q = c
      BY <1>1, <1>4, <1>7, <2>1, <2>2, <3>1 DEF AtWork, Role, FirmOf
    <3>2. CASE q # c
      BY <1>1, <1>7, <2>2, <3>2 DEF ScopeInv, AdmittedInBranch, AtWork, Role, FirmOf
    <3> QED
      BY <3>1, <3>2
  <2> QED
    BY <2>2 DEF AdmittedInBranch
<1>10. BegunInPost'
  <2>1. ASSUME NEW q \in Clients, request'[q].step = "begun"
        PROVE  (/\ AtWork(request[q]) /\ OfOwnBranch(request[q])
                /\ request[q].op \notin RowOnly => request[q].inPost)'
    <3>1. CASE q = c
      <4>1. Rechecked(r) /\ request'[q] = new
        BY <1>7, <2>1, <3>1 DEF NoRequest
      <4>2. AtWork(r) /\ OfOwnBranch(r) /\ (r.op \notin RowOnly => post[r.by].active)
        BY <1>8, <4>1
      <4> QED
        BY <1>1, <1>4, <4>1, <4>2 DEF AtWork, OfOwnBranch, Role, FirmOf
    <3>2. CASE q # c
      BY <1>1, <1>7, <2>1, <3>2 DEF ScopeInv, BegunInPost, AtWork, OfOwnBranch, Role, FirmOf
    <3> QED
      BY <3>1, <3>2
  <2> QED
    BY <2>1 DEF BegunInPost
<1>11. AuthorsWereInPost' /\ ReadersStayInScope'
  BY <1>1 DEF ScopeInv, AuthorsWereInPost, ReadersStayInScope, Role, FirmOf, IsAdmin
<1> QED
  BY <1>6, <1>9, <1>10, <1>11 DEF ScopeInv

LEMMA WriteRowsKeepScope ==
  ASSUME ScopeInv, NEW c \in Clients, WriteRows(c)
  PROVE  ScopeInv'
<1> DEFINE r   == request[c]
           new == [op |-> r.op, by |-> r.by, site |-> r.site, row |-> r.row, inPost |-> r.inPost]
<1>1. /\ post' = post /\ firm' = firm /\ answer' = answer
      /\ r.step = "begun" /\ request' = [request EXCEPT ![c] = NoRequest]
      /\ records' = records \/ records' = records \cup {new}
  BY DEF WriteRows
<1>2. r \in Requests /\ r # NoRequest
  BY <1>1 DEF ScopeInv, ScopeTypeOK, NoRequest
<1>3. new.op \in Ops /\ new.by \in Persons /\ new.site \in Sites
  BY <1>2 DEF Requests
<1>4. /\ AtWork(r) /\ OfOwnBranch(r)
      /\ r.op \notin RowOnly => r.inPost
  BY <1>1 DEF ScopeInv, BegunInPost
<1>5. \A d \in Clients : request'[d] = NoRequest \/ request'[d] = request[d]
  BY <1>1 DEF ScopeInv, ScopeTypeOK
<1>6. ScopeTypeOK'
  <2>1. Requests \subseteq Requests'
    BY <1>1 DEF Requests
  <2>2. request' \in [Clients -> Requests']
    BY <1>1, <2>1 DEF ScopeInv, ScopeTypeOK, Requests
  <2> QED
    BY <1>1, <1>3, <2>2 DEF ScopeInv, ScopeTypeOK
<1>7. AdmittedInBranch' /\ BegunInPost'
  <2>1. AdmittedInBranch'
    BY <1>1, <1>5 DEF ScopeInv, AdmittedInBranch, AtWork, Role, FirmOf
  <2>2. BegunInPost'
    BY <1>1, <1>5 DEF ScopeInv, BegunInPost, AtWork, OfOwnBranch, Role, FirmOf, NoRequest
  <2> QED
    BY <2>1, <2>2
<1>8. AuthorsWereInPost'
  BY <1>1, <1>4 DEF ScopeInv, AuthorsWereInPost, AtWork, OfOwnBranch, RowOnly, Role, FirmOf
<1>9. ReadersStayInScope'
  BY <1>1 DEF ScopeInv, ReadersStayInScope, Role, FirmOf, IsAdmin
<1> QED
  BY <1>6, <1>7, <1>8, <1>9 DEF ScopeInv

LEMMA ChangesKeepScope ==
  ASSUME ScopeInv,
         \/ \E p \in Persons : Leave(p)
         \/ \E f \in Firms, status \in {"ACTIVE", "SUSPENDED"} : SetFirmStatus(f, status)
         \/ UNCHANGED scopeVars
  PROVE  ScopeInv'
<1>1. request' = request /\ records' = records /\ answer' = answer
  BY DEF Leave, SetFirmStatus, scopeVars
<1>2. /\ post' \in [Persons -> Posts]
      /\ \A p \in Persons : post'[p].role = post[p].role /\ post'[p].site = post[p].site
  <2>1. CASE post' = post
    BY <2>1 DEF ScopeInv, ScopeTypeOK
  <2>2. ASSUME NEW p \in Persons, post' = [post EXCEPT ![p].active = FALSE]
        PROVE  <1>2!1 /\ <1>2!2
    BY <2>2 DEF ScopeInv, ScopeTypeOK, Posts
  <2> QED
    BY <2>1, <2>2 DEF Leave, SetFirmStatus, scopeVars
<1>3. ScopeTypeOK'
  BY <1>1, <1>2 DEF ScopeInv, ScopeTypeOK, Requests
<1>4. \A c \in Clients : request[c] # NoRequest => request[c].by \in Persons
  BY DEF ScopeInv, ScopeTypeOK, Requests
<1>5. AdmittedInBranch' /\ BegunInPost'
  <2>1. AdmittedInBranch'
    BY <1>1, <1>2, <1>4 DEF ScopeInv, AdmittedInBranch, AtWork, Role, FirmOf
  <2>2. BegunInPost'
    BY <1>1, <1>2, <1>4 DEF ScopeInv, BegunInPost, AtWork, OfOwnBranch, Role, FirmOf, NoRequest
  <2> QED
    BY <2>1, <2>2
<1>6. AuthorsWereInPost'
  BY <1>1, <1>2 DEF ScopeInv, ScopeTypeOK, AuthorsWereInPost, Role, FirmOf
<1>7. ReadersStayInScope'
  BY <1>1, <1>2 DEF ScopeInv, ScopeTypeOK, ReadersStayInScope, Role, FirmOf, IsAdmin
<1> QED
  BY <1>3, <1>5, <1>6, <1>7 DEF ScopeInv
\* An answer that holds no more than the reader's scope.
InScopeOf(p, query, rows) ==
  \A r \in rows :
    /\ r \in records
    /\ IF IsAdmin(p) THEN query = "audit" \/ r.op \in {"submission", "reuse", "lock"}
                     ELSE r.site[1] = FirmOf(p)
    /\ Role(p) \in {"MANAGER", "CASHIER", "WAITER"} =>
         r.site = post[p].site \/ (query = "summary" /\ r.op = "lock")
    /\ Role(p) = "WAITER" => r.by = p /\ r.op = "submission"

LEMMA AnswerKeepsScope ==
  ASSUME ScopeInv, NEW p \in Persons, NEW query, NEW rows, Answers(p, query, rows),
         InScopeOf(p, query, rows)
  PROVE  ScopeInv'
<1>1. /\ post' = post /\ firm' = firm /\ request' = request /\ records' = records
      /\ answer' = [by |-> p, query |-> query, rows |-> rows]
  BY DEF Answers
<1>2. ScopeTypeOK'
  BY <1>1 DEF ScopeInv, ScopeTypeOK, Requests
<1>3. AdmittedInBranch' /\ BegunInPost' /\ AuthorsWereInPost'
  BY <1>1 DEF ScopeInv, AdmittedInBranch, BegunInPost, AuthorsWereInPost, AtWork, OfOwnBranch,
              Role, FirmOf
<1>4. answer'.by = p /\ answer'.query = query /\ answer'.rows = rows
  BY <1>1
<1>5. ReadersStayInScope'
  BY <1>1, <1>4 DEF InScopeOf, ReadersStayInScope, Role, FirmOf, IsAdmin
<1> QED
  BY <1>2, <1>3, <1>5 DEF ScopeInv

\* A read by the branch of a path, for people of the business and its branch.
LEMMA BranchRowsAreInScope ==
  ASSUME ScopeTypeOK, NEW p \in Persons, NEW s \in Sites, NEW ops,
         NEW roles \in SUBSET Financial, MayRead(p, roles, s)
  PROVE  InScopeOf(p, "rows", RowsAt(s, ops))
<1>1. Role(p) \in Financial /\ FirmOf(p) = s[1] /\ (post[p].site[2] # Nowhere => post[p].site = s)
  BY DEF MayRead, HasRole, OwnBranch
<1>2. post[p] \in Posts
  BY DEF ScopeTypeOK
<1>3. Role(p) = "MANAGER" \/ Role(p) = "CASHIER" => post[p].site = s
  BY <1>1, <1>2, PostKinds DEF Role
<1> QED
  BY <1>1, <1>3 DEF InScopeOf, RowsAt, Financial, IsAdmin

\* A read by the scope of a business: what a branch's person is given is of his branch.
LEMMA ScopeRowsAreInScope ==
  ASSUME ScopeTypeOK, NEW p \in Persons, NEW ops, NEW query,
         Role(p) \in {"PRIMARY_OWNER", "MANAGER", "CASHIER", "WAITER"},
         NEW rows, rows \subseteq In(Scope(p, FirmOf(p)), ops),
         \A r \in rows : Role(p) = "WAITER" => r.by = p /\ r.op = "submission"
  PROVE  InScopeOf(p, query, rows)
<1>1. post[p] \in Posts /\ FirmOf(p) # Nowhere
  <2>1. post[p] \in Posts
    BY DEF ScopeTypeOK
  <2>2. post[p].site[1] \in Firms
    BY <2>1, PostKinds DEF Role, Sites
  <2> QED
    BY <2>1, <2>2, NowhereApart DEF FirmOf
<1>2. ASSUME NEW r \in rows
      PROVE  /\ r \in records /\ r.site[1] = FirmOf(p)
             /\ Role(p) \in {"MANAGER", "CASHIER", "WAITER"} => r.site = post[p].site
  <2>1. /\ r \in records /\ r.site[1] = FirmOf(p)
        /\ post[p].site[2] # Nowhere => r.site[2] = post[p].site[2]
    BY <1>1, <1>2 DEF In, Scope
  <2>2. r.site \in Firms \X {1, 2}
    BY <2>1 DEF ScopeTypeOK, Sites
  <2>3. Role(p) \in {"MANAGER", "CASHIER", "WAITER"} =>
          post[p].site \in Firms \X {1, 2} /\ post[p].site[2] # Nowhere
    BY <1>1, PostKinds DEF Role, Sites
  <2> QED
    BY <2>1, <2>2, <2>3 DEF FirmOf
<1> QED
  BY <1>2 DEF InScopeOf, IsAdmin

\* A summary holds rows of the scope, and the locks of its business.
LEMMA SummaryIsInScope ==
  ASSUME ScopeTypeOK, NEW p \in Persons, HasRole(p, Financial)
  PROVE  InScopeOf(p, "summary", SummaryOf(Own(p)))
<1> DEFINE ops   == {"submission", "purchase"} \cup Verdicts
           rows  == In(Scope(p, FirmOf(p)), ops)
           locks == In(Wide(Scope(p, FirmOf(p))), {"lock"})
<1>1. SummaryOf(Own(p)) = rows \cup locks
  BY DEF SummaryOf, Own
<1>2. Role(p) \in {"PRIMARY_OWNER", "MANAGER", "CASHIER"}
  BY DEF HasRole, Financial
<1> HIDE DEF ops
<1>3. InScopeOf(p, "summary", rows)
  BY <1>2, ScopeRowsAreInScope
<1>4. FirmOf(p) # Nowhere
  <2>1. post[p].site[1] \in Firms
    BY <1>2, PostKinds DEF ScopeTypeOK, Role, Sites
  <2> QED
    BY <2>1, NowhereApart DEF FirmOf
<1>5. InScopeOf(p, "summary", locks)
  <2>1. \A r \in locks : r \in records /\ r.op = "lock" /\ r.site[1] = FirmOf(p)
    BY <1>4 DEF In, Wide, Scope
  <2> QED
    BY <1>2, <2>1 DEF InScopeOf, IsAdmin
<1> QED
  BY <1>1, <1>3, <1>5 DEF InScopeOf

LEMMA ReadKeepsScope ==
  ASSUME ScopeInv, NEW p \in Persons, Read(p)
  PROVE  ScopeInv'
<1> USE DEF ScopeInv
<1>1. ASSUME NEW s \in Sites, NEW roles \in SUBSET Financial, NEW ops,
             MayRead(p, roles, s), Answers(p, "rows", RowsAt(s, ops))
      PROVE  ScopeInv'
  BY <1>1, BranchRowsAreInScope, AnswerKeepsScope
<1>2. ASSUME NEW roles \in SUBSET Financial, HasRole(p, roles), NEW ops, NEW query,
             Answers(p, query, In(Own(p), ops))
      PROVE  ScopeInv'
  <2> DEFINE rows == In(Scope(p, FirmOf(p)), ops)
  <2>1. Role(p) \in {"PRIMARY_OWNER", "MANAGER", "CASHIER"}
    BY <1>2 DEF HasRole, Financial
  <2>2. Answers(p, query, rows)
    BY <1>2 DEF Own
  <2> HIDE DEF rows
  <2>3. InScopeOf(p, query, rows)
    BY <2>1, ScopeRowsAreInScope DEF rows
  <2> QED
    BY <2>2, <2>3, AnswerKeepsScope
<1>3. ASSUME NEW s \in Sites,
             \/ ReadDeposits(p, s) \/ ReadWithdrawals(p, s) \/ ReadCorrections(p, s)
             \/ ReadSnapshots(p, s) \/ ReadPurchases(p, s)
      PROVE  ScopeInv'
  <2>1. Reviewing \in SUBSET Financial /\ {"PRIMARY_OWNER"} \in SUBSET Financial
    BY DEF Reviewing, Financial
  <2>2. CASE ReadDeposits(p, s)
    BY <1>1, <2>2 DEF ReadDeposits, DepositsAt
  <2>3. CASE ReadWithdrawals(p, s)
    BY <1>1, <2>3 DEF ReadWithdrawals, WithdrawalsAt
  <2>4. CASE ReadCorrections(p, s)
    BY <1>1, <2>1, <2>4 DEF ReadCorrections, CorrectionsAt
  <2>5. CASE ReadSnapshots(p, s)
    BY <1>1, <2>5 DEF ReadSnapshots, SnapshotsAt
  <2>6. CASE ReadPurchases(p, s)
    BY <1>1, <2>1, <2>6 DEF ReadPurchases, PurchasesAt
  <2> QED
    BY <1>3, <2>2, <2>3, <2>4, <2>5, <2>6
<1>4. CASE ReadLedger(p) \/ ReadSummary(p) \/ ReadReviewCases(p) \/ ReadAudit(p)
  <2>1. Reviewing \in SUBSET Financial
    BY DEF Reviewing, Financial
  <2>2. CASE ReadLedger(p)
    BY <1>2, <2>2 DEF ReadLedger, LedgerOf
  <2>3. CASE ReadSummary(p)
    BY <2>3, SummaryIsInScope, AnswerKeepsScope DEF ReadSummary
  <2>4. CASE ReadReviewCases(p)
    BY <1>2, <2>1, <2>4 DEF ReadReviewCases, CasesOf
  <2>5. CASE ReadAudit(p)
    BY <1>2, <2>1, <2>5 DEF ReadAudit, AuditOf
  <2> QED
    BY <1>4, <2>2, <2>3, <2>4, <2>5
<1>5. ASSUME NEW f \in Firms, ReadTransactions(p, f) PROVE ScopeInv'
  <2> DEFINE rows == {r \in SubmissionsOf(Scope(p, f)) : Role(p) = "WAITER" => r.by = p}
  <2>1. Answers(p, "rows", rows) /\ Role(p) \in Everyone /\ (IsAdmin(p) \/ f = FirmOf(p))
    BY <1>5 DEF ReadTransactions, HasRole
  <2>2. rows \subseteq In(Scope(p, f), {"submission"})
    BY DEF SubmissionsOf
  <2>3. \A r \in rows : r \in records /\ r.op = "submission" /\ (Role(p) = "WAITER" => r.by = p)
    BY DEF SubmissionsOf, In
  <2> HIDE DEF rows
  <2>4. CASE IsAdmin(p)
    <3>1. InScopeOf(p, "rows", rows)
      BY <2>3, <2>4 DEF InScopeOf, IsAdmin
    <3> QED
      BY <2>1, <3>1, AnswerKeepsScope
  <2>5. CASE ~IsAdmin(p)
    <3>1. Role(p) \in {"PRIMARY_OWNER", "MANAGER", "CASHIER", "WAITER"} /\ f = FirmOf(p)
      BY <2>1, <2>5 DEF Everyone, IsAdmin
    <3>2. InScopeOf(p, "rows", rows)
      BY <2>2, <2>3, <3>1, ScopeRowsAreInScope
    <3> QED
      BY <2>1, <3>2, AnswerKeepsScope
  <2> QED
    BY <2>4, <2>5
<1>6. ASSUME NEW f, ReadPlatformAudit(p, f) \/ ReadFraudReviews(p, f) PROVE ScopeInv'
  <2>1. IsAdmin(p) /\ Role(p) \notin {"MANAGER", "CASHIER", "WAITER"}
    BY <1>6 DEF ReadPlatformAudit, ReadFraudReviews, IsAdmin
  <2>2. /\ InScopeOf(p, "audit", AuditOf(Scope(p, f)))
        /\ InScopeOf(p, "rows", FraudOf(Scope(p, f)))
    BY <2>1 DEF InScopeOf, AuditOf, FraudOf, In
  <2> QED
    BY <1>6, <2>2, AnswerKeepsScope DEF ReadPlatformAudit, ReadFraudReviews
<1> QED
  BY <1>3, <1>4, <1>5, <1>6 DEF Read

\* Posts, requests and written rows stay in their domains, a request holds the business and branch
\* its guards found, and both properties below hold: every write and read that BranchScope has.
THEOREM ScopeIsKept == ScopeSpec => []ScopeInv
<1>1. ScopeInit => ScopeInv
  <2> SUFFICES ASSUME ScopeInit PROVE ScopeInv
    OBVIOUS
  <2>1. PICK job \in [Persons -> Jobs] :
          post = [p \in Persons |-> [role |-> job[p].role, site |-> job[p].site, active |-> TRUE]]
    BY DEF ScopeInit
  <2>2. \A j \in Jobs : /\ j = [role |-> j.role, site |-> j.site]
                        /\ [role |-> j.role, site |-> j.site, active |-> TRUE] \in Posts
    BY DEF Posts, Jobs
  <2>3. post \in [Persons -> Posts]
    BY <2>1, <2>2
  <2> QED
    BY <2>3 DEF ScopeInit, ScopeInv, ScopeTypeOK, AdmittedInBranch, BegunInPost, AuthorsWereInPost,
                ReadersStayInScope, Requests, NoRequest, NoAnswer
<1>2. ScopeInv /\ [ScopeNext]_scopeVars => ScopeInv'
  BY ChangesKeepScope, ReadKeepsScope, WriteKeepsScope, BeginKeepsScope, WriteRowsKeepScope
     DEF ScopeNext
<1> QED
  BY <1>1, <1>2, PTL DEF ScopeSpec

\* Every row was written for a person who held the post, in the branch of that post, when the
\* transaction began, whoever is removed or suspended meanwhile: lockScope and its kin.
THEOREM AuthorsAreInPost == ScopeSpec => []AuthorsWereInPost
<1>1. ScopeInv => AuthorsWereInPost
  BY DEF ScopeInv
<1> QED
  BY <1>1, ScopeIsKept, PTL

\* No query answers with a row outside the reader's business, branch and role, but for the purchase
\* locks of the business in a branch's summary and what an administrator reads of all businesses.
THEOREM ReadersAreInScope == ScopeSpec => []ReadersStayInScope
<1>1. ScopeInv => ReadersStayInScope
  BY DEF ScopeInv
<1> QED
  BY <1>1, ScopeIsKept, PTL
-----------------------------------------------------------------------------
(* Migrations.                                                             *)

Runs == [step : {"idle", "locked", "verified"}, command : {"none", "up", "down", "status"},
         release : [newest : 0..Versions, edited : 0..Versions], applied : SUBSET Files]

MigrationTypeOK ==
  /\ run \in [Deployments -> Runs]
  /\ migrated \in [Files -> {"none", "unknown", "written", "edited"}]
  /\ schema \in [Files -> Nat]

\* The session lock has one holder ...
OneRun == \A d, e \in Deployments : d # e /\ run[d].step # "idle" => run[e].step = "idle"

\* ... who therefore knows the rows there are.
VerifiedIsCurrent == \A d \in Deployments : run[d].step = "verified" => run[d].applied = Applied

MigrationInv == MigrationTypeOK /\ OneRun /\ VerifiedIsCurrent /\ RowsMatchSchema

LEMMA RunEndsKeepsOthers ==
  ASSUME MigrationInv, NEW d \in Deployments, RunEnds(d)
  PROVE  /\ run' \in [Deployments -> Runs]
         /\ run'[d].step = "idle" /\ \A e \in Deployments \ {d} : run'[e] = run[e]
<1>1. Idle \in Runs /\ Idle.step = "idle"
  BY MigrationBounds DEF Idle, Runs, Files
<1> QED
  BY <1>1 DEF RunEnds, MigrationInv, MigrationTypeOK

LEMMA LockKeepsRows ==
  ASSUME MigrationInv, NEW d \in Deployments, NEW command \in {"up", "down", "status"},
         NEW release \in Releases, Lock(d, command, release)
  PROVE  MigrationInv'
<1> DEFINE new == [Idle EXCEPT !.step = "locked", !.command = command, !.release = release]
<1>1. new \in Runs /\ new.step = "locked"
  <2>1. Idle \in Runs
    BY MigrationBounds DEF Idle, Runs, Files
  <2>2. release \in [newest : 0..Versions, edited : 0..Versions]
    BY MigrationBounds DEF Releases, Files
  <2> QED
    BY <2>1, <2>2 DEF Runs
<1>2. /\ run' = [run EXCEPT ![d] = new] /\ migrated' = migrated /\ schema' = schema
      /\ \A e \in Deployments \ {d} : run[e].step = "idle"
  BY DEF Lock, LockFree
<1> HIDE DEF new
<1>3. /\ run' \in [Deployments -> Runs]
      /\ run'[d] = new /\ \A e \in Deployments \ {d} : run'[e] = run[e]
  BY <1>1, <1>2 DEF MigrationInv, MigrationTypeOK
<1>4. Applied' = Applied /\ RowsMatchSchema'
  BY <1>2 DEF Applied, MigrationInv, RowsMatchSchema
<1>5. OneRun'
  BY <1>2, <1>3 DEF OneRun
<1>6. VerifiedIsCurrent'
  BY <1>1, <1>2, <1>3, <1>4 DEF VerifiedIsCurrent
<1> QED
  BY <1>2, <1>3, <1>4, <1>5, <1>6 DEF MigrationInv, MigrationTypeOK

LEMMA VerifyKeepsRows ==
  ASSUME MigrationInv, NEW d \in Deployments, VerifyApplied(d)
  PROVE  MigrationInv'
<1>1. /\ migrated' \in [Files -> {"none", "unknown", "written", "edited"}] /\ schema' = schema
      /\ \A v \in Files : migrated'[v] = "none" <=> migrated[v] = "none"
  BY DEF VerifyApplied, MigrationInv, MigrationTypeOK, Applied, TextOf
<1>2. Applied' = Applied
  BY <1>1 DEF Applied
<1>3. \A e \in Deployments \ {d} : run[e].step = "idle"
  BY DEF VerifyApplied, MigrationInv, OneRun
<1>4. /\ run' \in [Deployments -> Runs]
      /\ run'[d].step = "idle" \/ run'[d].applied = Applied
      /\ \A e \in Deployments \ {d} : run'[e] = run[e]
  <2>1. CASE RunEnds(d)
    BY <2>1, RunEndsKeepsOthers
  <2>2. CASE run' = [run EXCEPT ![d].step = "verified", ![d].applied = Applied]
    <3>1. run[d] \in Runs /\ Applied \subseteq Files
      BY DEF MigrationInv, MigrationTypeOK, Applied
    <3> DEFINE new == [run[d] EXCEPT !.step = "verified", !.applied = Applied]
    <3>2. new \in Runs /\ new.applied = Applied
      BY <3>1 DEF Runs
    <3>3. run' = [run EXCEPT ![d] = new]
      BY <2>2 DEF MigrationInv, MigrationTypeOK
    <3> HIDE DEF new
    <3> QED
      BY <3>2, <3>3 DEF MigrationInv, MigrationTypeOK
  <2> QED
    BY <2>1, <2>2 DEF VerifyApplied
<1>5. RowsMatchSchema'
  BY <1>1 DEF MigrationInv, RowsMatchSchema
<1>6. OneRun'
  BY <1>3, <1>4 DEF OneRun
<1>7. VerifiedIsCurrent'
  BY <1>2, <1>3, <1>4 DEF VerifiedIsCurrent
<1> QED
  BY <1>1, <1>4, <1>5, <1>6, <1>7 DEF MigrationInv, MigrationTypeOK

LEMMA UpKeepsRows ==
  ASSUME MigrationInv, NEW d \in Deployments, Up(d)
  PROVE  MigrationInv'
<1> DEFINE missing == (1..run[d].release.newest) \ run[d].applied
<1>1. \A e \in Deployments \ {d} : run[e].step = "idle"
  BY DEF Up, MigrationInv, OneRun
<1>2. CASE RunEnds(d) /\ migrated' = migrated /\ schema' = schema
  <2>1. OneRun' /\ VerifiedIsCurrent'
    BY <1>1, <1>2, RunEndsKeepsOthers DEF OneRun, VerifiedIsCurrent
  <2>2. MigrationTypeOK' /\ RowsMatchSchema'
    BY <1>2, RunEndsKeepsOthers DEF MigrationInv, MigrationTypeOK, RowsMatchSchema
  <2> QED
    BY <2>1, <2>2 DEF MigrationInv
<1>3. ASSUME NEW v \in missing,
             schema' = [schema EXCEPT ![v] = @ + 1], InsertRow(d, v),
             run' = [run EXCEPT ![d].applied = @ \cup {v}]
      PROVE  MigrationInv'
  <2>1. run[d] \in Runs /\ run[d].applied = Applied
    BY DEF Up, MigrationInv, MigrationTypeOK, VerifiedIsCurrent
  <2>2. v \in Files /\ migrated[v] = "none"
    BY <2>1, MigrationBounds DEF Runs, Files, Applied, MigrationInv, MigrationTypeOK
  <2>3. /\ migrated' \in [Files -> {"none", "unknown", "written", "edited"}] /\ migrated'[v] # "none"
        /\ \A w \in Files \ {v} : migrated'[w] = migrated[w]
    BY <1>3, <2>2 DEF InsertRow, TextOf, MigrationInv, MigrationTypeOK
  <2>4. /\ schema' \in [Files -> Nat] /\ schema'[v] = schema[v] + 1
        /\ \A w \in Files \ {v} : schema'[w] = schema[w]
    BY <1>3, <2>2 DEF MigrationInv, MigrationTypeOK, RowsMatchSchema
  <2> DEFINE new == [run[d] EXCEPT !.applied = Applied \cup {v}]
  <2>5. new \in Runs /\ new.applied = Applied \cup {v} /\ new.step = run[d].step
    BY <2>1, <2>2 DEF Runs, Applied
  <2>6. run' = [run EXCEPT ![d] = new]
    BY <1>3, <2>1 DEF MigrationInv, MigrationTypeOK
  <2> HIDE DEF new
  <2>7. /\ run' \in [Deployments -> Runs]
        /\ run'[d] = new /\ \A e \in Deployments \ {d} : run'[e] = run[e]
    BY <2>5, <2>6 DEF MigrationInv, MigrationTypeOK
  <2>8. Applied' = Applied \cup {v}
    BY <2>2, <2>3 DEF Applied
  <2>9. RowsMatchSchema'
    BY <2>2, <2>3, <2>4 DEF MigrationInv, RowsMatchSchema
  <2>10. OneRun' /\ VerifiedIsCurrent'
    BY <1>1, <2>5, <2>7, <2>8 DEF OneRun, VerifiedIsCurrent
  <2> QED
    BY <2>3, <2>4, <2>7, <2>9, <2>10 DEF MigrationInv, MigrationTypeOK
<1> QED
  BY <1>2, <1>3 DEF Up

LEMMA DownKeepsRows ==
  ASSUME MigrationInv, NEW d \in Deployments, Down(d)
  PROVE  MigrationInv'
<1>1. PICK v \in (1..run[d].release.newest) \cap run[d].applied :
        /\ schema' = [schema EXCEPT ![v] = @ - 1]
        /\ migrated'    = [migrated EXCEPT ![v] = "none"]
  BY DEF Down
<1>2. v \in Files /\ migrated[v] # "none"
  BY DEF Down, MigrationInv, MigrationTypeOK, VerifiedIsCurrent, Applied
<1>3. /\ migrated' \in [Files -> {"none", "unknown", "written", "edited"}] /\ migrated'[v] = "none"
      /\ \A w \in Files \ {v} : migrated'[w] = migrated[w]
  BY <1>1, <1>2 DEF MigrationInv, MigrationTypeOK
<1>4. /\ schema' \in [Files -> Nat] /\ schema'[v] = schema[v] - 1
      /\ \A w \in Files \ {v} : schema'[w] = schema[w]
  BY <1>1, <1>2 DEF MigrationInv, MigrationTypeOK, RowsMatchSchema
<1>5. RowsMatchSchema'
  BY <1>2, <1>3, <1>4 DEF MigrationInv, RowsMatchSchema
<1>6. \A e \in Deployments \ {d} : run[e].step = "idle"
  BY DEF Down, MigrationInv, OneRun
<1>7. /\ run' \in [Deployments -> Runs] /\ run'[d].step = "idle"
      /\ \A e \in Deployments \ {d} : run'[e] = run[e]
  BY RunEndsKeepsOthers DEF Down
<1>8. OneRun' /\ VerifiedIsCurrent'
  BY <1>6, <1>7 DEF OneRun, VerifiedIsCurrent
<1> QED
  BY <1>3, <1>4, <1>5, <1>7, <1>8 DEF MigrationInv, MigrationTypeOK

LEMMA MigrationStep == MigrationInv /\ [MigrationNext]_migrationVars => MigrationInv'
<1> SUFFICES ASSUME MigrationInv, [MigrationNext]_migrationVars PROVE MigrationInv'
  OBVIOUS
<1>1. ASSUME NEW d \in Deployments, Fails(d) PROVE MigrationInv'
  <2>1. migrated' = migrated /\ schema' = schema
    BY <1>1 DEF Fails
  <2>2. /\ run' \in [Deployments -> Runs] /\ run'[d].step = "idle"
        /\ \A e \in Deployments \ {d} : run'[e] = run[e]
    BY <1>1, RunEndsKeepsOthers DEF Fails
  <2> QED
    BY <2>1, <2>2
       DEF MigrationInv, MigrationTypeOK, OneRun, VerifiedIsCurrent, RowsMatchSchema, Applied
<1>2. CASE UNCHANGED migrationVars
  BY <1>2 DEF migrationVars, MigrationInv, MigrationTypeOK, OneRun, VerifiedIsCurrent,
              RowsMatchSchema, Applied
<1> QED
  BY <1>1, <1>2, LockKeepsRows, VerifyKeepsRows, UpKeepsRows, DownKeepsRows DEF MigrationNext

\* schema_migrations tells what the schema is, however many deployments run the command with
\* whichever files and wherever they stop: the advisory lock and the transaction of each file.
THEOREM RowsTellTheSchema == MigrationSpec => []RowsMatchSchema
<1>1. MigrationInit => MigrationInv
  <2> SUFFICES ASSUME MigrationInit PROVE MigrationInv
    OBVIOUS
  <2>1. Idle \in Runs /\ Idle.step = "idle"
    BY MigrationBounds DEF Idle, Runs, Files
  <2>2. /\ run \in [Deployments -> Runs] /\ \A d \in Deployments : run[d].step = "idle"
    BY <2>1 DEF MigrationInit
  <2>3. migrated \in [Files -> {"none", "unknown", "written", "edited"}] /\ schema \in [Files -> Nat]
    BY DEF MigrationInit
  <2>4. RowsMatchSchema
    BY DEF MigrationInit, RowsMatchSchema
  <2> QED
    BY <2>2, <2>3, <2>4 DEF MigrationInv, MigrationTypeOK, OneRun, VerifiedIsCurrent
<1>2. MigrationInv => RowsMatchSchema
  BY DEF MigrationInv
<1> QED
  BY <1>1, <1>2, MigrationStep, PTL DEF MigrationSpec
-----------------------------------------------------------------------------
(* Proofs of payment.                                                      *)

InspectedFiles ==
  {f \in [scan : {"CLEAN"}, decision : {"MATCHED", "REVIEW_REQUIRED"}, agrees : BOOLEAN] :
     f.decision = "MATCHED" => f.agrees}

UploadStates ==
  {u \in [step : {"idle", "inspected", "put", "created", "failed", "matched"},
          slot : Slots \cup {0}, file : InspectedFiles \cup {NoFile}] :
     /\ u.step \in {"idle", "inspected"} => u.slot = 0
     /\ u.step \notin {"idle", "inspected"} => u.slot # 0
     /\ u.step # "idle" => u.file \in InspectedFiles}

IntakeTypeOK ==
  /\ upload   \in [Uploads -> UploadStates]
  /\ stored   \subseteq Slots
  /\ receipt  \in [Slots -> InspectedFiles \cup {NoFile}]
  /\ decision \in [Slots -> {"none", "MATCHED", "REVIEW_REQUIRED"}]

\* No two uploads write under one key.
OwnSlots ==
  \A u, v \in Uploads : u # v /\ upload[u].slot # 0 => upload[u].slot # upload[v].slot

\* What has been done for the file of a running upload.
UploadsAreBacked ==
  \A u \in Uploads :
    LET s == upload[u].slot IN
    /\ upload[u].step \in {"put", "created"} => s \in stored
    /\ upload[u].step = "created" => receipt[s] = upload[u].file
    /\ upload[u].step \in {"put", "created", "failed"} => decision[s] = "none"
    /\ upload[u].step = "matched" => decision[s] = "MATCHED"

\* A decision is on a receipt whose object is kept.
DecisionsAreBacked ==
  \A s \in Slots :
    decision[s] # "none" =>
      /\ s \in stored /\ receipt[s] \in InspectedFiles
      /\ decision[s] = receipt[s].decision

PreparedIsMatched == prepared => \E s \in Slots : decision[s] = "MATCHED"

EvidenceInv ==
  IntakeTypeOK /\ OwnSlots /\ UploadsAreBacked /\ DecisionsAreBacked /\ PreparedIsMatched

\* A payload that is matched says nothing against the transaction: its reference is the
\* transaction's, and no field was read twice.
LEMMA MatchedAgrees ==
  ASSUME NEW p \in Payloads
  PROVE  /\ Decision(p) \in {"MATCHED", "REVIEW_REQUIRED"} /\ Agrees(p) \in BOOLEAN
         /\ Decision(p) = "MATCHED" => Agrees(p)
<1>1. Decision(p) = "MATCHED" => ParsedStatus(p) = "COMPLETE" /\ Matches(p)
  BY DEF Decision
<1>2. ParsedStatus(p) = "COMPLETE" => \A f \in Fields : p.says[f] # "two"
  BY DEF ParsedStatus
<1>3. ParsedStatus(p) = "COMPLETE" /\ Matches(p) => Agrees(p)
  BY <1>2 DEF Matches, Agrees, Fields
<1> QED
  BY <1>1, <1>3 DEF Decision, Agrees

LEMMA InspectedIsTyped ==
  ASSUME NEW o \in Outcomes
  PROVE  [scan |-> "CLEAN", decision |-> o.decision, agrees |-> o.agrees] \in InspectedFiles
<1>1. /\ o.decision \in {"MATCHED", "REVIEW_REQUIRED"} /\ o.agrees \in BOOLEAN
      /\ o.decision = "MATCHED" => o.agrees
  <2>1. CASE o \in [decision : {"REVIEW_REQUIRED"}, agrees : {FALSE}]
    BY <2>1
  <2>2. ASSUME NEW p \in Payloads, o = [decision |-> Decision(p), agrees |-> Agrees(p)]
        PROVE  /\ o.decision \in {"MATCHED", "REVIEW_REQUIRED"} /\ o.agrees \in BOOLEAN
               /\ o.decision = "MATCHED" => o.agrees
    <3>1. o.decision = Decision(p) /\ o.agrees = Agrees(p)
      BY <2>2
    <3> QED
      BY <3>1, MatchedAgrees
  <2> QED
    BY <2>1, <2>2 DEF Outcomes
<1> QED
  BY <1>1 DEF InspectedFiles

LEMMA IdleIsTyped == IdleUpload \in UploadStates /\ IdleUpload.step = "idle" /\ IdleUpload.slot = 0
BY DEF IdleUpload, UploadStates

\* An upload that ends leaves the others and what it has done.
LEMMA EndsKeepsEvidence ==
  ASSUME EvidenceInv, NEW u \in Uploads, UploadEnds(u),
         stored' = stored, receipt' = receipt, decision' = decision, prepared' = prepared
  PROVE  EvidenceInv'
<1>1. /\ upload' \in [Uploads -> UploadStates]
      /\ upload'[u] = IdleUpload /\ \A v \in Uploads \ {u} : upload'[v] = upload[v]
  BY IdleIsTyped DEF UploadEnds, EvidenceInv, IntakeTypeOK
<1>2. OwnSlots' /\ UploadsAreBacked'
  BY <1>1, IdleIsTyped DEF EvidenceInv, OwnSlots, UploadsAreBacked
<1> QED
  BY <1>1, <1>2 DEF EvidenceInv, IntakeTypeOK, DecisionsAreBacked, PreparedIsMatched

LEMMA InspectKeepsEvidence ==
  ASSUME EvidenceInv, NEW u \in Uploads, NEW a \in Actors, NEW scan, Inspect(u, a, scan)
  PROVE  EvidenceInv'
<1>1. PICK o \in Outcomes :
        upload' = [upload EXCEPT ![u] = [IdleUpload EXCEPT !.step = "inspected",
                     !.file = [scan |-> scan, decision |-> o.decision, agrees |-> o.agrees]]]
  BY DEF Inspect
<1> DEFINE file == [scan |-> "CLEAN", decision |-> o.decision, agrees |-> o.agrees]
           new  == [step |-> "inspected", slot |-> 0, file |-> file]
<1>2. file \in InspectedFiles
  BY InspectedIsTyped
<1>3. upload' = [upload EXCEPT ![u] = new]
  BY <1>1 DEF Inspect, Passes, IdleUpload
<1> HIDE DEF file
<1>4. new \in UploadStates /\ new.step = "inspected" /\ new.slot = 0
  BY <1>2 DEF UploadStates
<1> HIDE DEF new
<1>5. /\ upload' \in [Uploads -> UploadStates]
      /\ upload'[u] = new /\ \A v \in Uploads \ {u} : upload'[v] = upload[v]
  BY <1>3, <1>4 DEF EvidenceInv, IntakeTypeOK
<1>6. stored' = stored /\ receipt' = receipt /\ decision' = decision /\ prepared' = prepared
  BY DEF Inspect
<1>7. OwnSlots' /\ UploadsAreBacked'
  BY <1>4, <1>5, <1>6 DEF EvidenceInv, OwnSlots, UploadsAreBacked
<1> QED
  BY <1>5, <1>6, <1>7 DEF EvidenceInv, IntakeTypeOK, DecisionsAreBacked, PreparedIsMatched

LEMMA PutKeepsEvidence ==
  ASSUME EvidenceInv, NEW u \in Uploads, Put(u)
  PROVE  EvidenceInv'
<1>1. PICK s \in FreeSlots :
        \/ /\ stored' = stored \cup {s}
           /\ upload' = [upload EXCEPT ![u].step = "put", ![u].slot = s]
        \/ UploadEnds(u) /\ stored' \in {stored, stored \cup {s}}
  BY DEF Put
<1>2. /\ s \in Slots /\ s # 0 /\ s \notin stored /\ receipt[s] = NoFile
      /\ \A v \in Uploads : upload[v].slot # s
  BY ReceiptBound DEF FreeSlots, Slots
<1>3. /\ upload[u] \in UploadStates /\ upload[u].step = "inspected"
      /\ receipt' = receipt /\ decision' = decision /\ prepared' = prepared
  BY DEF Put, EvidenceInv, IntakeTypeOK
<1>4. decision[s] = "none"
  BY <1>2 DEF EvidenceInv, DecisionsAreBacked
<1>5. /\ stored \subseteq stored' /\ stored' \subseteq Slots
  BY <1>1, <1>2 DEF EvidenceInv, IntakeTypeOK
<1>6. DecisionsAreBacked' /\ PreparedIsMatched'
  BY <1>3, <1>5 DEF EvidenceInv, DecisionsAreBacked, PreparedIsMatched
<1>7. CASE UploadEnds(u)
  <2>1. /\ upload' \in [Uploads -> UploadStates]
        /\ upload'[u] = IdleUpload /\ \A v \in Uploads \ {u} : upload'[v] = upload[v]
    BY <1>7, IdleIsTyped DEF UploadEnds, EvidenceInv, IntakeTypeOK
  <2>2. OwnSlots' /\ UploadsAreBacked'
    BY <1>3, <1>5, <2>1, IdleIsTyped DEF EvidenceInv, OwnSlots, UploadsAreBacked
  <2> QED
    BY <1>3, <1>5, <1>6, <2>1, <2>2 DEF EvidenceInv, IntakeTypeOK
<1>8. CASE /\ stored' = stored \cup {s}
           /\ upload' = [upload EXCEPT ![u].step = "put", ![u].slot = s]
  <2> DEFINE new == [upload[u] EXCEPT !.step = "put", !.slot = s]
  <2>1. new \in UploadStates /\ new.step = "put" /\ new.slot = s
    BY <1>2, <1>3 DEF UploadStates
  <2>2. upload' = [upload EXCEPT ![u] = new]
    BY <1>8 DEF EvidenceInv, IntakeTypeOK
  <2> HIDE DEF new
  <2>3. /\ upload' \in [Uploads -> UploadStates]
        /\ upload'[u] = new /\ \A v \in Uploads \ {u} : upload'[v] = upload[v]
    BY <2>1, <2>2 DEF EvidenceInv, IntakeTypeOK
  <2>4. OwnSlots'
    BY <1>2, <2>1, <2>3 DEF EvidenceInv, OwnSlots
  <2>5. UploadsAreBacked'
    BY <1>3, <1>4, <1>8, <2>1, <2>3 DEF EvidenceInv, UploadsAreBacked
  <2> QED
    BY <1>3, <1>5, <1>6, <2>3, <2>4, <2>5 DEF EvidenceInv, IntakeTypeOK
<1> QED
  BY <1>1, <1>7, <1>8

\* An upload that moves on without giving up its slot.
LEMMA GoesIsTyped ==
  ASSUME IntakeTypeOK, NEW u \in Uploads, NEW step \in {"created", "failed", "matched"},
         upload[u].slot # 0, upload[u].step # "idle", UploadGoes(u, step)
  PROVE  /\ upload' \in [Uploads -> UploadStates]
         /\ upload'[u].step = step /\ upload'[u].slot = upload[u].slot
         /\ upload'[u].file = upload[u].file
         /\ \A v \in Uploads \ {u} : upload'[v] = upload[v]
<1> DEFINE new == [upload[u] EXCEPT !.step = step]
<1>1. upload[u] \in UploadStates
  BY DEF IntakeTypeOK
<1>2. /\ new \in UploadStates /\ new.step = step
      /\ new.slot = upload[u].slot /\ new.file = upload[u].file
  BY <1>1 DEF UploadStates
<1>3. upload' = [upload EXCEPT ![u] = new]
  BY DEF UploadGoes, IntakeTypeOK
<1> HIDE DEF new
<1> QED
  BY <1>2, <1>3 DEF IntakeTypeOK

LEMMA CreateReceiptKeepsEvidence ==
  ASSUME EvidenceInv, NEW u \in Uploads, CreateReceipt(u)
  PROVE  EvidenceInv'
<1> DEFINE s == upload[u].slot
<1>1. /\ upload[u] \in UploadStates /\ upload[u].step = "put"
      /\ stored' = stored /\ decision' = decision /\ prepared' = prepared
  BY DEF CreateReceipt, EvidenceInv, IntakeTypeOK
<1>2. s \in Slots /\ s # 0 /\ upload[u].file \in InspectedFiles /\ decision[s] = "none" /\ s \in stored
  BY <1>1 DEF UploadStates, EvidenceInv, UploadsAreBacked
<1>3. /\ receipt' \in [Slots -> InspectedFiles \cup {NoFile}]
      /\ \A r \in Slots \ {s} : receipt'[r] = receipt[r]
      /\ \/ UploadGoes(u, "created") /\ receipt'[s] = upload[u].file
         \/ UploadGoes(u, "failed")
  BY <1>2 DEF CreateReceipt, EvidenceInv, IntakeTypeOK
<1>4. DecisionsAreBacked' /\ PreparedIsMatched'
  BY <1>1, <1>2, <1>3 DEF EvidenceInv, DecisionsAreBacked, PreparedIsMatched
<1>5. ASSUME NEW step \in {"created", "failed"}, UploadGoes(u, step),
             step = "created" => receipt'[s] = upload[u].file
      PROVE  EvidenceInv'
  <2>1. /\ upload' \in [Uploads -> UploadStates]
        /\ upload'[u].step = step /\ upload'[u].slot = s /\ upload'[u].file = upload[u].file
        /\ \A v \in Uploads \ {u} : upload'[v] = upload[v]
    BY <1>1, <1>2, <1>5, GoesIsTyped DEF EvidenceInv
  <2>2. \A v \in Uploads \ {u} : upload[v].slot # s
    BY <1>2 DEF EvidenceInv, OwnSlots
  <2>3. OwnSlots'
    BY <2>1 DEF EvidenceInv, OwnSlots
  <2>4. ASSUME NEW v \in Uploads \ {u}, upload[v].step = "created" PROVE upload[v].slot \in Slots \ {s}
    BY <2>2, <2>4 DEF EvidenceInv, IntakeTypeOK, UploadStates
  <2>5. UploadsAreBacked'
    BY <1>1, <1>2, <1>3, <1>5, <2>1, <2>2, <2>4 DEF EvidenceInv, UploadsAreBacked
  <2> QED
    BY <1>1, <1>3, <1>4, <2>1, <2>3, <2>5 DEF EvidenceInv, IntakeTypeOK
<1> QED
  BY <1>3, <1>5
LEMMA DeleteObjectKeepsEvidence ==
  ASSUME EvidenceInv, NEW u \in Uploads, DeleteObject(u)
  PROVE  EvidenceInv'
<1> DEFINE s == upload[u].slot
<1>1. /\ upload[u].step = "failed" /\ upload[u].slot # 0 /\ UploadEnds(u)
      /\ receipt' = receipt /\ decision' = decision /\ prepared' = prepared
      /\ stored' \subseteq stored /\ stored \ {s} \subseteq stored'
  BY DEF DeleteObject, EvidenceInv, IntakeTypeOK, UploadStates
<1>2. decision[s] = "none" /\ \A v \in Uploads \ {u} : upload[v].slot # s
  BY <1>1 DEF EvidenceInv, UploadsAreBacked, OwnSlots
<1>3. /\ upload' \in [Uploads -> UploadStates]
      /\ upload'[u] = IdleUpload /\ \A v \in Uploads \ {u} : upload'[v] = upload[v]
  BY <1>1, IdleIsTyped DEF UploadEnds, EvidenceInv, IntakeTypeOK
<1>4. OwnSlots'
  BY <1>3, IdleIsTyped DEF EvidenceInv, OwnSlots
<1>5. UploadsAreBacked'
  BY <1>1, <1>2, <1>3, IdleIsTyped DEF EvidenceInv, UploadsAreBacked
<1>6. DecisionsAreBacked'
  BY <1>1, <1>2 DEF EvidenceInv, DecisionsAreBacked
<1> QED
  BY <1>1, <1>3, <1>4, <1>5, <1>6 DEF EvidenceInv, IntakeTypeOK, PreparedIsMatched

LEMMA MatchKeepsEvidence ==
  ASSUME EvidenceInv, NEW u \in Uploads, MatchReceipt(u)
  PROVE  EvidenceInv'
<1> DEFINE s == upload[u].slot
           d == upload[u].file.decision
<1>1. /\ upload[u] \in UploadStates /\ upload[u].step = "created"
      /\ stored' = stored /\ receipt' = receipt /\ prepared' = prepared
  BY DEF MatchReceipt, EvidenceInv, IntakeTypeOK
<1>2. /\ s \in Slots /\ s # 0 /\ upload[u].file \in InspectedFiles
      /\ s \in stored /\ receipt[s] = upload[u].file /\ decision[s] = "none"
  BY <1>1 DEF UploadStates, EvidenceInv, UploadsAreBacked
<1>3. CASE decision' = decision
  BY <1>1, <1>2, <1>3, EndsKeepsEvidence DEF MatchReceipt, RecordDecision, EvidenceInv, IntakeTypeOK,
     InspectedFiles
<1>4. ASSUME decision' = [decision EXCEPT ![s] = d],
             \/ UploadEnds(u)
             \/ d = "MATCHED" /\ UploadGoes(u, "matched")
      PROVE  EvidenceInv'
  <2>1. d \in {"MATCHED", "REVIEW_REQUIRED"}
    BY <1>2 DEF InspectedFiles
  <2>2. /\ decision' \in [Slots -> {"none", "MATCHED", "REVIEW_REQUIRED"}]
        /\ decision'[s] = d /\ \A r \in Slots \ {s} : decision'[r] = decision[r]
    BY <1>2, <1>4, <2>1 DEF EvidenceInv, IntakeTypeOK
  <2>3. DecisionsAreBacked'
    BY <1>1, <1>2, <2>2 DEF EvidenceInv, DecisionsAreBacked
  <2>4. PreparedIsMatched'
    BY <1>1, <1>2, <2>2 DEF EvidenceInv, PreparedIsMatched
  <2>5. \A v \in Uploads \ {u} :
          /\ upload[v].slot # s
          /\ upload[v].step \notin {"idle", "inspected"} => upload[v].slot \in Slots
    BY <1>2 DEF EvidenceInv, OwnSlots, IntakeTypeOK, UploadStates
  <2>6. /\ upload' \in [Uploads -> UploadStates]
        /\ \/ upload'[u] = IdleUpload
           \/ upload'[u].step = "matched" /\ upload'[u].slot = s /\ d = "MATCHED"
        /\ \A v \in Uploads \ {u} : upload'[v] = upload[v]
    <3>1. CASE UploadEnds(u)
      BY <3>1, IdleIsTyped DEF UploadEnds, EvidenceInv, IntakeTypeOK
    <3>2. CASE d = "MATCHED" /\ UploadGoes(u, "matched")
      BY <1>1, <1>2, <3>2, GoesIsTyped DEF EvidenceInv
    <3> QED
      BY <1>4, <3>1, <3>2
  <2>7. OwnSlots'
    BY <2>5, <2>6, IdleIsTyped DEF EvidenceInv, OwnSlots
  <2>8. UploadsAreBacked'
    BY <1>1, <1>2, <2>2, <2>5, <2>6, IdleIsTyped DEF EvidenceInv, UploadsAreBacked
  <2> QED
    BY <1>1, <2>2, <2>3, <2>4, <2>6, <2>7, <2>8 DEF EvidenceInv, IntakeTypeOK
<1> QED
  BY <1>3, <1>4 DEF MatchReceipt, RecordDecision

LEMMA PrepareKeepsEvidence ==
  ASSUME EvidenceInv, NEW u \in Uploads, Prepare(u)
  PROVE  EvidenceInv'
<1>1. /\ UploadEnds(u) /\ upload[u].step = "matched" /\ prepared' \in {prepared, TRUE}
      /\ stored' = stored /\ receipt' = receipt /\ decision' = decision
  BY DEF Prepare
<1>2. upload[u].slot \in Slots /\ decision[upload[u].slot] = "MATCHED"
  BY <1>1 DEF EvidenceInv, UploadsAreBacked, IntakeTypeOK, UploadStates
<1>3. PreparedIsMatched'
  BY <1>1, <1>2 DEF PreparedIsMatched
<1>4. /\ upload' \in [Uploads -> UploadStates]
      /\ upload'[u] = IdleUpload /\ \A v \in Uploads \ {u} : upload'[v] = upload[v]
  BY <1>1, IdleIsTyped DEF UploadEnds, EvidenceInv, IntakeTypeOK
<1>5. OwnSlots' /\ UploadsAreBacked'
  BY <1>1, <1>4, IdleIsTyped DEF EvidenceInv, OwnSlots, UploadsAreBacked
<1> QED
  BY <1>1, <1>3, <1>4, <1>5 DEF EvidenceInv, IntakeTypeOK, DecisionsAreBacked

LEMMA EvidenceStep == EvidenceInv /\ [IntakeNext]_intakeVars => EvidenceInv'
<1> SUFFICES ASSUME EvidenceInv, [IntakeNext]_intakeVars PROVE EvidenceInv'
  OBVIOUS
<1>1. ASSUME upload' = upload, stored' = stored, receipt' = receipt, decision' = decision,
             prepared' = prepared
      PROVE  EvidenceInv'
  BY <1>1 DEF EvidenceInv, IntakeTypeOK, OwnSlots, UploadsAreBacked, DecisionsAreBacked,
              PreparedIsMatched
<1>2. ASSUME NEW u \in Uploads, Stop(u) PROVE EvidenceInv'
  BY <1>2, EndsKeepsEvidence DEF Stop
<1>3. ASSUME NEW a \in Actors, NEW s \in Slots, Acknowledge(a, s) \/ Resolve(a, s)
      PROVE  EvidenceInv'
  BY <1>1, <1>3 DEF Acknowledge, Resolve
<1>4. CASE UNCHANGED intakeVars
  BY <1>1, <1>4 DEF intakeVars
<1> QED
  BY <1>2, <1>3, <1>4, InspectKeepsEvidence, PutKeepsEvidence, CreateReceiptKeepsEvidence,
     DeleteObjectKeepsEvidence, MatchKeepsEvidence, PrepareKeepsEvidence DEF IntakeNext

\* Objects, receipts and decisions stay in their domains, a receipt's object was scanned and stored,
\* a decision has its receipt and a prepared payment its match: the steps of ProofIntakeService.
THEOREM EvidenceIsBacked == IntakeSpec => []EvidenceInv
<1>1. IntakeInit => EvidenceInv
  BY IdleIsTyped DEF IntakeInit, EvidenceInv, IntakeTypeOK, OwnSlots, UploadsAreBacked,
                     DecisionsAreBacked, PreparedIsMatched
<1> QED
  BY <1>1, EvidenceStep, PTL DEF IntakeSpec

\* A payment is prepared for verification on a clean, stored and recorded file that says nothing
\* against the transaction, whatever failed or stopped on the way and whoever uploads meanwhile.
THEOREM PreparedOnEvidence == IntakeSpec => []PreparedHasEvidence
<1>1. EvidenceInv => PreparedHasEvidence
  BY DEF EvidenceInv, PreparedIsMatched, DecisionsAreBacked, PreparedHasEvidence, InspectedFiles
<1> QED
  BY <1>1, EvidenceIsBacked, PTL
-----------------------------------------------------------------------------
(* The review of proofs.                                                   *)

Reviews == [status : {"none", "OPEN", "ACKNOWLEDGED", "RESOLVED"},
            acknowledged : Actors \cup {Nobody}, resolved : Actors \cup {Nobody}]

LogOf(s) == {<<h.to, h.by>> : h \in {g \in reviewLog : g.slot = s}}

\* The history that a case should have.
Expected(c) ==
  CASE c.status = "none"         -> {}
    [] c.status = "OPEN"         -> {<<"OPEN", Nobody>>}
    [] c.status = "ACKNOWLEDGED" -> {<<"OPEN", Nobody>>, <<"ACKNOWLEDGED", c.acknowledged>>}
    [] OTHER -> {<<"OPEN", Nobody>>, <<"ACKNOWLEDGED", c.acknowledged>>, <<"RESOLVED", c.resolved>>}

ReviewedAsFlagged ==
  \A s \in Slots : /\ decision[s] = "REVIEW_REQUIRED" <=> review[s].status # "none"
                   /\ LogOf(s) = Expected(review[s])

ReviewInv == review \in [Slots -> Reviews] /\ ReviewedAsFlagged

LEMMA LogGrows ==
  ASSUME NEW s \in Slots, NEW to, NEW by,
         reviewLog' = reviewLog \cup {[slot |-> s, to |-> to, by |-> by]}
  PROVE  /\ LogOf(s)' = LogOf(s) \cup {<<to, by>>}
         /\ \A r \in Slots \ {s} : LogOf(r)' = LogOf(r)
<1> DEFINE new == [slot |-> s, to |-> to, by |-> by]
<1>1. {g \in reviewLog' : g.slot = s} = {g \in reviewLog : g.slot = s} \cup {new}
  OBVIOUS
<1>2. \A r \in Slots \ {s} : {g \in reviewLog' : g.slot = r} = {g \in reviewLog : g.slot = r}
  OBVIOUS
<1>3. new.to = to /\ new.by = by
  OBVIOUS
<1> HIDE DEF new
<1>4. \A G : {<<h.to, h.by>> : h \in G \cup {new}} = {<<h.to, h.by>> : h \in G} \cup {<<to, by>>}
  BY <1>3
<1>5. LogOf(s)' = LogOf(s) \cup {<<to, by>>}
  BY <1>1, <1>4 DEF LogOf
<1>6. \A r \in Slots \ {s} : LogOf(r)' = LogOf(r)
  BY <1>2 DEF LogOf
<1> QED
  BY <1>5, <1>6

LEMMA SameCases ==
  ASSUME ReviewInv, review' = review, reviewLog' = reviewLog,
         \A r \in Slots : decision'[r] = "REVIEW_REQUIRED" <=> decision[r] = "REVIEW_REQUIRED"
  PROVE  ReviewInv'
<1>1. \A r \in Slots : LogOf(r)' = LogOf(r)
  BY DEF LogOf
<1>2. \A r \in Slots : Expected(review[r])' = Expected(review[r])
  BY DEF Expected
<1> QED
  BY <1>1, <1>2 DEF ReviewInv, ReviewedAsFlagged

\* A case that takes its next step on record.
CaseGoes(s, new, to, by) ==
  /\ new \in Reviews /\ new.status # "none"
  /\ review' = [review EXCEPT ![s] = new]
  /\ reviewLog' = reviewLog \cup {[slot |-> s, to |-> to, by |-> by]}
  /\ Expected(new) = Expected(review[s]) \cup {<<to, by>>}
  /\ decision'[s] = "REVIEW_REQUIRED" /\ \A r \in Slots \ {s} : decision'[r] = decision[r]

LEMMA CaseStep ==
  ASSUME ReviewInv, NEW s \in Slots, NEW new, NEW to, NEW by, CaseGoes(s, new, to, by)
  PROVE  ReviewInv'
<1> USE DEF CaseGoes
<1>1. /\ review' \in [Slots -> Reviews] /\ review'[s] = new
      /\ \A r \in Slots \ {s} : review'[r] = review[r]
  BY DEF ReviewInv
<1>2. /\ LogOf(s)' = LogOf(s) \cup {<<to, by>>}
      /\ \A r \in Slots \ {s} : LogOf(r)' = LogOf(r)
  BY LogGrows
<1>3. Expected(review[s])' = Expected(new)
  BY <1>1 DEF Expected
<1>4. \A r \in Slots \ {s} : Expected(review[r])' = Expected(review[r])
  BY <1>1 DEF Expected
<1>5. ReviewedAsFlagged'
  BY <1>1, <1>2, <1>3, <1>4 DEF ReviewInv, ReviewedAsFlagged
<1> QED
  BY <1>1, <1>5 DEF ReviewInv

LEMMA DecideKeepsReview ==
  ASSUME EvidenceInv, ReviewInv, NEW u \in Uploads, upload[u].step = "created", RecordDecision(u)
  PROVE  ReviewInv'
<1>0. /\ upload[u].slot \in Slots /\ decision[upload[u].slot] = "none"
      /\ upload[u].file.decision \in {"MATCHED", "REVIEW_REQUIRED"}
  BY DEF EvidenceInv, IntakeTypeOK, UploadStates, UploadsAreBacked, InspectedFiles
<1> PICK s \in Slots, d \in {"MATCHED", "REVIEW_REQUIRED"} :
      s = upload[u].slot /\ d = upload[u].file.decision
  BY <1>0
<1>1. decision[s] = "none"
  BY <1>0
<1>2. decision' = [decision EXCEPT ![s] = d]
  BY DEF RecordDecision
<1>3. decision'[s] = d /\ \A r \in Slots \ {s} : decision'[r] = decision[r]
  BY <1>1, <1>2 DEF EvidenceInv, IntakeTypeOK
<1>4. review[s] \in Reviews /\ review[s].status = "none"
  BY <1>1 DEF ReviewInv, ReviewedAsFlagged, Reviews
<1>5. CASE d = "MATCHED"
  <2>1. review' = review /\ reviewLog' = reviewLog
    BY <1>5 DEF RecordDecision
  <2>2. \A r \in Slots : decision'[r] = "REVIEW_REQUIRED" <=> decision[r] = "REVIEW_REQUIRED"
    BY <1>1, <1>3, <1>5
  <2> QED
    BY <2>1, <2>2, SameCases
<1>6. CASE d = "REVIEW_REQUIRED"
  <2> DEFINE new == [review[s] EXCEPT !.status = "OPEN"]
  <2>1. /\ reviewLog' = reviewLog \cup {[slot |-> s, to |-> "OPEN", by |-> Nobody]}
        /\ review' = [review EXCEPT ![s].status = "OPEN"]
    BY <1>6 DEF RecordDecision
  <2>2. review' = [review EXCEPT ![s] = new]
    BY <2>1 DEF ReviewInv
  <2>3. new \in Reviews /\ new.status = "OPEN"
    BY <1>4 DEF Reviews
  <2> HIDE DEF new
  <2>4. Expected(new) = Expected(review[s]) \cup {<<"OPEN", Nobody>>}
    BY <1>4, <2>3 DEF Expected
  <2>5. decision'[s] = "REVIEW_REQUIRED" /\ \A r \in Slots \ {s} : decision'[r] = decision[r]
    BY <1>3, <1>6
  <2>6. reviewLog' = reviewLog \cup {[slot |-> s, to |-> "OPEN", by |-> Nobody]}
    BY <2>1
  <2>7. new \in Reviews /\ new.status # "none"
    BY <2>3
  <2>8. CaseGoes(s, new, "OPEN", Nobody)
    BY <2>2, <2>4, <2>5, <2>6, <2>7 DEF CaseGoes
  <2> QED
    BY <2>8, CaseStep
<1> QED
  BY <1>1, <1>5, <1>6

LEMMA AcknowledgeKeepsReview ==
  ASSUME ReviewInv, NEW a \in Actors, NEW s \in Slots, Acknowledge(a, s)
  PROVE  ReviewInv'
<1> DEFINE new == [review[s] EXCEPT !.status = "ACKNOWLEDGED", !.acknowledged = a]
<1>1. /\ review' = [review EXCEPT ![s] = new] /\ decision' = decision
      /\ review[s] \in Reviews /\ review[s].status = "OPEN"
      /\ reviewLog' = reviewLog \cup {[slot |-> s, to |-> "ACKNOWLEDGED", by |-> a]}
  BY DEF Acknowledge, AcknowledgeWithin, Logged, ReviewInv
<1>2. new \in Reviews /\ new.status = "ACKNOWLEDGED" /\ new.acknowledged = a
  BY <1>1 DEF Reviews
<1> HIDE DEF new
<1>3. Expected(new) = Expected(review[s]) \cup {<<"ACKNOWLEDGED", a>>}
  BY <1>1, <1>2 DEF Expected
<1>4. decision[s] = "REVIEW_REQUIRED"
  BY <1>1 DEF ReviewInv, ReviewedAsFlagged
<1>5. CaseGoes(s, new, "ACKNOWLEDGED", a)
  BY <1>1, <1>2, <1>3, <1>4 DEF CaseGoes
<1> QED
  BY <1>5, CaseStep

LEMMA ResolveKeepsReview ==
  ASSUME ReviewInv, NEW a \in Actors, NEW s \in Slots, Resolve(a, s)
  PROVE  ReviewInv'
<1> DEFINE new == [review[s] EXCEPT !.status = "RESOLVED", !.resolved = a]
<1>1. /\ review' = [review EXCEPT ![s] = new] /\ decision' = decision
      /\ review[s] \in Reviews /\ review[s].status = "ACKNOWLEDGED"
      /\ reviewLog' = reviewLog \cup {[slot |-> s, to |-> "RESOLVED", by |-> a]}
  BY DEF Resolve, ResolveWithin, Resolvable, Logged, ReviewInv
<1>2. /\ new \in Reviews /\ new.status = "RESOLVED" /\ new.resolved = a
      /\ new.acknowledged = review[s].acknowledged
  BY <1>1 DEF Reviews
<1> HIDE DEF new
<1>3. Expected(new) = Expected(review[s]) \cup {<<"RESOLVED", a>>}
  BY <1>1, <1>2 DEF Expected
<1>4. decision[s] = "REVIEW_REQUIRED"
  BY <1>1 DEF ReviewInv, ReviewedAsFlagged
<1>5. CaseGoes(s, new, "RESOLVED", a)
  BY <1>1, <1>2, <1>3, <1>4 DEF CaseGoes
<1> QED
  BY <1>5, CaseStep

LEMMA ReviewStep == EvidenceInv /\ ReviewInv /\ [IntakeNext]_intakeVars => ReviewInv'
<1> SUFFICES ASSUME EvidenceInv, ReviewInv, [IntakeNext]_intakeVars PROVE ReviewInv'
  OBVIOUS
<1>1. ASSUME decision' = decision, review' = review, reviewLog' = reviewLog PROVE ReviewInv'
  BY <1>1, SameCases
<1>2. ASSUME NEW u \in Uploads, MatchReceipt(u) PROVE ReviewInv'
  BY <1>1, <1>2, DecideKeepsReview DEF MatchReceipt
<1>3. ASSUME NEW u \in Uploads,
             \/ \E a \in Actors, scan \in {"CLEAN", "INFECTED", "ERROR"} : Inspect(u, a, scan)
             \/ Put(u) \/ CreateReceipt(u) \/ DeleteObject(u) \/ Prepare(u) \/ Stop(u)
      PROVE  ReviewInv'
  BY <1>1, <1>3 DEF Inspect, Put, CreateReceipt, DeleteObject, Prepare, Stop
<1>4. CASE UNCHANGED intakeVars
  BY <1>1, <1>4 DEF intakeVars
<1> QED
  BY <1>2, <1>3, <1>4, AcknowledgeKeepsReview, ResolveKeepsReview DEF IntakeNext

\* A proof that does not match has a case, a proof that does has none, and the case's history is
\* the steps its status tells, each by the person it names: recordWithin, acknowledge, resolve.
THEOREM FlaggedAreReviewed == IntakeSpec => []FlaggedIsReviewed
<1>1. IntakeInit => ReviewInv
  BY DEF IntakeInit, ReviewInv, ReviewedAsFlagged, Reviews, NoReview, LogOf, Expected
<1>2. IntakeSpec => []ReviewInv
  BY <1>1, ReviewStep, EvidenceIsBacked, PTL DEF IntakeSpec
<1>3. ReviewInv => FlaggedIsReviewed
  BY DEF ReviewInv, ReviewedAsFlagged, LogOf, Expected, FlaggedIsReviewed
<1> QED
  BY <1>2, <1>3, PTL
-----------------------------------------------------------------------------
(* The browser's session.                                                  *)

Tokens == [grant : Grants \cup {0}, token : Nat]

TabCalls == [step : {"quiet", "signingIn", "denied", "refreshing", "refreshed", "refused",
                     "signingOut", "leaving"}, sent : Tokens, got : Tokens]

Cookies == [access : Grants \cup {0}, refresh : Tokens, role : Users \cup {Missing}]

GrantRows == [who : Users \cup {Missing}, live : BOOLEAN, token : Nat]

GrantStates == [Grants -> GrantRows]

WebTypeOK ==
  /\ tab \in [Tabs -> TabCalls]
  /\ jar \in Cookies
  /\ grant \in GrantStates

\* An answer that sets cookies brings a token.
AnswersBringTokens ==
  \A t \in Tabs : tab[t].step \in {"signingIn", "refreshed"} =>
    tab[t].got # NoToken /\ tab[t].got.grant \in Grants

\* What is rotated is a token of a session.
SentTokensAreReal == \A t \in Tabs : tab[t].step = "refreshing" => tab[t].sent # NoToken

\* A token the browser holds names its session, so that the next one does.
TokensNameGrants ==
  /\ jar.refresh # NoToken => jar.refresh.grant \in Grants
  /\ \A t \in Tabs : tab[t].sent # NoToken => tab[t].sent.grant \in Grants

WebInv ==
  WebTypeOK /\ AnswersBringTokens /\ SentTokensAreReal /\ TokensNameGrants /\ PortalHasToken

LEMMA QuietIsTyped ==
  /\ NoToken \in Tokens /\ Quiet \in TabCalls /\ Quiet.step = "quiet" /\ Quiet.sent = NoToken
  /\ Empty \in Cookies /\ Empty.refresh = NoToken /\ Empty.role = Missing
BY DEF Quiet, TabCalls, Tokens, NoToken, Empty, Cookies

\* A call that is in order, with cookies that are.
LEMMA TabStep ==
  ASSUME WebInv, NEW t \in Tabs, NEW new \in TabCalls, Step(t, new),
         new.step \in {"signingIn", "refreshed"} => new.got # NoToken /\ new.got.grant \in Grants,
         new.step = "refreshing" => new.sent # NoToken,
         new.sent # NoToken => new.sent.grant \in Grants,
         grant' \in GrantStates,
         jar' \in Cookies,
         jar'.refresh # NoToken => jar'.refresh.grant \in Grants,
         jar'.role \in Users => jar'.refresh # NoToken
  PROVE  WebInv'
<1>1. /\ tab' \in [Tabs -> TabCalls]
      /\ tab'[t] = new /\ \A s \in Tabs \ {t} : tab'[s] = tab[s]
  BY DEF Step, WebInv, WebTypeOK
<1>2. AnswersBringTokens'
  BY <1>1 DEF WebInv, AnswersBringTokens
<1>3. SentTokensAreReal'
  BY <1>1 DEF WebInv, SentTokensAreReal
<1>4. TokensNameGrants'
  BY <1>1 DEF WebInv, TokensNameGrants
<1>5. PortalHasToken'
  BY DEF PortalHasToken, Admits
<1> QED
  BY <1>1, <1>2, <1>3, <1>4, <1>5 DEF WebInv, WebTypeOK

\* Cookies that change without a call.
LEMMA JarStep ==
  ASSUME WebInv, tab' = tab, jar' \in Cookies,
         grant' \in GrantStates,
         jar'.refresh # NoToken => jar'.refresh.grant \in Grants,
         jar'.role \in Users => jar'.refresh # NoToken
  PROVE  WebInv'
BY DEF WebInv, WebTypeOK, AnswersBringTokens, SentTokensAreReal, TokensNameGrants,
       PortalHasToken, Admits

LEMMA JarIsTyped ==
  ASSUME WebInv
  PROVE  /\ jar \in Cookies /\ (jar.refresh # NoToken => jar.refresh.grant \in Grants)
         /\ jar.role \in Users => jar.refresh # NoToken
         /\ grant \in GrantStates
BY DEF WebInv, WebTypeOK, TokensNameGrants, PortalHasToken, Admits

LEMMA SignInKeepsToken ==
  ASSUME WebInv, NEW t \in Tabs, NEW u \in Users, SignIn(t, u)
  PROVE  WebInv'
<1>1. PICK g \in Grants :
        /\ grant' = [grant EXCEPT ![g] = [who |-> u, live |-> TRUE, token |-> 0]]
        /\ Step(t, [Quiet EXCEPT !.step = "signingIn", !.got = [grant |-> g, token |-> 0]])
        /\ jar' = jar
  BY DEF SignIn
<1> DEFINE new == [Quiet EXCEPT !.step = "signingIn", !.got = [grant |-> g, token |-> 0]]
<1>2. g # 0 /\ [grant |-> g, token |-> 0] \in Tokens
  BY WebBounds DEF Grants, Tokens
<1>3. /\ new \in TabCalls /\ new.step = "signingIn" /\ new.sent = NoToken
      /\ new.got # NoToken /\ new.got.grant \in Grants
  BY <1>2, QuietIsTyped DEF TabCalls, NoToken
<1>4. Step(t, new)
  BY <1>1
<1> HIDE DEF new
<1>5. grant' \in GrantStates
  BY <1>1, JarIsTyped DEF GrantStates, GrantRows
<1> QED
  BY <1>1, <1>3, <1>4, <1>5, JarIsTyped, TabStep
\* A call that ends and leaves cookies that are in order.
LEMMA QuietStep ==
  ASSUME WebInv, NEW t \in Tabs, Step(t, Quiet), grant' = grant, jar' \in Cookies,
         jar'.refresh # NoToken => jar'.refresh.grant \in Grants,
         jar'.role \in Users => jar'.refresh # NoToken
  PROVE  WebInv'
BY QuietIsTyped, JarIsTyped, TabStep

LEMMA AnswersKeepToken ==
  ASSUME WebInv, NEW t \in Tabs,
         SignedIn(t) \/ Refreshed(t) \/ Refused(t) \/ SignedOut(t) \/ AnswerLost(t)
  PROVE  WebInv'
<1>1. Step(t, Quiet) /\ grant' = grant
  BY DEF SignedIn, Refreshed, Refused, SignedOut, AnswerLost
<1>2. tab[t] \in TabCalls /\ jar \in Cookies
  BY DEF WebInv, WebTypeOK
<1>3. tab[t].step \in {"signingIn", "refreshed"} =>
        tab[t].got # NoToken /\ tab[t].got \in Tokens /\ tab[t].got.grant \in Grants
  BY <1>2 DEF WebInv, AnswersBringTokens, TabCalls
<1>4. CASE SignedIn(t)
  <2> DEFINE new == [access |-> tab[t].got.grant, refresh |-> tab[t].got,
                     role |-> grant[tab[t].got.grant].who]
  <2>1. jar' = new /\ tab[t].step = "signingIn"
    BY <1>4 DEF SignedIn
  <2>2. new \in Cookies /\ new.refresh = tab[t].got
    BY <1>3, <2>1, JarIsTyped DEF Cookies, GrantStates, GrantRows
  <2> HIDE DEF new
  <2> QED
    BY <1>1, <1>3, <2>1, <2>2, QuietStep
<1>5. CASE Refreshed(t)
  <2> DEFINE new == [jar EXCEPT !.access = tab[t].got.grant, !.refresh = tab[t].got]
  <2>1. jar' = new /\ tab[t].step = "refreshed"
    BY <1>5 DEF Refreshed
  <2>2. new \in Cookies /\ new.refresh = tab[t].got
    BY <1>2, <1>3, <2>1 DEF Cookies
  <2> HIDE DEF new
  <2> QED
    BY <1>1, <1>3, <2>1, <2>2, QuietStep
<1>6. CASE Refused(t) \/ SignedOut(t)
  <2>1. jar' = Empty
    BY <1>6 DEF Refused, SignedOut, CookiesCleared
  <2> QED
    BY <1>1, <2>1, QuietIsTyped, MissingApart, QuietStep
<1>7. CASE AnswerLost(t)
  <2>1. jar' = jar
    BY <1>7 DEF AnswerLost
  <2> QED
    BY <1>1, <2>1, JarIsTyped, QuietStep
<1> QED
  BY <1>4, <1>5, <1>6, <1>7

LEMMA RequestsKeepToken ==
  ASSUME WebInv, NEW t \in Tabs, Denied(t) \/ AskRefresh(t) \/ AskSignOut(t)
  PROVE  WebInv'
<1>1. jar' = jar /\ grant' = grant
  BY DEF Denied, AskRefresh, AskSignOut
<1>2. jar.refresh \in Tokens
  BY JarIsTyped DEF Cookies
<1>3. ASSUME NEW step \in {"denied", "refreshing", "signingOut"},
             NEW sent \in Tokens, sent = NoToken \/ sent = jar.refresh,
             step = "refreshing" => sent # NoToken,
             Step(t, [Quiet EXCEPT !.step = step, !.sent = sent])
      PROVE  WebInv'
  <2> DEFINE new == [Quiet EXCEPT !.step = step, !.sent = sent]
  <2>1. new \in TabCalls /\ new.step = step /\ new.sent = sent
    BY <1>3, QuietIsTyped DEF TabCalls
  <2>2. Step(t, new)
    BY <1>3
  <2> HIDE DEF new
  <2> QED
    BY <1>1, <1>3, <2>1, <2>2, JarIsTyped, TabStep
<1>4. CASE Denied(t)
  <2> DEFINE new == [Quiet EXCEPT !.step = "denied"]
  <2>1. new \in TabCalls /\ new.step = "denied" /\ new.sent = NoToken
    BY QuietIsTyped DEF TabCalls
  <2>2. Step(t, new)
    BY <1>4 DEF Denied
  <2> HIDE DEF new
  <2> QED
    BY <1>1, <2>1, <2>2, JarIsTyped, TabStep
<1>5. CASE AskRefresh(t)
  BY <1>1, <1>2, <1>3, <1>5, JarIsTyped, QuietStep DEF AskRefresh
<1>6. CASE AskSignOut(t)
  BY <1>2, <1>3, <1>6 DEF AskSignOut
<1> QED
  BY <1>4, <1>5, <1>6

LEMMA BackendKeepsToken ==
  ASSUME WebInv, NEW t \in Tabs, BackendRefreshes(t) \/ BackendSignsOut(t)
  PROVE  WebInv'
<1> DEFINE sent == tab[t].sent
<1>1. tab[t] \in TabCalls /\ sent \in Tokens /\ jar' = jar
  BY DEF WebInv, WebTypeOK, TabCalls, BackendRefreshes, BackendSignsOut
<1>2. /\ sent # NoToken => sent.grant \in Grants
      /\ tab[t].step = "refreshing" => sent # NoToken
  BY DEF WebInv, TokensNameGrants, SentTokensAreReal
<1>3. ASSUME NEW step \in {"refused", "leaving"}, Step(t, [tab[t] EXCEPT !.step = step]),
             grant' \in GrantStates
      PROVE  WebInv'
  <2> DEFINE new == [tab[t] EXCEPT !.step = step]
  <2>1. new \in TabCalls /\ new.step = step /\ new.sent = sent
    BY <1>1 DEF TabCalls
  <2>2. Step(t, new)
    BY <1>3
  <2> HIDE DEF new
  <2> QED
    BY <1>1, <1>2, <1>3, <2>1, <2>2, JarIsTyped, TabStep
<1>4. ASSUME tab[t].step = "refreshing", grant' = [grant EXCEPT ![sent.grant].token = @ + 1],
             Step(t, [tab[t] EXCEPT !.step = "refreshed", !.got = [sent EXCEPT !.token = @ + 1]])
      PROVE  WebInv'
  <2> DEFINE got == [sent EXCEPT !.token = @ + 1]
             new == [tab[t] EXCEPT !.step = "refreshed", !.got = got]
  <2>1. got \in Tokens /\ got # NoToken /\ got.grant = sent.grant
    BY <1>1 DEF Tokens, NoToken
  <2>2. Step(t, new)
    BY <1>4
  <2> HIDE DEF got
  <2>3. new \in TabCalls /\ new.step = "refreshed" /\ new.sent = sent /\ new.got = got
    BY <1>1, <2>1 DEF TabCalls
  <2> HIDE DEF new
  <2>4. grant' \in GrantStates
    <3>1. grant \in GrantStates /\ sent.grant \in Grants
      BY <1>2, <1>4, JarIsTyped
    <3>2. [grant[sent.grant] EXCEPT !.token = @ + 1] \in GrantRows
      BY <3>1 DEF GrantStates, GrantRows
    <3> QED
      BY <1>4, <3>1, <3>2 DEF GrantStates
  <2>5. new.got # NoToken /\ new.got.grant \in Grants /\ new.sent.grant \in Grants
    BY <1>2, <1>4, <2>1, <2>3
  <2>6. /\ jar' \in Cookies /\ (jar'.refresh # NoToken => jar'.refresh.grant \in Grants)
        /\ jar'.role \in Users => jar'.refresh # NoToken
    BY <1>1, JarIsTyped
  <2>7. new.step # "refreshing" /\ new \in TabCalls
    BY <2>3
  <2> QED
    BY <2>2, <2>4, <2>5, <2>6, <2>7, TabStep
<1>5. CASE BackendRefreshes(t)
  BY <1>3, <1>4, <1>5, JarIsTyped DEF BackendRefreshes
<1>6. CASE BackendSignsOut(t)
  <2>1. grant' \in GrantStates
    <3>1. grant' = grant \/ grant' = [grant EXCEPT ![sent.grant].live = FALSE]
      BY <1>6 DEF BackendSignsOut
    <3>2. grant \in GrantStates
      BY JarIsTyped
    <3>3. ASSUME sent.grant \in Grants
          PROVE  [grant EXCEPT ![sent.grant].live = FALSE] \in GrantStates
      <4>1. [grant[sent.grant] EXCEPT !.live = FALSE] \in GrantRows
        BY <3>2, <3>3 DEF GrantStates, GrantRows
      <4> QED
        BY <3>2, <4>1 DEF GrantStates
    <3>4. ASSUME sent.grant \notin Grants
          PROVE  [grant EXCEPT ![sent.grant].live = FALSE] = grant
      BY <3>2, <3>4 DEF GrantStates
    <3> QED
      BY <3>1, <3>2, <3>3, <3>4
  <2> QED
    BY <1>3, <1>6, <2>1 DEF BackendSignsOut
<1> QED
  BY <1>5, <1>6

LEMMA ExpiriesKeepToken ==
  ASSUME WebInv,
         AccessExpires \/ RoleExpires \/ RefreshExpires \/ \E g \in Grants : GrantEnds(g)
  PROVE  WebInv'
<1>1. jar' \in Cookies /\ tab' = tab
  BY JarIsTyped, QuietIsTyped
     DEF AccessExpires, RoleExpires, RefreshExpires, GrantEnds, Cookies
<1>2. grant' \in GrantStates
  <2>1. ASSUME NEW g \in Grants, GrantEnds(g)
        PROVE  grant' \in GrantStates
    <3>1. grant \in GrantStates
      BY JarIsTyped
    <3> QED
      BY <2>1, <3>1 DEF GrantEnds, GrantStates, GrantRows
  <2>2. CASE AccessExpires \/ RoleExpires \/ RefreshExpires
    <3>1. grant' = grant
      BY <2>2 DEF AccessExpires, RoleExpires, RefreshExpires
    <3> QED
      BY <3>1, JarIsTyped
  <2> QED
    BY <2>1, <2>2
<1>3. /\ jar'.refresh # NoToken => jar'.refresh.grant \in Grants
      /\ jar'.role \in Users => jar'.refresh # NoToken
  BY JarIsTyped, MissingApart, QuietIsTyped
     DEF AccessExpires, RoleExpires, RefreshExpires, GrantEnds, Cookies
<1> QED
  BY <1>1, <1>2, <1>3, JarStep

\* A browser that the middleware admits to a portal can refresh its session, however the answers
\* to its tabs and the ends of its cookies' lives interleave.
THEOREM PortalsHaveTokens == WebSpec => []PortalHasToken
<1>1. WebInit => WebInv
  BY QuietIsTyped, MissingApart
     DEF WebInit, WebInv, WebTypeOK, AnswersBringTokens, SentTokensAreReal, TokensNameGrants,
         PortalHasToken, Admits, NoGrant, GrantStates, GrantRows
<1>2. WebInv /\ [WebNext]_webVars => WebInv'
  <2> SUFFICES ASSUME WebInv, [WebNext]_webVars PROVE WebInv'
    OBVIOUS
  <2>1. CASE UNCHANGED webVars
    BY <2>1, JarIsTyped, JarStep DEF webVars
  <2> QED
    BY <2>1, SignInKeepsToken, AnswersKeepToken, RequestsKeepToken, BackendKeepsToken,
       ExpiriesKeepToken DEF WebNext
<1>3. WebInv => PortalHasToken
  BY DEF WebInv
<1> QED
  BY <1>1, <1>2, <1>3, PTL DEF WebSpec

-----------------------------------------------------------------------------
(* Who may work in a business, and their sessions.                         *)

Roles       == {"PRIMARY_OWNER", "PLATFORM_SUPER_ADMIN", "MANAGER", "CASHIER", "WAITER"}
PersonRows  == [role : Roles, branch : Branches \cup {NoOne},
                status : {"none", "PENDING", "ACTIVE", "REMOVED"}]
SessionRows == [who : People \cup {NoOne}, status : {"none", "ACTIVE", "REVOKED"},
                past : BOOLEAN, token : Nat]
CallStates  == [step : {"idle", "selected", "begun", "inserted", "issued", "found", "rotated"},
                who : People \cup {NoOne}, session : 0..MaxSessions, token : Nat,
                replaced : SUBSET Sessions]
RemovalStates == [step : {"idle", "removing"}, revoked : SUBSET Sessions]

AccessTypeOK ==
  /\ business \in BusinessStatuses
  /\ branches \in SUBSET Branches
  /\ person \in [People -> PersonRows]
  /\ session \in [Sessions -> SessionRows]
  /\ call \in [Calls -> CallStates]
  /\ removal \in [Staff -> RemovalStates]
  /\ spent \in SUBSET (Sessions \X Nat)

Opened(c) == call[c].step \in {"begun", "inserted"}

\* What a call may count on: the context it checked stays in force while its transaction is open;
\* the session it inserted is nobody else's yet, a waiter's active ones are among those it
\* replaces, and no removal of the user has begun; a session it holds was created.
CallKnows(c) ==
  /\ call[c].step \in {"selected", "begun", "inserted"} => call[c].who \in People
  /\ Opened(c) => InForce(call[c].who)
  /\ call[c].step = "inserted" =>
       /\ call[c].session \in Sessions /\ session[call[c].session].status = "none"
       /\ \A s \in call[c].replaced : session[s].status # "none"
       /\ IsWaiter(call[c].who) => ActiveSessions(call[c].who) \subseteq call[c].replaced
       /\ call[c].who \in Staff => removal[call[c].who].step = "idle"
  /\ call[c].step \in {"issued", "found", "rotated"} =>
       call[c].session \in Sessions /\ session[call[c].session].status # "none"

CallsKnow == \A c \in Calls : CallKnows(c)

\* The advisory lock serialises the logins of a user.
LoginsTakeTurns ==
  \A c, d \in Calls : c # d /\ Opened(c) /\ Opened(d) /\ call[c].who = call[d].who =>
    call[c].who = Admin

\* Two logins never insert the same session.
InsertedApart ==
  \A c, d \in Calls : c # d /\ call[c].step = "inserted" /\ call[d].step = "inserted" =>
    call[c].session # call[d].session

\* What a removal may count on: its person is still active, it revokes all active sessions there
\* are, and a manager who is removed leaves another one.
RemovalKnows(u) ==
  removal[u].step = "removing" =>
    /\ person[u].status = "ACTIVE"
    /\ ActiveSessions(u) \subseteq removal[u].revoked
    /\ \A s \in removal[u].revoked : session[s].status # "none"
    /\ person[u].role = "MANAGER" => \E v \in Managers(person[u].branch) : v # u

RemovalsKnow == \A u \in Staff : RemovalKnows(u)

\* The branch's lock serialises its removals.
RemovalsTakeTurns ==
  \A u, v \in Staff : u # v /\ removal[u].step = "removing" /\ removal[v].step = "removing" =>
    person[u].branch # person[v].branch

\* Nobody has a session before being hired.
HiredStartFresh == \A u \in Staff : person[u].status = "none" => ActiveSessions(u) = {}

AdminStays == person[Admin].status = "ACTIVE" /\ ~IsWaiter(Admin)

\* A token that was accepted is behind the token of its session.
SpentAreBehind ==
  \A s \in Sessions, n \in Nat : <<s, n>> \in spent =>
    session[s].status # "none" /\ (session[s].status = "ACTIVE" => n < session[s].token)

WaitersHaveOne == \A u \in Staff : IsWaiter(u) => \A s, t \in ActiveSessions(u) : s = t

AccessInv ==
  /\ AccessTypeOK /\ CallsKnow /\ LoginsTakeTurns /\ InsertedApart
  /\ RemovalsKnow /\ RemovalsTakeTurns /\ HiredStartFresh /\ AdminStays
  /\ SpentAreBehind /\ WaitersHaveOne /\ RemovalEndsSessions

LEMMA AccessRows ==
  /\ NoSession \in SessionRows /\ IdleCall \in CallStates /\ IdleRemoval \in RemovalStates
  /\ NoSession.status = "none" /\ IdleCall.step = "idle" /\ IdleRemoval.step = "idle"
<1>1. NoSession \in SessionRows /\ NoSession.status = "none"
  BY DEF NoSession, SessionRows
<1>2. IdleCall \in CallStates /\ IdleCall.step = "idle"
  BY SessionBounds DEF IdleCall, CallStates, Sessions
<1>3. IdleRemoval \in RemovalStates /\ IdleRemoval.step = "idle"
  BY DEF IdleRemoval, RemovalStates
<1> QED
  BY <1>1, <1>2, <1>3

LEMMA AccessStarts == AccessInit => AccessInv
<1> SUFFICES ASSUME AccessInit PROVE AccessInv
  OBVIOUS
<1>1. /\ \A s \in Sessions : session[s].status = "none"
      /\ \A c \in Calls : call[c].step = "idle"
      /\ \A u \in Staff : removal[u].step = "idle"
      /\ \A u \in Staff : person[u].status = "none"
      /\ spent = {}
  BY AccessRows, PeopleApart DEF AccessInit, People
<1>2. \A u : ActiveSessions(u) = {}
  BY <1>1 DEF ActiveSessions
<1>3. person \in [People -> PersonRows]
  BY DEF AccessInit, PersonRows, Roles
<1>4. AccessTypeOK
  BY <1>3, AccessRows DEF AccessInit, AccessTypeOK, BusinessStatuses
<1>5. AdminStays
  <2>1. person[Admin] = [role |-> "PLATFORM_SUPER_ADMIN", branch |-> NoOne, status |-> "ACTIVE"]
    BY PeopleApart DEF AccessInit, People
  <2> QED
    BY <2>1 DEF AdminStays, IsWaiter
<1>6. CallsKnow /\ LoginsTakeTurns /\ InsertedApart
  BY <1>1 DEF CallsKnow, CallKnows, LoginsTakeTurns, InsertedApart, Opened
<1>7. RemovalsKnow /\ RemovalsTakeTurns
  BY <1>1 DEF RemovalsKnow, RemovalKnows, RemovalsTakeTurns
<1>8. HiredStartFresh /\ SpentAreBehind /\ WaitersHaveOne /\ RemovalEndsSessions
  BY <1>1, <1>2 DEF HiredStartFresh, SpentAreBehind, WaitersHaveOne, RemovalEndsSessions
<1> QED
  BY <1>4, <1>5, <1>6, <1>7, <1>8 DEF AccessInv

\* What the parts of the invariant about calls, removals and people rest on, when sessions only
\* end and nobody's context changes.
SessionsOnlyEnd ==
  \A s \in Sessions :
    /\ session'[s].who = session[s].who
    /\ \/ session'[s].status = session[s].status
       \/ session[s].status # "none" /\ session'[s].status = "REVOKED"
    /\ session'[s].status = "ACTIVE" => session'[s].token >= session[s].token

LEMMA FewerSessions ==
  ASSUME SessionsOnlyEnd
  PROVE  /\ \A u : ActiveSessions(u)' \subseteq ActiveSessions(u)
         /\ \A s \in Sessions : session'[s].status = "none" <=> session[s].status = "none"
BY DEF SessionsOnlyEnd, ActiveSessions

LEMMA RevokedOnlyEnds ==
  ASSUME AccessTypeOK, NEW S \in SUBSET Sessions, \A s \in S : session[s].status # "none",
         session' = Revoked(S)
  PROVE  /\ session' \in [Sessions -> SessionRows] /\ SessionsOnlyEnd
         /\ \A s \in S : session'[s].status = "REVOKED"
<1>1. session \in [Sessions -> SessionRows]
  BY DEF AccessTypeOK
<1>2. ASSUME NEW s \in Sessions
      PROVE  /\ [NoSession EXCEPT !.who = session[s].who, !.status = "REVOKED"] \in SessionRows
             /\ [NoSession EXCEPT !.who = session[s].who, !.status = "REVOKED"].who = session[s].who
             /\ [NoSession EXCEPT !.who = session[s].who, !.status = "REVOKED"].status = "REVOKED"
  <2>1. session[s] \in SessionRows
    BY <1>1
  <2>2. [NoSession EXCEPT !.who = session[s].who, !.status = "REVOKED"] \in SessionRows
    BY <2>1 DEF NoSession, SessionRows
  <2> QED
    BY <2>2 DEF NoSession
<1>3. \A s \in Sessions : session'[s] =
        IF s \in S THEN [NoSession EXCEPT !.who = session[s].who, !.status = "REVOKED"]
        ELSE session[s]
  BY DEF Revoked
<1>4. session' \in [Sessions -> SessionRows]
  BY <1>1, <1>2 DEF Revoked
<1>5. \A s \in Sessions : session[s].token \in Nat
  BY <1>1 DEF SessionRows
<1>6. SessionsOnlyEnd
  <2> SUFFICES ASSUME NEW s \in Sessions
               PROVE  /\ session'[s].who = session[s].who
                      /\ \/ session'[s].status = session[s].status
                         \/ session[s].status # "none" /\ session'[s].status = "REVOKED"
                      /\ session'[s].status = "ACTIVE" => session'[s].token >= session[s].token
    BY DEF SessionsOnlyEnd
  <2>1. CASE s \in S
    BY <1>2, <1>3, <2>1
  <2>2. CASE s \notin S
    <3>1. session'[s] = session[s]
      BY <1>3, <2>2
    <3> QED
      BY <1>5, <3>1
  <2> QED
    BY <2>1, <2>2
<1> QED
  BY <1>2, <1>3, <1>4, <1>6

\* A step in which sessions only end, calls only move on to states that hold no user's lock, and
\* people stay as they are.
LEMMA SessionsEnd ==
  ASSUME AccessInv,
         UNCHANGED <<business, branches, person, removal>>,
         session' \in [Sessions -> SessionRows], SessionsOnlyEnd,
         call' \in [Calls -> CallStates],
         \A c \in Calls : \/ call'[c] = call[c]
                          \/ CallKnows(c)' /\ call'[c].step \notin {"begun", "inserted"},
         spent' \in SUBSET (Sessions \X Nat), SpentAreBehind'
  PROVE  AccessInv'
<1> USE DEF AccessInv
<1>1. /\ \A u : ActiveSessions(u)' \subseteq ActiveSessions(u)
      /\ \A s \in Sessions : session'[s].status = "none" <=> session[s].status = "none"
  BY FewerSessions
<1>2. AccessTypeOK'
  BY DEF AccessTypeOK
<1>3. \A u : (IsWaiter(u)' <=> IsWaiter(u)) /\ (InForce(u)' <=> InForce(u))
  BY DEF IsWaiter, InForce
<1>4. ASSUME NEW d \in Calls PROVE CallKnows(d)'
  <2>1. CallKnows(d) /\ call[d].replaced \in SUBSET Sessions
    BY DEF CallsKnow, AccessTypeOK, CallStates
  <2>2. ASSUME call'[d] = call[d] PROVE CallKnows(d)'
    BY <1>1, <1>3, <2>1, <2>2 DEF CallKnows, Opened
  <2> QED
    BY <2>2
<1>5. CallsKnow'
  BY <1>4 DEF CallsKnow
<1>6. \A d \in Calls : Opened(d)' => Opened(d) /\ call'[d] = call[d]
  BY DEF Opened
<1>7. LoginsTakeTurns' /\ InsertedApart'
  <2>1. \A d \in Calls : call'[d].step = "inserted" => call'[d] = call[d]
    BY <1>6 DEF Opened
  <2> QED
    BY <1>6, <2>1 DEF LoginsTakeTurns, InsertedApart
<1>8. RemovalsKnow' /\ RemovalsTakeTurns'
  <2>1. \A u \in Staff : removal[u].revoked \in SUBSET Sessions
    BY DEF AccessTypeOK, RemovalStates
  <2>2. \A b : Managers(b)' = Managers(b)
    BY DEF Managers
  <2> QED
    BY <1>1, <2>1, <2>2 DEF RemovalsKnow, RemovalKnows, RemovalsTakeTurns
<1>9. HiredStartFresh' /\ AdminStays' /\ WaitersHaveOne' /\ RemovalEndsSessions'
  BY <1>1, <1>3 DEF HiredStartFresh, AdminStays, WaitersHaveOne, RemovalEndsSessions
<1> QED
  BY <1>2, <1>5, <1>7, <1>8, <1>9

\* The ways a call's record moves on.
LEMMA CallMoves ==
  ASSUME AccessTypeOK, NEW c \in Calls
  PROVE  /\ Rests(c) => /\ call' \in [Calls -> CallStates] /\ call'[c].step = "idle"
                        /\ \A d \in Calls \ {c} : call'[d] = call[d]
         /\ \A k \in CallStates : call' = [call EXCEPT ![c] = k] =>
              /\ call' \in [Calls -> CallStates] /\ call'[c] = k
              /\ \A d \in Calls \ {c} : call'[d] = call[d]
<1>1. call \in [Calls -> CallStates]
  BY DEF AccessTypeOK
<1>2. ASSUME NEW k \in CallStates, call' = [call EXCEPT ![c] = k]
      PROVE  /\ call' \in [Calls -> CallStates] /\ call'[c] = k
             /\ \A d \in Calls \ {c} : call'[d] = call[d]
  BY <1>1, <1>2
<1> QED
  BY <1>2, AccessRows DEF Rests

LEMMA CallRows ==
  ASSUME NEW k \in CallStates
  PROVE  /\ \A step \in {"begun", "rotated"} :
              /\ [k EXCEPT !.step = step] \in CallStates
              /\ [k EXCEPT !.step = step].step = step
              /\ [k EXCEPT !.step = step].who = k.who
              /\ [k EXCEPT !.step = step].session = k.session
         /\ /\ [k EXCEPT !.step = "issued", !.replaced = {}] \in CallStates
            /\ [k EXCEPT !.step = "issued", !.replaced = {}].step = "issued"
            /\ [k EXCEPT !.step = "issued", !.replaced = {}].session = k.session
<1>1. \A step \in {"begun", "rotated"} :
        /\ [k EXCEPT !.step = step] \in CallStates
        /\ [k EXCEPT !.step = step].step = step
        /\ [k EXCEPT !.step = step].who = k.who
        /\ [k EXCEPT !.step = step].session = k.session
  <2> SUFFICES ASSUME NEW step \in {"begun", "rotated"}
               PROVE  /\ [k EXCEPT !.step = step] \in CallStates
                      /\ [k EXCEPT !.step = step].step = step
                      /\ [k EXCEPT !.step = step].who = k.who
                      /\ [k EXCEPT !.step = step].session = k.session
    OBVIOUS
  <2>1. [k EXCEPT !.step = step] \in CallStates
    BY DEF CallStates
  <2> QED
    BY <2>1 DEF CallStates
<1>2. /\ [k EXCEPT !.step = "issued", !.replaced = {}] \in CallStates
      /\ [k EXCEPT !.step = "issued", !.replaced = {}].step = "issued"
      /\ [k EXCEPT !.step = "issued", !.replaced = {}].session = k.session
  <2>1. [k EXCEPT !.step = "issued", !.replaced = {}] \in CallStates
    BY DEF CallStates
  <2> QED
    BY <2>1 DEF CallStates
<1> QED
  BY <1>1, <1>2


LEMMA CallsRest ==
  ASSUME AccessInv, NEW c \in Calls, Rests(c)
  PROVE  /\ call' \in [Calls -> CallStates]
         /\ \A d \in Calls : \/ call'[d] = call[d]
                             \/ CallKnows(d)' /\ call'[d].step \notin {"begun", "inserted"}
<1>1. /\ call' \in [Calls -> CallStates] /\ call'[c].step = "idle"
      /\ \A d \in Calls \ {c} : call'[d] = call[d]
  BY CallMoves DEF AccessInv
<1>2. CallKnows(c)'
  BY <1>1 DEF CallKnows, Opened
<1> QED
  BY <1>1, <1>2

LEMMA SessionsStay ==
  ASSUME AccessTypeOK, session' = session
  PROVE  session' \in [Sessions -> SessionRows] /\ SessionsOnlyEnd
<1>1. session \in [Sessions -> SessionRows]
  BY DEF AccessTypeOK
<1>2. \A s \in Sessions : session[s].token \in Nat
  BY <1>1 DEF SessionRows
<1> QED
  BY <1>1, <1>2 DEF SessionsOnlyEnd

LEMMA SpentStayBehind ==
  ASSUME AccessTypeOK, SpentAreBehind, spent' = spent, session' \in [Sessions -> SessionRows],
         SessionsOnlyEnd
  PROVE  spent' \in SUBSET (Sessions \X Nat) /\ SpentAreBehind'
<1>1. \A s \in Sessions : session[s].token \in Nat /\ session'[s].token \in Nat
  BY DEF AccessTypeOK, SessionRows
<1>2. SpentAreBehind'
  BY <1>1 DEF SpentAreBehind, SessionsOnlyEnd
<1> QED
  BY <1>2 DEF AccessTypeOK

LEMMA SessionsKeepAccess ==
  ASSUME AccessInv,
         \/ \E s \in Sessions : Logout(s) \/ SessionPasses(s)
         \/ \E c \in Calls : Answer(c) \/ Compensate(c)
  PROVE  AccessInv'
<1> USE DEF AccessInv
<1>1. /\ session \in [Sessions -> SessionRows] /\ call \in [Calls -> CallStates]
      /\ \A s \in Sessions : session[s] \in SessionRows
  BY DEF AccessTypeOK
<1>2. UNCHANGED <<business, branches, person, removal, spent>>
  BY DEF Logout, SessionPasses, Answer, Compensate
<1>3. session' \in [Sessions -> SessionRows] /\ SessionsOnlyEnd
  <2>1. ASSUME NEW s \in Sessions, Logout(s)
        PROVE  session' \in [Sessions -> SessionRows] /\ SessionsOnlyEnd
    <3>1. {s} \in SUBSET Sessions /\ \A t \in {s} : session[t].status # "none"
      BY <2>1 DEF Logout
    <3>2. session' = Revoked({s})
      BY <2>1 DEF Logout
    <3> QED
      BY <3>1, <3>2, RevokedOnlyEnds
  <2>2. ASSUME NEW s \in Sessions, SessionPasses(s)
        PROVE  session' \in [Sessions -> SessionRows] /\ SessionsOnlyEnd
    <3>1. session' = [session EXCEPT ![s] = [session[s] EXCEPT !.past = TRUE]]
      BY <2>2 DEF SessionPasses
    <3>2. [session[s] EXCEPT !.past = TRUE] \in SessionRows
      BY <1>1 DEF SessionRows
    <3>3. /\ [session[s] EXCEPT !.past = TRUE].who = session[s].who
          /\ [session[s] EXCEPT !.past = TRUE].status = session[s].status
          /\ [session[s] EXCEPT !.past = TRUE].token = session[s].token
      BY <1>1 DEF SessionRows
    <3>4. \A t \in Sessions : session[t].token \in Nat
      BY <1>1 DEF SessionRows
    <3> QED
      BY <1>1, <3>1, <3>2, <3>3, <3>4 DEF SessionsOnlyEnd
  <2>3. ASSUME NEW c \in Calls, Answer(c) \/ Compensate(c)
        PROVE  session' \in [Sessions -> SessionRows] /\ SessionsOnlyEnd
    <3>1. call[c].session \in Sessions /\ session[call[c].session].status # "none"
      BY <2>3 DEF CallsKnow, CallKnows, Answer, Compensate
    <3>2. session' = session \/ session' = Revoked({call[c].session})
      BY <2>3 DEF Answer, Compensate
    <3>3. CASE session' = session
      BY <3>3, SessionsStay
    <3>4. CASE session' = Revoked({call[c].session})
      <4>1. {call[c].session} \in SUBSET Sessions /\ \A t \in {call[c].session} : session[t].status # "none"
        BY <3>1
      <4> QED
        BY <3>4, <4>1, RevokedOnlyEnds
    <3> QED
      BY <3>2, <3>3, <3>4
  <2> QED
    BY <2>1, <2>2, <2>3
<1>4. /\ call' \in [Calls -> CallStates]
      /\ \A d \in Calls : \/ call'[d] = call[d]
                          \/ CallKnows(d)' /\ call'[d].step \notin {"begun", "inserted"}
  <2>1. ASSUME NEW c \in Calls, Answer(c) \/ Compensate(c)
        PROVE  /\ call' \in [Calls -> CallStates]
               /\ \A d \in Calls : \/ call'[d] = call[d]
                                   \/ CallKnows(d)' /\ call'[d].step \notin {"begun", "inserted"}
    BY <2>1, CallsRest DEF Answer, Compensate
  <2> QED
    BY <1>1, <2>1 DEF Logout, SessionPasses
<1>5. spent' \in SUBSET (Sessions \X Nat) /\ SpentAreBehind'
  BY <1>2, <1>3, SpentStayBehind
<1> QED
  BY <1>2, <1>3, <1>4, <1>5, SessionsEnd

LEMMA RotateKeepsAccess ==
  ASSUME AccessInv, NEW c \in Calls, Rotate(c)
  PROVE  AccessInv' /\ (call'[c].step = "rotated" => <<call[c].session, call[c].token>> \notin spent)
<1> DEFINE s == call[c].session
<1> USE DEF AccessInv
<1>1. /\ session \in [Sessions -> SessionRows] /\ call \in [Calls -> CallStates]
      /\ call[c] \in CallStates /\ spent \in SUBSET (Sessions \X Nat)
  BY DEF AccessTypeOK
<1>2. /\ UNCHANGED <<business, branches, person, removal>> /\ call[c].step = "found"
      /\ s \in Sessions /\ session[s].status # "none" /\ call[c].token \in Nat
  BY <1>1 DEF Rotate, CallsKnow, CallKnows, CallStates
<1>3. CASE ~Rotatable(s, call[c].token)
  <2>1. Rests(c) /\ UNCHANGED <<session, spent>>
    BY <1>3 DEF Rotate
  <2>2. /\ call' \in [Calls -> CallStates]
        /\ \A d \in Calls : \/ call'[d] = call[d]
                            \/ CallKnows(d)' /\ call'[d].step \notin {"begun", "inserted"}
    BY <2>1, CallsRest
  <2>3. call'[c].step = "idle"
    BY <2>1, CallMoves
  <2>4. /\ session' \in [Sessions -> SessionRows] /\ SessionsOnlyEnd
    BY <2>1, SessionsStay
  <2>5. spent' \in SUBSET (Sessions \X Nat) /\ SpentAreBehind'
    BY <2>1, <2>4, SpentStayBehind
  <2> QED
    BY <1>2, <2>2, <2>3, <2>4, <2>5, SessionsEnd
<1>4. CASE Rotatable(s, call[c].token)
  <2>1. /\ session' = [session EXCEPT ![s] = [session[s] EXCEPT !.token = session[s].token + 1]]
        /\ call' = [call EXCEPT ![c] = [call[c] EXCEPT !.step = "rotated"]]
        /\ spent' = spent \cup {<<s, call[c].token>>}
        /\ session[s].token = call[c].token /\ session[s].status = "ACTIVE"
    BY <1>1, <1>2, <1>4 DEF Rotate, Rotatable
  <2>2. /\ [session[s] EXCEPT !.token = session[s].token + 1] \in SessionRows
        /\ [session[s] EXCEPT !.token = session[s].token + 1].token = session[s].token + 1
        /\ [session[s] EXCEPT !.token = session[s].token + 1].who = session[s].who
        /\ [session[s] EXCEPT !.token = session[s].token + 1].status = session[s].status
    <3>1. session[s] \in SessionRows /\ session[s].token \in Nat /\ session[s].token + 1 \in Nat
      BY <1>1, <1>2 DEF SessionRows
    <3>2. [session[s] EXCEPT !.token = session[s].token + 1] \in SessionRows
      BY <3>1 DEF SessionRows
    <3> QED
      BY <3>1, <3>2 DEF SessionRows
  <2>3. call' \in [Calls -> CallStates] /\ call'[c].step = "rotated" /\ call'[c].session = s
        /\ \A d \in Calls \ {c} : call'[d] = call[d]
    <3>1. [call[c] EXCEPT !.step = "rotated"] \in CallStates
      BY <1>1, CallRows
    <3>2. /\ call' \in [Calls -> CallStates] /\ call'[c] = [call[c] EXCEPT !.step = "rotated"]
          /\ \A d \in Calls \ {c} : call'[d] = call[d]
      BY <2>1, <3>1, CallMoves
    <3>3. /\ [call[c] EXCEPT !.step = "rotated"].step = "rotated"
          /\ [call[c] EXCEPT !.step = "rotated"].session = call[c].session
      BY <1>1, CallRows
    <3> QED
      BY <3>2, <3>3
  <2> HIDE DEF s
  <2>4. /\ session' \in [Sessions -> SessionRows] /\ session'[s].token = session[s].token + 1
        /\ session'[s].who = session[s].who /\ session'[s].status = session[s].status
        /\ \A t \in Sessions \ {s} : session'[t] = session[t]
    BY <1>1, <1>2, <2>1, <2>2
  <2>5. \A t \in Sessions : session[t].token \in Nat
    BY <1>1 DEF SessionRows
  <2>6. SessionsOnlyEnd
    BY <1>2, <2>4, <2>5 DEF SessionsOnlyEnd
  <2>7. CallKnows(c)'
    BY <1>2, <2>3, <2>4 DEF CallKnows, Opened
  <2>8. spent' \in SUBSET (Sessions \X Nat)
    BY <1>1, <1>2, <2>1
  <2>9. SpentAreBehind'
    <3> SUFFICES ASSUME NEW t \in Sessions, NEW n \in Nat, <<t, n>> \in spent'
                 PROVE  session'[t].status # "none"
                        /\ (session'[t].status = "ACTIVE" => n < session'[t].token)
      BY DEF SpentAreBehind
    <3>1. CASE <<t, n>> \in spent
      <4>1. session[t].status # "none" /\ (session[t].status = "ACTIVE" => n < session[t].token)
        BY <3>1 DEF SpentAreBehind
      <4> QED
        BY <2>4, <2>5, <4>1
    <3>2. CASE t = s /\ n = call[c].token
      BY <1>2, <2>1, <2>4, <2>5, <3>2
    <3> QED
      BY <2>1, <3>1, <3>2
  <2>10. <<s, call[c].token>> \notin spent
    BY <1>2, <2>1, <2>5 DEF SpentAreBehind
  <2>11. AccessInv'
    BY <1>2, <2>3, <2>4, <2>6, <2>7, <2>8, <2>9, SessionsEnd
  <2> QED
    BY <2>10, <2>11 DEF s
<1> QED
  BY <1>3, <1>4

\* The calls of one request: what another one's CallKnows rests on stays.
LEMMA LoginsKeepAccess ==
  ASSUME AccessInv, NEW c \in Calls,
         UNCHANGED <<business, branches, person, session, removal, spent>>,
         call' \in [Calls -> CallStates], \A d \in Calls \ {c} : call'[d] = call[d],
         CallKnows(c)',
         \A d \in Calls \ {c} : Opened(c)' /\ Opened(d) /\ call[d].who = call'[c].who =>
           call[d].who = Admin,
         \A d \in Calls \ {c} : call'[c].step = "inserted" /\ call[d].step = "inserted" =>
           call[d].session # call'[c].session
  PROVE  AccessInv'
<1> USE DEF AccessInv
<1>1. AccessTypeOK'
  BY DEF AccessTypeOK
<1>2. /\ \A u : (IsWaiter(u)' <=> IsWaiter(u)) /\ (InForce(u)' <=> InForce(u))
      /\ \A u : ActiveSessions(u)' = ActiveSessions(u)
      /\ \A b : Managers(b)' = Managers(b)
  BY DEF IsWaiter, InForce, ActiveSessions, Managers
<1>3. CallsKnow'
  BY <1>2 DEF CallsKnow, CallKnows, Opened
<1>4. \A d \in Calls \ {c} : Opened(d)' <=> Opened(d)
  BY DEF Opened
<1>5. LoginsTakeTurns'
  BY <1>4 DEF LoginsTakeTurns
<1>6. InsertedApart'
  BY DEF InsertedApart
<1>7. RemovalsKnow' /\ RemovalsTakeTurns'
  BY <1>2 DEF RemovalsKnow, RemovalKnows, RemovalsTakeTurns
<1>8. HiredStartFresh' /\ AdminStays' /\ SpentAreBehind' /\ WaitersHaveOne' /\ RemovalEndsSessions'
  BY <1>2 DEF HiredStartFresh, AdminStays, SpentAreBehind, WaitersHaveOne, RemovalEndsSessions
<1> QED
  BY <1>1, <1>3, <1>5, <1>6, <1>7, <1>8

\* The session a login inserts is free.
LEMMA SessionIsFree ==
  ASSUME FreeSessions # {}
  PROVE  (CHOOSE s \in FreeSessions : \A t \in FreeSessions : s <= t) \in FreeSessions
<1>1. FreeSessions \in SUBSET Nat
  BY SessionBounds DEF FreeSessions, Sessions
<1>2. \E s \in FreeSessions : \A t \in FreeSessions : s <= t
  BY <1>1, LeastNumber
<1> QED
  BY <1>2

LEMMA LoginSteps ==
  ASSUME AccessInv, NEW c \in Calls,
         \/ \E u \in People : Login(c, u)
         \/ \E s \in Sessions : Refresh(c, s)
         \/ BeginSession(c) \/ InsertSession(c)
  PROVE  AccessInv'
<1> USE DEF AccessInv
<1>1. /\ session \in [Sessions -> SessionRows] /\ call \in [Calls -> CallStates]
      /\ call[c] \in CallStates
  BY DEF AccessTypeOK
<1>2. UNCHANGED <<business, branches, person, session, removal, spent>>
  BY DEF Login, Refresh, BeginSession, InsertSession
<1>3. ASSUME NEW u \in People, Login(c, u) PROVE AccessInv'
  <2> DEFINE k == [IdleCall EXCEPT !.step = "selected", !.who = u]
  <2>1. k \in CallStates /\ k.step = "selected" /\ k.who = u
    BY AccessRows DEF CallStates, IdleCall
  <2>2. call' = [call EXCEPT ![c] = k]
    BY <1>3 DEF Login
  <2> HIDE DEF k
  <2>3. /\ call' \in [Calls -> CallStates] /\ call'[c] = k
        /\ \A d \in Calls \ {c} : call'[d] = call[d]
    BY <2>1, <2>2, CallMoves
  <2>4. CallKnows(c)' /\ ~Opened(c)' /\ call'[c].step # "inserted"
    BY <2>1, <2>3 DEF CallKnows, Opened
  <2> QED
    BY <1>2, <2>3, <2>4, LoginsKeepAccess
<1>4. ASSUME NEW s \in Sessions, Refresh(c, s) PROVE AccessInv'
  <2> DEFINE k == [IdleCall EXCEPT !.step = "found", !.session = s, !.token = session[s].token]
  <2>1. k \in CallStates /\ k.step = "found" /\ k.session = s
    <3>1. s \in 0..MaxSessions /\ session[s].token \in Nat
      BY <1>1, SessionBounds DEF SessionRows, Sessions
    <3> QED
      BY <3>1, AccessRows DEF CallStates, IdleCall
  <2>2. call' = [call EXCEPT ![c] = k] /\ session[s].status = "ACTIVE"
    BY <1>4 DEF Refresh, IsActive
  <2> HIDE DEF k
  <2>3. /\ call' \in [Calls -> CallStates] /\ call'[c] = k
        /\ \A d \in Calls \ {c} : call'[d] = call[d]
    BY <2>1, <2>2, CallMoves
  <2>4. CallKnows(c)' /\ ~Opened(c)' /\ call'[c].step # "inserted"
    BY <1>2, <2>1, <2>2, <2>3 DEF CallKnows, Opened
  <2> QED
    BY <1>2, <2>3, <2>4, LoginsKeepAccess
<1>5. ASSUME BeginSession(c) PROVE AccessInv'
  <2> DEFINE u == call[c].who
  <2>1. CASE InForce(u)
    <3>1. [call[c] EXCEPT !.step = "begun"] \in CallStates
      BY <1>1, CallRows
    <3>2. call' = [call EXCEPT ![c] = [call[c] EXCEPT !.step = "begun"]]
      BY <1>1, <1>5, <2>1 DEF BeginSession
    <3>3. /\ call' \in [Calls -> CallStates] /\ call'[c] = [call[c] EXCEPT !.step = "begun"]
          /\ \A d \in Calls \ {c} : call'[d] = call[d]
      BY <3>1, <3>2, CallMoves
    <3>4. call'[c].step = "begun" /\ call'[c].who = u
      <4>1. /\ [call[c] EXCEPT !.step = "begun"].step = "begun"
            /\ [call[c] EXCEPT !.step = "begun"].who = call[c].who
        BY <1>1, CallRows
      <4> QED
        BY <3>3, <4>1
    <3>5. u \in People /\ (u = Admin \/ ~LoginOpen(u))
      BY <1>5 DEF BeginSession, Turn, CallsKnow, CallKnows
    <3>6. CallKnows(c)' /\ call'[c].step # "inserted"
      BY <1>2, <2>1, <3>4, <3>5 DEF CallKnows, Opened, InForce
    <3>7. \A d \in Calls \ {c} : Opened(c)' /\ Opened(d) /\ call[d].who = call'[c].who =>
            call[d].who = Admin
      BY <3>4, <3>5 DEF LoginOpen, Opened
    <3> QED
      BY <1>2, <3>3, <3>6, <3>7, LoginsKeepAccess
  <2>2. CASE ~InForce(u)
    <3>1. Rests(c)
      BY <1>5, <2>2 DEF BeginSession, Rests
    <3>2. /\ call' \in [Calls -> CallStates] /\ call'[c].step = "idle"
          /\ \A d \in Calls \ {c} : call'[d] = call[d]
      BY <3>1, CallMoves
    <3>3. CallKnows(c)' /\ ~Opened(c)' /\ call'[c].step # "inserted"
      BY <3>2 DEF CallKnows, Opened
    <3> QED
      BY <1>2, <3>2, <3>3, LoginsKeepAccess
  <2> QED
    BY <2>1, <2>2
<1>6. ASSUME InsertSession(c) PROVE AccessInv'
  <2>1. PICK u : u = call[c].who
    OBVIOUS
  <2>2. PICK S : S = IF IsWaiter(u) THEN ActiveSessions(u) ELSE {}
    OBVIOUS
  <2>3. PICK n : n = CHOOSE s \in FreeSessions : \A t \in FreeSessions : s <= t
    OBVIOUS
  <2>4. /\ call[c].step = "begun" /\ FreeSessions # {} /\ AssignmentFree(u)
        /\ call' = [call EXCEPT ![c].step = "inserted", ![c].replaced = S, ![c].session = n]
    BY <1>6, <2>1, <2>2, <2>3 DEF InsertSession
  <2>5. call' = [call EXCEPT ![c] = [call[c] EXCEPT !.step = "inserted", !.replaced = S, !.session = n]]
    BY <1>1, <2>4
  <2>6. /\ S \in SUBSET Sessions /\ \A t \in S : session[t].status # "none"
        /\ IsWaiter(u) => ActiveSessions(u) \subseteq S
    BY <2>2 DEF ActiveSessions
  <2>7. /\ n \in Sessions /\ session[n].status = "none"
        /\ \A d \in Calls : call[d].session # n
    <3>1. n \in FreeSessions
      BY <2>3, <2>4, SessionIsFree
    <3> QED
      BY <3>1 DEF FreeSessions
  <2>8. PICK k : k = [call[c] EXCEPT !.step = "inserted", !.replaced = S, !.session = n]
    OBVIOUS
  <2>9. k \in CallStates /\ k.step = "inserted" /\ k.replaced = S /\ k.session = n /\ k.who = u
    <3>1. call[c] \in CallStates /\ S \in SUBSET Sessions /\ n \in Sessions
      BY <1>1, <2>6, <2>7
    <3>2. n \in 0..MaxSessions
      BY <2>7, SessionBounds DEF Sessions
    <3>3. k \in CallStates
      BY <2>8, <3>1, <3>2 DEF CallStates
    <3>4. k.step = "inserted" /\ k.replaced = S /\ k.session = n /\ k.who = call[c].who
      BY <2>8, <3>1 DEF CallStates
    <3> QED
      BY <2>1, <3>3, <3>4
  <2>10. /\ call' \in [Calls -> CallStates] /\ call'[c] = k
         /\ \A d \in Calls \ {c} : call'[d] = call[d]
    <3>1. call' = [call EXCEPT ![c] = k]
      BY <2>5, <2>8
    <3> QED
      BY <2>9, <3>1, CallMoves
  <2>11. u \in People /\ InForce(u)
    BY <2>1, <2>4 DEF CallsKnow, CallKnows, Opened
  <2>12. CallKnows(c)'
    <3>1. u \in Staff => removal[u].step = "idle"
      BY <2>4 DEF AssignmentFree
    <3>2. InForce(u)' /\ (IsWaiter(u)' <=> IsWaiter(u)) /\ ActiveSessions(u)' = ActiveSessions(u)
      BY <1>2, <2>11 DEF InForce, IsWaiter, ActiveSessions
    <3> QED
      BY <1>2, <2>6, <2>7, <2>9, <2>10, <2>11, <3>1, <3>2 DEF CallKnows, Opened
  <2>13. \A d \in Calls \ {c} : Opened(c)' /\ Opened(d) /\ call[d].who = call'[c].who =>
          call[d].who = Admin
    BY <2>1, <2>4, <2>9, <2>10 DEF LoginsTakeTurns, Opened
  <2>14. \A d \in Calls \ {c} : call[d].session # call'[c].session
    BY <2>7, <2>9, <2>10
  <2> QED
    BY <1>2, <2>10, <2>12, <2>13, <2>14, LoginsKeepAccess
<1> QED
  BY <1>3, <1>4, <1>5, <1>6

LEMMA SessionBegins ==
  ASSUME AccessInv, NEW c \in Calls, CommitSession(c)
  PROVE  AccessInv' /\ \A s \in Sessions :
           session[s].status = "none" /\ session'[s].status = "ACTIVE" => InForce(session'[s].who)
<1> USE DEF AccessInv
<1>1. PICK u, n, R : u = call[c].who /\ n = call[c].session /\ R = call[c].replaced
  OBVIOUS
<1>2. /\ session \in [Sessions -> SessionRows] /\ call \in [Calls -> CallStates]
      /\ call[c] \in CallStates /\ R \in SUBSET Sessions
  BY <1>1 DEF AccessTypeOK, CallStates
<1>3. /\ call[c].step = "inserted" /\ UNCHANGED <<business, branches, person, removal, spent>>
      /\ session' = [Revoked(R) EXCEPT ![n] =
                       [who |-> u, status |-> "ACTIVE", past |-> FALSE, token |-> 0]]
      /\ call' = [call EXCEPT ![c].step = "issued", ![c].replaced = {}]
  BY <1>1 DEF CommitSession
<1>4. /\ u \in People /\ InForce(u) /\ n \in Sessions /\ session[n].status = "none"
      /\ \A s \in R : session[s].status # "none"
      /\ IsWaiter(u) => ActiveSessions(u) \subseteq R
      /\ u \in Staff => removal[u].step = "idle"
  BY <1>1, <1>3 DEF CallsKnow, CallKnows, Opened
<1>5. PICK r : r = [who |-> u, status |-> "ACTIVE", past |-> FALSE, token |-> 0]
  OBVIOUS
<1>6. r \in SessionRows /\ r.who = u /\ r.status = "ACTIVE" /\ r.token = 0
  BY <1>4, <1>5 DEF SessionRows
<1>7. /\ session' \in [Sessions -> SessionRows] /\ session'[n] = r
      /\ \A s \in R : session'[s].status = "REVOKED" /\ session'[s].who = session[s].who
      /\ \A s \in Sessions \ {n} : s \notin R => session'[s] = session[s]
  <2>1. PICK f : f = Revoked(R)
    OBVIOUS
  <2>2. f \in [Sessions -> SessionRows]
    <3>1. \A s \in Sessions : session[s] \in SessionRows
      BY <1>2
    <3>2. ASSUME NEW s \in Sessions
          PROVE  [NoSession EXCEPT !.who = session[s].who, !.status = "REVOKED"] \in SessionRows
      BY <3>1 DEF NoSession, SessionRows
    <3> QED
      BY <2>1, <3>1, <3>2 DEF Revoked
  <2>3. \A s \in Sessions : f[s] =
          IF s \in R THEN [NoSession EXCEPT !.who = session[s].who, !.status = "REVOKED"]
          ELSE session[s]
    BY <2>1 DEF Revoked
  <2>4. \A s \in R : f[s].status = "REVOKED" /\ f[s].who = session[s].who
    <3> SUFFICES ASSUME NEW s \in R PROVE f[s].status = "REVOKED" /\ f[s].who = session[s].who
      OBVIOUS
    <3>1. f[s] = [NoSession EXCEPT !.who = session[s].who, !.status = "REVOKED"]
      BY <1>2, <2>3
    <3> QED
      BY <3>1 DEF NoSession
  <2>5. session' = [f EXCEPT ![n] = r]
    BY <1>3, <1>5, <2>1
  <2>6. session' \in [Sessions -> SessionRows] /\ session'[n] = r
        /\ \A s \in Sessions \ {n} : session'[s] = f[s]
    BY <1>4, <1>6, <2>2, <2>5
  <2>7. n \notin R
    BY <1>4
  <2> QED
    BY <1>2, <2>3, <2>4, <2>6, <2>7
<1>8. /\ call' \in [Calls -> CallStates] /\ call'[c].step = "issued" /\ call'[c].session = n
      /\ \A d \in Calls \ {c} : call'[d] = call[d]
  <2>1. PICK k : k = [call[c] EXCEPT !.step = "issued", !.replaced = {}]
    OBVIOUS
  <2>2. k \in CallStates
    BY <1>2, <2>1 DEF CallStates
  <2>3. k.step = "issued" /\ k.session = n
    BY <1>1, <1>2, <2>1 DEF CallStates
  <2>4. call' = [call EXCEPT ![c] = k]
    BY <1>2, <1>3, <2>1
  <2> QED
    BY <2>2, <2>3, <2>4, CallMoves
<1>9. \A s \in Sessions \ {n} : session'[s].who = session[s].who
         /\ (session'[s].status = "none" <=> session[s].status = "none")
         /\ (session'[s].status = "ACTIVE" => session[s].status = "ACTIVE" /\ s \notin R
                                              /\ session'[s].token = session[s].token)
  BY <1>4, <1>7
<1>10. \A v : v # u => ActiveSessions(v)' \subseteq ActiveSessions(v)
  BY <1>6, <1>7, <1>9 DEF ActiveSessions
<1>11. IsWaiter(u) => ActiveSessions(u)' \subseteq {n}
  BY <1>4, <1>9 DEF ActiveSessions
<1>12. \A v : (IsWaiter(v)' <=> IsWaiter(v)) /\ (InForce(v)' <=> InForce(v))
  BY <1>3 DEF IsWaiter, InForce
<1>13. AccessTypeOK'
  BY <1>3, <1>7, <1>8 DEF AccessTypeOK
<1>14. CallsKnow'
  <2>1. CallKnows(c)'
    BY <1>4, <1>6, <1>7, <1>8 DEF CallKnows, Opened
  <2>2. ASSUME NEW d \in Calls \ {c} PROVE CallKnows(d)'
    <3>1. CallKnows(d) /\ call'[d] = call[d] /\ call[d].replaced \in SUBSET Sessions
      BY <1>8 DEF CallsKnow, AccessTypeOK, CallStates
    <3>2. call[d].step = "inserted" => call[d].session # n
      BY <1>1, <1>3 DEF InsertedApart
    <3>3. call[d].step = "inserted" /\ call[d].who = u => ~IsWaiter(u)
      BY <1>1, <1>3 DEF LoginsTakeTurns, Opened, AdminStays
    <3>4. \A s \in Sessions : session[s].status # "none" => session'[s].status # "none"
      BY <1>4, <1>9
    <3>5. call[d].step = "inserted" =>
            /\ call[d].session \in Sessions /\ session'[call[d].session].status = "none"
            /\ \A s \in call[d].replaced : session'[s].status # "none"
            /\ IsWaiter(call[d].who) => ActiveSessions(call[d].who)' \subseteq call[d].replaced
            /\ call[d].who \in Staff => removal'[call[d].who].step = "idle"
      BY <1>3, <1>9, <1>10, <3>1, <3>2, <3>3, <3>4 DEF CallKnows
    <3> QED
      BY <1>12, <3>1, <3>4, <3>5 DEF CallKnows, Opened
  <2> QED
    BY <2>1, <2>2 DEF CallsKnow
<1>15. LoginsTakeTurns' /\ InsertedApart'
  <2>1. ~Opened(c)' /\ call'[c].step # "inserted" /\ \A d \in Calls \ {c} : Opened(d)' <=> Opened(d)
    BY <1>8 DEF Opened
  <2> QED
    BY <1>8, <2>1 DEF LoginsTakeTurns, InsertedApart
<1>16. RemovalsKnow' /\ RemovalsTakeTurns'
  <2>1. \A b : Managers(b)' = Managers(b)
    BY <1>3 DEF Managers
  <2>2. \A v \in Staff : removal[v].revoked \in SUBSET Sessions
    BY DEF AccessTypeOK, RemovalStates
  <2>3. \A s \in Sessions : session[s].status # "none" => session'[s].status # "none"
    BY <1>4, <1>9
  <2>4. ASSUME NEW v \in Staff PROVE RemovalKnows(v)'
    BY <1>3, <1>4, <1>10, <2>1, <2>2, <2>3 DEF RemovalsKnow, RemovalKnows
  <2> QED
    BY <1>3, <2>4 DEF RemovalsKnow, RemovalsTakeTurns
<1>17. HiredStartFresh' /\ RemovalEndsSessions'
  <2>1. person[u].status = "ACTIVE"
    BY <1>4 DEF InForce
  <2> QED
    BY <1>3, <1>10, <2>1 DEF HiredStartFresh, RemovalEndsSessions
<1>18. AdminStays'
  BY <1>3 DEF AdminStays, IsWaiter
<1>19. SpentAreBehind'
  BY <1>3, <1>4, <1>9 DEF SpentAreBehind
<1>20. WaitersHaveOne'
  <2> SUFFICES ASSUME NEW v \in Staff, IsWaiter(v)', NEW s \in ActiveSessions(v)', NEW t \in ActiveSessions(v)'
               PROVE  s = t
    BY DEF WaitersHaveOne
  <2>1. CASE v = u
    BY <1>11, <1>12, <2>1
  <2>2. CASE v # u
    BY <1>10, <1>12, <2>2 DEF WaitersHaveOne
  <2> QED
    BY <2>1, <2>2
<1>21. \A s \in Sessions :
         session[s].status = "none" /\ session'[s].status = "ACTIVE" => InForce(session'[s].who)
  BY <1>4, <1>6, <1>7, <1>9
<1> QED
  BY <1>13, <1>14, <1>15, <1>16, <1>17, <1>18, <1>19, <1>20, <1>21

\* A set with more than one member has another one.
LEMMA AnotherOne ==
  ASSUME NEW S, NEW x, Cardinality(S) > 1
  PROVE  \E y \in S : y # x
<1> SUFFICES ASSUME \A y \in S : y = x PROVE FALSE
  OBVIOUS
<1>1. S = {} \/ S = {x}
  OBVIOUS
<1>2. Cardinality({}) = 0 /\ Cardinality({x}) = 1
  BY FS_EmptySet, FS_Singleton
<1> QED
  BY <1>1, <1>2

LEMMA RemovalSteps ==
  ASSUME AccessInv, NEW u \in Staff, BeginRemoval(u) \/ \E c \in Calls : BreakDeadlock(c, u)
  PROVE  AccessInv'
<1> USE DEF AccessInv
<1>1. /\ removal \in [Staff -> RemovalStates] /\ call \in [Calls -> CallStates]
      /\ session \in [Sessions -> SessionRows] /\ IdleRemoval \in RemovalStates
      /\ IdleRemoval.step = "idle"
  BY AccessRows DEF AccessTypeOK
<1>2. ASSUME NEW k \in RemovalStates, removal' = [removal EXCEPT ![u] = k], RemovalKnows(u)',
             k.step = "removing" =>
               /\ SessionsSettled(u)
               /\ \A v \in Staff \ {u} : removal[v].step = "removing" =>
                                          person[v].branch # person[u].branch,
             UNCHANGED <<business, branches, person, session, call, spent>>
      PROVE  AccessInv'
  <2>1. /\ removal' \in [Staff -> RemovalStates] /\ removal'[u] = k
        /\ \A v \in Staff \ {u} : removal'[v] = removal[v]
    BY <1>1, <1>2
  <2>2. AccessTypeOK'
    BY <1>2, <2>1 DEF AccessTypeOK
  <2>3. /\ \A v : (IsWaiter(v)' <=> IsWaiter(v)) /\ (InForce(v)' <=> InForce(v))
        /\ \A v : ActiveSessions(v)' = ActiveSessions(v)
        /\ \A b : Managers(b)' = Managers(b)
    BY <1>2 DEF IsWaiter, InForce, ActiveSessions, Managers
  <2>4. ASSUME NEW c \in Calls PROVE CallKnows(c)'
    <3>1. CallKnows(c)
      BY DEF CallsKnow
    <3>2. call[c].step = "inserted" /\ call[c].who = u => k.step = "idle"
      BY <1>2 DEF SessionsSettled, RemovalStates
    <3> QED
      BY <1>2, <2>1, <2>3, <3>1, <3>2 DEF CallKnows, Opened
  <2>5. CallsKnow' /\ LoginsTakeTurns' /\ InsertedApart'
    BY <1>2, <2>4 DEF CallsKnow, LoginsTakeTurns, InsertedApart, Opened
  <2>6. ASSUME NEW v \in Staff \ {u} PROVE RemovalKnows(v)'
    BY <1>2, <2>1, <2>3 DEF RemovalsKnow, RemovalKnows
  <2>7. RemovalsKnow'
    BY <1>2, <2>6 DEF RemovalsKnow
  <2>8. RemovalsTakeTurns'
    BY <1>2, <2>1 DEF RemovalsTakeTurns
  <2>9. HiredStartFresh' /\ AdminStays' /\ SpentAreBehind' /\ WaitersHaveOne' /\ RemovalEndsSessions'
    BY <1>2, <2>3 DEF HiredStartFresh, AdminStays, SpentAreBehind, WaitersHaveOne, RemovalEndsSessions
  <2> QED
    BY <2>2, <2>5, <2>7, <2>8, <2>9
<1>3. ASSUME BeginRemoval(u) PROVE AccessInv'
  <2>1. PICK k : k = [step |-> "removing", revoked |-> ActiveSessions(u)]
    OBVIOUS
  <2>2. ActiveSessions(u) \in SUBSET Sessions
    BY DEF ActiveSessions
  <2>3. k \in RemovalStates /\ k.step = "removing" /\ k.revoked = ActiveSessions(u)
    BY <2>1, <2>2 DEF RemovalStates
  <2>4. /\ removal' = [removal EXCEPT ![u] = k]
        /\ UNCHANGED <<business, branches, person, session, call, spent>>
        /\ person[u].status = "ACTIVE" /\ SessionsSettled(u) /\ BranchFree(person[u].branch)
        /\ person[u].role = "MANAGER" => Cardinality(Managers(person[u].branch)) > 1
    BY <1>3, <2>1 DEF BeginRemoval, AssignableBranch
  <2>5. ActiveSessions(u)' = ActiveSessions(u) /\ \A b : Managers(b)' = Managers(b)
    BY <2>4 DEF ActiveSessions, Managers
  <2>6. \A s \in ActiveSessions(u) : session[s].status # "none"
    BY DEF ActiveSessions
  <2>7. removal'[u] = k
    BY <1>1, <2>3, <2>4
  <2>8. person[u].role = "MANAGER" => \E v \in Managers(person[u].branch) : v # u
    BY <2>4, AnotherOne
  <2>9. RemovalKnows(u)'
    BY <2>3, <2>4, <2>5, <2>6, <2>7, <2>8 DEF RemovalKnows
  <2>10. \A v \in Staff \ {u} : removal[v].step = "removing" => person[v].branch # person[u].branch
    BY <2>4 DEF BranchFree
  <2> QED
    BY <1>2, <2>3, <2>4, <2>9, <2>10
<1>4. ASSUME NEW c \in Calls, BreakDeadlock(c, u) PROVE AccessInv'
  <2>1. CASE removal' = [removal EXCEPT ![u] = IdleRemoval] /\ UNCHANGED call
    <3>1. removal'[u].step = "idle"
      BY <1>1, <2>1
    <3>2. RemovalKnows(u)'
      BY <3>1 DEF RemovalKnows
    <3>3. UNCHANGED <<business, branches, person, session, call, spent>>
      BY <1>4, <2>1 DEF BreakDeadlock
    <3> QED
      BY <1>1, <1>2, <2>1, <3>2, <3>3
  <2>2. CASE Rests(c) /\ UNCHANGED removal
    <3>1. UNCHANGED <<business, branches, person, session, removal, spent>>
      BY <1>4, <2>2 DEF BreakDeadlock
    <3>2. /\ call' \in [Calls -> CallStates]
          /\ \A d \in Calls : \/ call'[d] = call[d]
                              \/ CallKnows(d)' /\ call'[d].step \notin {"begun", "inserted"}
      BY <2>2, CallsRest
    <3>3. session' \in [Sessions -> SessionRows] /\ SessionsOnlyEnd
      BY <3>1, SessionsStay
    <3>4. spent' \in SUBSET (Sessions \X Nat) /\ SpentAreBehind'
      BY <3>1, <3>3, SpentStayBehind
    <3> QED
      BY <3>1, <3>2, <3>3, <3>4, SessionsEnd
  <2> QED
    BY <1>4, <2>1, <2>2 DEF BreakDeadlock, Rests
<1> QED
  BY <1>3, <1>4

\* A removal commits: no session of the person is left, and a manager leaves another one.
LEMMA RemovalEnds ==
  ASSUME AccessInv, NEW u \in Staff, CommitRemoval(u)
  PROVE  AccessInv' /\ \A b : Managers(b) # {} => Managers(b)' # {}
<1> USE DEF AccessInv
<1>1. PICK R : R = removal[u].revoked
  OBVIOUS
<1>2. /\ removal[u].step = "removing" /\ ~LoginOpen(u) /\ session' = Revoked(R)
      /\ person' = [person EXCEPT ![u] = [person[u] EXCEPT !.status = "REMOVED"]]
      /\ removal' = [removal EXCEPT ![u] = IdleRemoval]
      /\ UNCHANGED <<business, branches, call, spent>>
  BY <1>1 DEF CommitRemoval, NotShared
<1>3. /\ person \in [People -> PersonRows] /\ person[u] \in PersonRows /\ u \in People
      /\ removal \in [Staff -> RemovalStates] /\ R \in SUBSET Sessions
      /\ session \in [Sessions -> SessionRows]
  BY <1>1 DEF AccessTypeOK, People, RemovalStates
<1>4. /\ person[u].status = "ACTIVE" /\ ActiveSessions(u) \subseteq R
      /\ \A s \in R : session[s].status # "none"
      /\ person[u].role = "MANAGER" => \E v \in Managers(person[u].branch) : v # u
  BY <1>1, <1>2 DEF RemovalsKnow, RemovalKnows
<1>5. /\ session' \in [Sessions -> SessionRows] /\ SessionsOnlyEnd
      /\ \A s \in R : session'[s].status = "REVOKED"
  BY <1>2, <1>3, <1>4, RevokedOnlyEnds
<1>6. /\ \A v : ActiveSessions(v)' \subseteq ActiveSessions(v)
      /\ \A s \in Sessions : session'[s].status = "none" <=> session[s].status = "none"
  BY <1>5, FewerSessions
<1>7. ActiveSessions(u)' = {}
  <2>1. ActiveSessions(u)' \subseteq R
    BY <1>4, <1>6
  <2> QED
    BY <1>5, <2>1 DEF ActiveSessions
<1>8. /\ person' \in [People -> PersonRows] /\ person'[u].status = "REMOVED"
      /\ person'[u].role = person[u].role /\ person'[u].branch = person[u].branch
      /\ \A v \in People \ {u} : person'[v] = person[v]
  <2>1. PICK k : k = [person[u] EXCEPT !.status = "REMOVED"]
    OBVIOUS
  <2>2. k \in PersonRows
    BY <1>3, <2>1 DEF PersonRows
  <2>3. k.status = "REMOVED" /\ k.role = person[u].role /\ k.branch = person[u].branch
    BY <1>3, <2>1 DEF PersonRows
  <2>4. person' = [person EXCEPT ![u] = k]
    BY <1>2, <2>1
  <2> QED
    BY <1>3, <2>2, <2>3, <2>4
<1>9. /\ removal' \in [Staff -> RemovalStates] /\ removal'[u].step = "idle"
      /\ \A v \in Staff \ {u} : removal'[v] = removal[v]
  BY <1>2, <1>3, AccessRows
<1>10. /\ \A v \in People : IsWaiter(v)' <=> IsWaiter(v)
       /\ \A v \in People \ {u} : InForce(v)' <=> InForce(v)
  BY <1>2, <1>3, <1>8 DEF IsWaiter, InForce
<1>11. \A b : Managers(b) \ {u} \subseteq Managers(b)'
  <2> SUFFICES ASSUME NEW b, NEW v \in Managers(b) \ {u} PROVE v \in Managers(b)'
    OBVIOUS
  <2>1. v \in People \ {u} /\ v \in Staff
    BY DEF Managers, People
  <2> QED
    BY <1>8, <2>1 DEF Managers
<1>12. AccessTypeOK'
  BY <1>2, <1>5, <1>8, <1>9 DEF AccessTypeOK
<1>13. ASSUME NEW c \in Calls PROVE CallKnows(c)'
  <2>1. CallKnows(c) /\ call'[c] = call[c] /\ call[c].replaced \in SUBSET Sessions
    BY <1>2 DEF CallsKnow, AccessTypeOK, CallStates
  <2>2. Opened(c) => call[c].who \in People \ {u}
    BY <1>2, <2>1 DEF LoginOpen, Opened, CallKnows
  <2>3. Opened(c)' <=> Opened(c)
    BY <2>1 DEF Opened
  <2>4. call[c].step = "inserted" =>
            /\ call[c].session \in Sessions /\ session'[call[c].session].status = "none"
            /\ \A s \in call[c].replaced : session'[s].status # "none"
            /\ IsWaiter(call[c].who)' => ActiveSessions(call[c].who)' \subseteq call[c].replaced
            /\ call[c].who \in Staff => removal'[call[c].who].step = "idle"
    BY <1>6, <1>9, <1>10, <2>1, <2>2 DEF CallKnows, Opened
  <2> QED
    BY <1>6, <1>10, <2>1, <2>2, <2>3, <2>4 DEF CallKnows
<1>14. CallsKnow' /\ LoginsTakeTurns' /\ InsertedApart'
  BY <1>2, <1>13 DEF CallsKnow, LoginsTakeTurns, InsertedApart, Opened
<1>15. ASSUME NEW v \in Staff PROVE RemovalKnows(v)'
  <2>1. CASE v = u
    BY <1>9, <2>1 DEF RemovalKnows
  <2>2. CASE v # u /\ removal[v].step # "removing"
    BY <1>9, <2>2 DEF RemovalKnows
  <2>3. CASE v # u /\ removal[v].step = "removing"
    <3>1. /\ RemovalKnows(v) /\ removal'[v] = removal[v] /\ person'[v] = person[v]
          /\ removal[v].revoked \in SUBSET Sessions /\ person[v].branch # person[u].branch
      BY <1>2, <1>8, <1>9, <2>3 DEF RemovalsKnow, RemovalsTakeTurns, AccessTypeOK, RemovalStates, People
    <3>2. person[v].role = "MANAGER" => \E w \in Managers(person[v].branch)' : w # v
      <4> SUFFICES ASSUME person[v].role = "MANAGER"
                   PROVE  \E w \in Managers(person[v].branch)' : w # v
        OBVIOUS
      <4>1. PICK w \in Managers(person[v].branch) : w # v
        BY <2>3, <3>1 DEF RemovalKnows
      <4>2. w # u
        BY <3>1, <4>1 DEF Managers
      <4>3. PICK b : b = person[v].branch
        OBVIOUS
      <4>4. w \in Managers(b)'
        BY <1>11, <4>1, <4>2, <4>3
      <4>5. Managers(person[v].branch)' = Managers(b)'
        BY <3>1, <4>3
      <4> QED
        BY <3>1, <4>1, <4>3, <4>4, <4>5 DEF Managers
    <3> QED
      BY <1>6, <2>3, <3>1, <3>2 DEF RemovalKnows
  <2> QED
    BY <2>1, <2>2, <2>3
<1>16. RemovalsKnow' /\ RemovalsTakeTurns'
  BY <1>8, <1>9, <1>15 DEF RemovalsKnow, RemovalsTakeTurns, People
<1>17. HiredStartFresh' /\ RemovalEndsSessions'
  <2>1. \A v \in Staff \ {u} : person'[v] = person[v]
    BY <1>8 DEF People
  <2> QED
    BY <1>6, <1>7, <2>1 DEF HiredStartFresh, RemovalEndsSessions
<1>18. AdminStays'
  <2>1. Admin \in People \ {u}
    BY PeopleApart DEF People
  <2> QED
    BY <1>8, <2>1 DEF AdminStays, IsWaiter
<1>19. SpentAreBehind' /\ WaitersHaveOne'
  <2>1. SpentAreBehind'
    BY <1>2, <1>5, SpentStayBehind
  <2>2. \A v \in Staff : v \in People
    BY DEF People
  <2> QED
    BY <1>6, <1>10, <2>1, <2>2 DEF WaitersHaveOne
<1>20. ASSUME NEW b, Managers(b) # {} PROVE Managers(b)' # {}
  <2>1. CASE u \in Managers(b)
    <3>1. person[u].role = "MANAGER" /\ person[u].branch = b
      BY <2>1 DEF Managers
    <3> QED
      BY <1>4, <1>11, <3>1
  <2>2. CASE u \notin Managers(b)
    BY <1>11, <1>20, <2>2
  <2> QED
    BY <2>1, <2>2
<1> QED
  BY <1>12, <1>14, <1>16, <1>17, <1>18, <1>19, <1>20

\* The platform and the owner decide on the business, its branches and its staff.
LEMMA PeopleChange ==
  ASSUME AccessInv,
         \/ Register
         \/ \E next \in BusinessStatuses : ChangeStatus(next)
         \/ \E b \in Branches : CreateBranch(b)
         \/ \E actor \in {Owner, Admin}, u \in Staff, b \in Branches, role \in StaffRoles :
              CreateStaff(actor, u, b, role)
  PROVE  AccessInv' /\ \A b : Managers(b) # {} => Managers(b)' # {}
<1> USE DEF AccessInv
<1>1. /\ UNCHANGED <<session, call, removal, spent>>
      /\ person \in [People -> PersonRows] /\ Owner \in People \ Staff /\ Admin \in People
      /\ Owner # Admin /\ Admin \notin Staff
  BY PeopleApart DEF Register, ChangeStatus, CreateBranch, CreateStaff, AccessTypeOK, People
<1>2. ASSUME NEW v \in People, NEW k \in PersonRows, person' = [person EXCEPT ![v] = k],
             v # Admin, v \in Staff => person[v].status = "none",
             v \notin Staff => k.role = person[v].role,
             business' \in BusinessStatuses, branches' \in SUBSET Branches,
             \A c \in Calls : Opened(c) => InForce(call[c].who)'
      PROVE  AccessInv' /\ \A b : Managers(b) # {} => Managers(b)' # {}
  <2>1. /\ person' \in [People -> PersonRows]
        /\ \A u \in People \ {v} : person'[u] = person[u]
    BY <1>1, <1>2
  <2>2. \A u : ActiveSessions(u)' = ActiveSessions(u)
    BY <1>1 DEF ActiveSessions
  <2>3. \A b : Managers(b) \subseteq Managers(b)'
    <3> SUFFICES ASSUME NEW b, NEW u \in Managers(b) PROVE u \in Managers(b)'
      OBVIOUS
    <3>1. u \in Staff /\ u # v
      BY <1>2 DEF Managers
    <3>2. person'[u] = person[u]
      BY <2>1, <3>1 DEF People
    <3> QED
      BY <3>1, <3>2 DEF Managers
  <2>4. AccessTypeOK'
    BY <1>1, <1>2, <2>1 DEF AccessTypeOK
  <2>5. ASSUME NEW c \in Calls PROVE CallKnows(c)'
    <3>1. CallKnows(c) /\ call'[c] = call[c]
      BY <1>1 DEF CallsKnow
    <3>2. Opened(c)' <=> Opened(c)
      BY <1>1 DEF Opened
    <3>3. Opened(c) => (InForce(call[c].who))'
      BY <1>2
    <3>4. call[c].step = "inserted" /\ IsWaiter(call[c].who)' =>
            ActiveSessions(call[c].who) \subseteq call[c].replaced
      <4>1. CASE call[c].who = v /\ v \in Staff
        BY <1>2, <3>1, <4>1 DEF CallKnows, Opened, InForce
      <4>2. CASE call[c].who = v /\ v \notin Staff
        <5>1. person'[v].role = person[v].role
          BY <1>1, <1>2, <4>2
        <5>2. IsWaiter(call[c].who)' <=> IsWaiter(call[c].who)
          BY <3>1, <4>2, <5>1 DEF IsWaiter
        <5> QED
          BY <3>1, <5>2 DEF CallKnows
      <4>3. CASE call[c].who # v
        <5>1. call[c].step = "inserted" => call[c].who \in People \ {v}
          BY <3>1, <4>3 DEF CallKnows
        <5> QED
          BY <2>1, <3>1, <5>1 DEF CallKnows, IsWaiter
      <4> QED
        BY <4>1, <4>2, <4>3
    <3> QED
      BY <1>1, <2>2, <3>1, <3>2, <3>3, <3>4 DEF CallKnows
  <2>6. CallsKnow' /\ LoginsTakeTurns' /\ InsertedApart'
    BY <1>1, <2>5 DEF CallsKnow, LoginsTakeTurns, InsertedApart, Opened
  <2>7. ASSUME NEW u \in Staff, removal[u].step = "removing" PROVE person'[u] = person[u]
    BY <1>2, <2>1, <2>7 DEF RemovalsKnow, RemovalKnows, People
  <2>8. ASSUME NEW u \in Staff PROVE RemovalKnows(u)'
    <3> SUFFICES ASSUME removal[u].step = "removing" PROVE RemovalKnows(u)'
      BY <1>1 DEF RemovalKnows
    <3>1. RemovalKnows(u) /\ person'[u] = person[u]
      BY <2>7 DEF RemovalsKnow
    <3>2. PICK b : b = person[u].branch
      OBVIOUS
    <3>3. person[u].role = "MANAGER" => \E w \in Managers(b)' : w # u
      BY <2>3, <3>1, <3>2 DEF RemovalKnows
    <3>4. Managers(person[u].branch)' = Managers(b)'
      BY <3>1, <3>2
    <3> QED
      BY <1>1, <2>2, <3>1, <3>2, <3>3, <3>4 DEF RemovalKnows, Managers
  <2>9. RemovalsKnow' /\ RemovalsTakeTurns'
    BY <1>1, <2>7, <2>8 DEF RemovalsKnow, RemovalsTakeTurns
  <2>10. \A u \in Staff : u # v => person'[u] = person[u]
    BY <2>1 DEF People
  <2>11. v \in Staff => ActiveSessions(v) = {}
    BY <1>2 DEF HiredStartFresh
  <2>12. HiredStartFresh' /\ RemovalEndsSessions' /\ WaitersHaveOne'
    <3>1. HiredStartFresh' /\ RemovalEndsSessions'
      BY <2>2, <2>10, <2>11 DEF HiredStartFresh, RemovalEndsSessions
    <3>2. WaitersHaveOne'
      BY <2>2, <2>10, <2>11 DEF WaitersHaveOne, IsWaiter
    <3> QED
      BY <3>1, <3>2
  <2>13. AdminStays' /\ SpentAreBehind'
    BY <1>1, <1>2, <2>1 DEF AdminStays, IsWaiter, SpentAreBehind
  <2> QED
    BY <2>3, <2>4, <2>6, <2>9, <2>12, <2>13
<1>3. \A c \in Calls : Opened(c) =>
        /\ call[c].who \in People /\ InForce(call[c].who)
        /\ call[c].who # Admin => LoginOpen(call[c].who)
  BY DEF CallsKnow, CallKnows, Opened, LoginOpen
<1>4. person[Owner] \in PersonRows /\ person[Owner] = person[Owner]
  BY <1>1
<1>5. ASSUME Register PROVE AccessInv' /\ \A b : Managers(b) # {} => Managers(b)' # {}
  <2>1. PICK k : k = [person[Owner] EXCEPT !.status = "PENDING"]
    OBVIOUS
  <2>2. k \in PersonRows /\ k.role = person[Owner].role
    BY <1>4, <2>1 DEF PersonRows
  <2>3. person' = [person EXCEPT ![Owner] = k] /\ business = "none" /\ business' = "REGISTRATION"
        /\ branches' = branches
    BY <1>5, <2>1 DEF Register
  <2>4. \A c \in Calls : Opened(c) => call[c].who = Admin
    BY <1>3, <2>3 DEF InForce
  <2>5. InForce(Admin)'
    BY <1>1, <2>2, <2>3 DEF InForce, AdminStays
  <2>6. \A c \in Calls : Opened(c) => InForce(call[c].who)'
    BY <1>1, <2>4, <2>5
  <2>7. business' \in BusinessStatuses /\ branches' \in SUBSET Branches
    BY <2>3 DEF BusinessStatuses, AccessTypeOK
  <2> QED
    BY <1>1, <1>2, <2>2, <2>3, <2>6, <2>7
<1>6. ASSUME NEW next \in BusinessStatuses, ChangeStatus(next)
      PROVE  AccessInv' /\ \A b : Managers(b) # {} => Managers(b)' # {}
  <2>1. PICK k : k = IF business = "REGISTRATION" /\ next = "ACTIVE"
                     THEN [person[Owner] EXCEPT !.status = "ACTIVE"] ELSE person[Owner]
    OBVIOUS
  <2>2. k \in PersonRows /\ k.role = person[Owner].role
    <3>1. /\ [person[Owner] EXCEPT !.status = "ACTIVE"] \in PersonRows
          /\ [person[Owner] EXCEPT !.status = "ACTIVE"].role = person[Owner].role
      BY <1>4 DEF PersonRows
    <3> QED
      BY <1>4, <2>1, <3>1
  <2>3. person' = [person EXCEPT ![Owner] = k]
    BY <1>1, <1>6, <2>1 DEF ChangeStatus
  <2>4. \A c \in Calls : Opened(c) => call[c].who = Admin
    BY <1>3, <1>6 DEF ChangeStatus
  <2>5. InForce(Admin)'
    BY <1>1, <2>2, <2>3 DEF InForce, AdminStays
  <2>6. \A c \in Calls : Opened(c) => InForce(call[c].who)'
    BY <1>1, <2>4, <2>5
  <2>7. business' \in BusinessStatuses /\ branches' \in SUBSET Branches
    BY <1>6 DEF ChangeStatus, AccessTypeOK
  <2> QED
    BY <1>1, <1>2, <2>2, <2>3, <2>6, <2>7
<1>7. ASSUME NEW b \in Branches, CreateBranch(b)
      PROVE  AccessInv' /\ \A a : Managers(a) # {} => Managers(a)' # {}
  <2>1. person' = [person EXCEPT ![Owner] = person[Owner]]
    BY <1>1, <1>7 DEF CreateBranch
  <2>2. \A c \in Calls : Opened(c) => InForce(call[c].who)'
    BY <1>1, <1>3, <1>7 DEF CreateBranch, InForce
  <2>3. business' \in BusinessStatuses /\ branches' \in SUBSET Branches
    BY <1>7 DEF CreateBranch, AccessTypeOK
  <2> QED
    BY <1>1, <1>2, <1>4, <2>1, <2>2, <2>3
<1>8. ASSUME NEW actor \in {Owner, Admin}, NEW u \in Staff, NEW b \in Branches, NEW role \in StaffRoles,
             CreateStaff(actor, u, b, role)
      PROVE  AccessInv' /\ \A a : Managers(a) # {} => Managers(a)' # {}
  <2>1. PICK k : k = [role |-> role, branch |-> b, status |-> "ACTIVE"]
    OBVIOUS
  <2>2. k \in PersonRows /\ k.status = "ACTIVE"
    BY <2>1, HiredRoles DEF PersonRows, Roles
  <2>3. /\ person' = [person EXCEPT ![u] = k] /\ person[u].status = "none"
        /\ business' = business /\ branches' = branches
    BY <1>8, <2>1 DEF CreateStaff
  <2>4. u \in People
    BY DEF People
  <2>5. \A v \in People \ {u} : person'[v] = person[v]
    BY <1>1, <2>3
  <2>6. \A c \in Calls : Opened(c) => InForce(call[c].who)'
    <3> SUFFICES ASSUME NEW c \in Calls, Opened(c) PROVE InForce(call[c].who)'
      OBVIOUS
    <3>1. call[c].who \in People \ {u} /\ InForce(call[c].who)
      BY <1>3, <2>3 DEF InForce
    <3> QED
      BY <1>1, <2>3, <2>5, <3>1 DEF InForce
  <2>7. business' \in BusinessStatuses /\ branches' \in SUBSET Branches
    BY <2>3 DEF AccessTypeOK
  <2> QED
    BY <1>1, <1>2, <2>2, <2>3, <2>4, <2>6, <2>7
<1> QED
  BY <1>5, <1>6, <1>7, <1>8

LEMMA AccessKeeps == AccessInv /\ [AccessNext]_accessVars => AccessInv'
<1> SUFFICES ASSUME AccessInv, [AccessNext]_accessVars PROVE AccessInv'
  OBVIOUS
<1>1. CASE UNCHANGED accessVars
  <2>1. AccessTypeOK'
    BY <1>1 DEF accessVars, AccessInv, AccessTypeOK
  <2>2. CallsKnow' /\ LoginsTakeTurns' /\ InsertedApart'
    BY <1>1 DEF accessVars, AccessInv, CallsKnow, CallKnows, LoginsTakeTurns, InsertedApart, Opened,
                InForce, IsWaiter, ActiveSessions
  <2>3. RemovalsKnow' /\ RemovalsTakeTurns'
    BY <1>1 DEF accessVars, AccessInv, RemovalsKnow, RemovalKnows, RemovalsTakeTurns, ActiveSessions,
                Managers, Opened, InForce, IsWaiter
  <2>4. HiredStartFresh' /\ AdminStays'
    BY <1>1 DEF accessVars, AccessInv, HiredStartFresh, AdminStays, ActiveSessions, IsWaiter
  <2>5. WaitersHaveOne' /\ RemovalEndsSessions'
    BY <1>1 DEF accessVars, AccessInv, WaitersHaveOne, RemovalEndsSessions, IsWaiter, ActiveSessions,
                InForce, Opened
  <2>6. SpentAreBehind'
    BY <1>1 DEF accessVars, AccessInv, SpentAreBehind
  <2> QED
    BY <2>1, <2>2, <2>3, <2>4, <2>5, <2>6 DEF AccessInv
<1> QED
  BY <1>1, PeopleChange, RemovalSteps, RemovalEnds, LoginSteps, SessionBegins, SessionsKeepAccess,
     RotateKeepsAccess DEF AccessNext

\* What access maintains: logins of a user and removals of a branch take turns, a context that was
\* checked stays in force until the login ends, and a removal knows every session it has to end
\* (createBusinessSession, remove, changeStatus, rotateRefreshToken).
THEOREM AccessInvariant == AccessSpec => []AccessInv
BY AccessStarts, AccessKeeps, PTL DEF AccessSpec

\* A waiter never has two active sessions, however many devices log in at once
\* (createBusinessSession).
THEOREM WaitersHaveOneSession == AccessSpec => []OneWaiterSession
<1>1. AccessInv => OneWaiterSession
  <2> SUFFICES ASSUME AccessInv, NEW u \in Staff, IsWaiter(u)
               PROVE  Cardinality(ActiveSessions(u)) <= 1
    BY DEF OneWaiterSession
  <2>1. \A s, t \in ActiveSessions(u) : s = t
    BY DEF AccessInv, WaitersHaveOne
  <2>2. ActiveSessions(u) = {} \/ \E s : ActiveSessions(u) = {s}
    BY <2>1
  <2>3. Cardinality({}) = 0 /\ \A s : Cardinality({s}) = 1
    BY FS_EmptySet, FS_Singleton
  <2>4. CASE ActiveSessions(u) = {}
    BY <2>3, <2>4
  <2>5. CASE \E s : ActiveSessions(u) = {s}
    <3>1. PICK s : ActiveSessions(u) = {s}
      BY <2>5
    <3>2. Cardinality({s}) = 1
      BY <2>3
    <3> QED
      BY <3>1, <3>2
  <2> QED
    BY <2>2, <2>4, <2>5
<1> QED
  BY <1>1, AccessInvariant, PTL

\* A removed assignment has no active session left, whatever logs in meanwhile (remove).
THEOREM RemovalsEndSessions == AccessSpec => []RemovalEndsSessions
<1>1. AccessInv => RemovalEndsSessions
  BY DEF AccessInv
<1> QED
  BY <1>1, AccessInvariant, PTL

\* A refresh token is accepted once, whichever calls present it together (rotateRefreshToken).
THEOREM TokensAreUsedOnce == AccessSpec => TokensAreSingleUse
<1>1. AccessInv /\ [AccessNext]_accessVars =>
        [\A c \in Calls : call[c].step = "found" /\ call'[c].step = "rotated" =>
           <<call[c].session, call[c].token>> \notin spent]_accessVars
  <2> SUFFICES ASSUME AccessInv, AccessNext, NEW c \in Calls, call[c].step = "found",
                      call'[c].step = "rotated"
               PROVE  <<call[c].session, call[c].token>> \notin spent
    OBVIOUS
  <2>1. call \in [Calls -> CallStates]
    BY DEF AccessInv, AccessTypeOK
  <2>2. ASSUME NEW d \in Calls, Rests(d) PROVE FALSE
    BY <2>1, <2>2, AccessRows DEF Rests
  <2>3. ASSUME NEW d \in Calls, NEW u \in People, Login(d, u) PROVE FALSE
    BY <2>1, <2>3 DEF Login, IdleCall
  <2>4. ASSUME NEW d \in Calls, NEW s \in Sessions, Refresh(d, s) PROVE FALSE
    BY <2>1, <2>4 DEF Refresh, IdleCall
  <2>5. ASSUME NEW d \in Calls, BeginSession(d) \/ InsertSession(d) \/ CommitSession(d) PROVE FALSE
    <3>1. call[d].step \in {"selected", "begun", "inserted"}
      BY <2>5 DEF BeginSession, InsertSession, CommitSession
    <3>2. d # c
      BY <3>1
    <3>3. call'[c] = call[c]
      BY <2>1, <2>5, <3>2 DEF BeginSession, InsertSession, CommitSession
    <3> QED
      BY <3>3
  <2>6. ASSUME NEW d \in Calls, Rotate(d)
        PROVE  <<call[c].session, call[c].token>> \notin spent
    <3>1. CASE d = c
      BY <2>6, <3>1, RotateKeepsAccess
    <3>2. CASE d # c
      <4>1. call'[c] = call[c]
        BY <2>1, <2>6, <3>2 DEF Rotate, Rests
      <4> QED
        BY <4>1
    <3> QED
      BY <3>1, <3>2
  <2>7. call' # call
    OBVIOUS
  <2>8. ASSUME NEW u \in Staff, BeginRemoval(u) \/ CommitRemoval(u) \/ \E d \in Calls : BreakDeadlock(d, u)
        PROVE FALSE
    BY <2>2, <2>7, <2>8 DEF BeginRemoval, CommitRemoval, BreakDeadlock, Rests
  <2>9. ASSUME NEW d \in Calls, Answer(d) \/ Compensate(d) PROVE FALSE
    BY <2>2, <2>9 DEF Answer, Compensate
  <2> QED
    BY <2>3, <2>4, <2>5, <2>6, <2>7, <2>8, <2>9
       DEF AccessNext, Register, ChangeStatus, CreateBranch, CreateStaff, Logout, SessionPasses
<1> QED
  BY <1>1, AccessInvariant, PTL DEF AccessSpec, TokensAreSingleUse

\* A session begins while the context it was given for is in force: neither a removal nor a
\* suspension commits under an open login (assertActiveContext).
THEOREM SessionsBeginInForce == AccessSpec => SessionsStartInForce
<1>1. AccessInv /\ [AccessNext]_accessVars =>
        [\A s \in Sessions : session[s].status = "none" /\ session'[s].status = "ACTIVE" =>
           InForce(session'[s].who)]_accessVars
  <2> SUFFICES ASSUME AccessInv, AccessNext, NEW s \in Sessions, session[s].status = "none",
                      session'[s].status = "ACTIVE"
               PROVE  InForce(session'[s].who)
    OBVIOUS
  <2>1. session \in [Sessions -> SessionRows]
    BY DEF AccessInv, AccessTypeOK
  <2>2. ASSUME NEW S, session' = Revoked(S) PROVE FALSE
    <3>1. session'[s].status \in {"REVOKED", session[s].status}
      BY <2>2 DEF Revoked, NoSession
    <3> QED
      BY <3>1
  <2>3. session' # session
    OBVIOUS
  <2>4. ASSUME NEW c \in Calls, Rotate(c) PROVE FALSE
    BY <2>1, <2>3, <2>4 DEF Rotate, Rotatable, SessionRows
  <2>5. ASSUME NEW t \in Sessions, SessionPasses(t) PROVE FALSE
    BY <2>1, <2>5 DEF SessionPasses, SessionRows
  <2>6. ASSUME NEW c \in Calls, CommitSession(c) PROVE InForce(session'[s].who)
    BY <2>6, SessionBegins
  <2> QED
    BY <2>2, <2>3, <2>4, <2>5, <2>6
       DEF AccessNext, Register, ChangeStatus, CreateBranch, CreateStaff, BeginRemoval, CommitRemoval,
           BreakDeadlock, Login, BeginSession, InsertSession, Answer, Compensate, Refresh, Logout
<1> QED
  BY <1>1, AccessInvariant, PTL DEF AccessSpec, SessionsStartInForce

\* A branch that had a manager keeps one, although managers are removed concurrently (remove).
THEOREM BranchesKeepManagers == AccessSpec => BranchKeepsManager
<1>1. AccessInv /\ [AccessNext]_accessVars =>
        [\A b \in Branches : Managers(b) # {} => Managers(b)' # {}]_accessVars
  <2> SUFFICES ASSUME AccessInv, AccessNext PROVE \A b : Managers(b) # {} => Managers(b)' # {}
    OBVIOUS
  <2>1. ASSUME person' = person PROVE \A b : Managers(b)' = Managers(b)
    BY <2>1 DEF Managers
  <2> QED
    BY <2>1, PeopleChange, RemovalEnds
       DEF AccessNext, BeginRemoval, BreakDeadlock, Login, BeginSession, InsertSession, CommitSession,
           Answer, Compensate, Refresh, Rotate, Logout, SessionPasses
<1> QED
  BY <1>1, AccessInvariant, PTL DEF AccessSpec, BranchKeepsManager
=============================================================================
