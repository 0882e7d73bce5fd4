----------------------- MODULE SettlementLedgerProofs -----------------------
(***************************************************************************)
(* What TLAPS proves of SettlementLedger for any accounts, requests,       *)
(* payments, amounts, opening balances and days.                           *)
(***************************************************************************)
EXTENDS SettlementLedger, SequenceTheorems, FiniteSetTheorems, TLAPS

-----------------------------------------------------------------------------
(* The inductive invariant.                                                *)

\* A request that holds an account's row has read the balance it still has.
HoldersReadBalance ==
  \A i \in Requests : scope[i].locked =>
    /\ account[form[i].account].status = "ACTIVE"
    /\ scope[i].balance = account[form[i].account].balance

\* A row lock has one holder.
OneHolder ==
  \A i, j \in Requests :
    scope[i].locked /\ scope[j].locked /\ form[i].account = form[j].account => i = j

\* Entries are posted on accounts that were opened.
PostedOnOpened == \A a \in Accounts : account[a].status = "none" => ledger[a] = <<>>

\* A reversal points back at an entry that is none, undoes it, and is the only one that does.
ReversalsPointBack ==
  \A a \in Accounts : \A n \in DOMAIN ledger[a] :
    LET k == ledger[a][n].reverses IN
    k # 0 =>
      /\ k < n
      /\ ledger[a][n].delta = -ledger[a][k].delta
      /\ ledger[a][k].type # "REVERSAL"
      /\ \A m \in DOMAIN ledger[a] : ledger[a][m].reverses = k => m = n

LockInv == HoldersReadBalance /\ OneHolder
MoneyInv == PostedOnOpened /\ BalancesChain /\ NeverOverdrawn /\ PostedAsShown
EntryInv == PostedOnce /\ ReversalsPointBack
LedgerInv == LedgerTypeOK /\ LockInv /\ MoneyInv /\ EntryInv

-----------------------------------------------------------------------------
(* A posting, whoever asks for it.                                         *)

NewEntries == [type : Types, delta : Int, day : Days, source : Requests \cup Payments,
               reverses : Nat, cites : Evidence \cup {None}]

\* What each of the five operations that post does with entry e of account a.
Posting(a, e) ==
  /\ Post(a, e) /\ form' = form
  /\ account[a].status = "ACTIVE"
  /\ account[a].balance + e.delta >= 0
  /\ ~Posted(e.source)
  /\ e.source \in Requests => form[e.source] = [account |-> a, balance |-> account[a].balance]
  /\ scope' \in [Requests -> [locked : BOOLEAN, balance : Int]]
  /\ \A i \in Requests : scope'[i].locked => scope'[i] = scope[i] /\ form[i].account # a
  /\ e.reverses # 0 =>
       /\ e.reverses \in DOMAIN ledger[a]
       /\ ledger[a][e.reverses].delta = -e.delta
       /\ Reversible(a, e.reverses)

\* The entries of a well-typed ledger.
LEMMA EntryTypes ==
  ASSUME LedgerTypeOK, NEW a \in Accounts, NEW k \in DOMAIN ledger[a]
  PROVE  /\ ledger[a][k] \in Entries
         /\ Len(ledger[a]) \in Nat /\ k \in 1..Len(ledger[a])
<1>1. ledger[a] \in Seq(Entries)
  BY DEF LedgerTypeOK
<1>2. DOMAIN ledger[a] = 1..Len(ledger[a]) /\ Len(ledger[a]) \in Nat
  BY <1>1, LenProperties
<1> QED
  BY <1>1, <1>2, ElementOfSeq

\* The recorded operations of a request are postings.
LEMMA OperationPosts ==
  ASSUME LedgerTypeOK, LockInv, NeverOverdrawn, NEW i \in Requests, NEW type \in Types, NEW d \in Int,
         NEW day \in Days, NEW k \in Nat, NEW cites \in Evidence \cup {None},
         Operation(i, type, d, day, k, cites),
         k # 0 => /\ k \in DOMAIN ledger[form[i].account]
                  /\ ledger[form[i].account][k].delta = -d
                  /\ Reversible(form[i].account, k)
  PROVE  \E a \in Accounts, e \in NewEntries : Posting(a, e)
<1> DEFINE a == form[i].account
           e == [type |-> type, delta |-> d, day |-> day, source |-> i, reverses |-> k, cites |-> cites]
<1>1. a \in Accounts /\ e \in NewEntries
  BY DEF Operation, LedgerTypeOK, NewEntries
<1>2. scope[i].locked /\ scope[i].balance = account[a].balance /\ account[a].status = "ACTIVE"
  BY DEF Operation, LockInv, HoldersReadBalance
<1>3. Post(a, e) /\ form' = form /\ ~Posted(e.source)
  BY DEF Operation, New
<1>4. account[a].balance + e.delta >= 0
  <2>1. account[a].balance \in Int /\ account[a].balance >= 0
    BY <1>1 DEF LedgerTypeOK, NeverOverdrawn
  <2>2. d < 0 => scope[i].balance >= -d
    BY DEF Operation, Sufficient
  <2> QED
    BY <1>2, <2>1, <2>2
<1>5. form[i] = [account |-> a, balance |-> account[a].balance]
  <2>1. form[i].balance = account[a].balance
    BY <1>2 DEF Operation, AsShown
  <2> QED
    BY <2>1 DEF LedgerTypeOK
<1>6. scope' = [scope EXCEPT ![i] = NoScope]
  BY DEF Operation
<1>7. scope' \in [Requests -> [locked : BOOLEAN, balance : Int]]
  BY <1>6 DEF LedgerTypeOK, NoScope
<1>8. ASSUME NEW j \in Requests, scope'[j].locked
      PROVE  scope'[j] = scope[j] /\ form[j].account # a
  BY <1>2, <1>6, <1>8 DEF LedgerTypeOK, NoScope, LockInv, OneHolder
<1>9. e.reverses # 0 =>
       /\ e.reverses \in DOMAIN ledger[a]
       /\ ledger[a][e.reverses].delta = -e.delta
       /\ Reversible(a, e.reverses)
  OBVIOUS
<1>10. e.source \in Requests => form[e.source] = [account |-> a, balance |-> account[a].balance]
  BY <1>5
<1>11. Posting(a, e)
  <2> HIDE DEF e, a
  <2> QED
    BY <1>2, <1>3, <1>4, <1>7, <1>8, <1>9, <1>10 DEF Posting
<1> QED
  BY <1>1, <1>11

\* So is the posting of a verified payment.
LEMMA VerifiedPosts ==
  ASSUME LedgerTypeOK, NeverOverdrawn, NEW p \in Payments, NEW a \in Accounts,
         NEW m \in Amounts, NEW day \in Days, PostVerified(p, a, m, day)
  PROVE  \E e \in NewEntries : Posting(a, e)
<1> DEFINE e == [type |-> "VERIFIED_DEPOSIT", delta |-> Signed("VERIFIED_DEPOSIT", m), day |-> day,
                 source |-> p, reverses |-> 0, cites |-> None]
<1>1. Signed("VERIFIED_DEPOSIT", m) = m /\ m \in Nat
  BY AmountsAssumption DEF Signed, Debits
<1>2. e \in NewEntries
  BY <1>1 DEF NewEntries, Types, Credits
<1>3. account[a].balance + e.delta >= 0
  BY <1>1 DEF LedgerTypeOK, NeverOverdrawn
<1>4. ASSUME NEW j \in Requests, scope'[j].locked
      PROVE  scope'[j] = scope[j] /\ form[j].account # a
  BY <1>4 DEF PostVerified, MayLock, Holders
<1>5. scope' \in [Requests -> [locked : BOOLEAN, balance : Int]]
  BY DEF PostVerified, LedgerTypeOK
<1>6. e.source \notin Requests /\ e.reverses = 0
  BY SourcesAssumption
<1>7. Post(a, e) /\ form' = form /\ account[a].status = "ACTIVE" /\ ~Posted(e.source)
  BY DEF PostVerified, MayLock
<1>8. Posting(a, e)
  <2> HIDE DEF e
  <2> QED
    BY <1>3, <1>4, <1>5, <1>6, <1>7 DEF Posting
<1> QED
  BY <1>2, <1>8

\* Every step posts or leaves the ledger alone.
Bookless ==
  \/ \E a \in Accounts, o \in Openings : OpenAccount(a, o)
  \/ \E a \in Accounts : Deactivate(a)
  \/ \E i \in Requests, a \in Accounts : Ask(i, a)
  \/ \E i \in Requests : LockScope(i) \/ EndWithin(i)
  \/ UNCHANGED ledgerVars

LEMMA StepPostsOrNot ==
  ASSUME LedgerTypeOK, LockInv, NeverOverdrawn, [LedgerNext]_ledgerVars
  PROVE  Bookless \/ \E a \in Accounts, e \in NewEntries : Posting(a, e)
<1>1. ASSUME NEW p \in Payments, NEW a \in Accounts, NEW m \in Amounts, NEW day \in Days,
             PostVerified(p, a, m, day)
      PROVE  \E e \in NewEntries : Posting(a, e)
  BY <1>1, VerifiedPosts
<1>2. ASSUME NEW type \in Types, NEW m \in Amounts PROVE Signed(type, m) \in Int
  BY AmountsAssumption DEF Signed
<1>3. ASSUME NEW i \in Requests, NEW m \in Amounts, NEW day \in Days, CreateDeposit(i, m, day)
      PROVE  \E a \in Accounts, e \in NewEntries : Posting(a, e)
  <2>1. "MANUAL_DEPOSIT" \in Types
    BY DEF Types, Credits
  <2> QED
    BY <1>2, <1>3, <2>1, OperationPosts DEF CreateDeposit
<1>4. ASSUME NEW i \in Requests, NEW m \in Amounts, NEW day \in Days, CreateWithdrawal(i, m, day)
      PROVE  \E a \in Accounts, e \in NewEntries : Posting(a, e)
  <2>1. "WITHDRAWAL" \in Types
    BY DEF Types, Debits
  <2> QED
    BY <1>2, <1>4, <2>1, OperationPosts DEF CreateWithdrawal
<1>5. ASSUME NEW i \in Requests, NEW type \in Corrections, NEW m \in Amounts, NEW day \in Days,
             NEW cites \in Evidence \cup {None}, NEW valid \in BOOLEAN,
             CreateCorrection(i, type, m, day, cites, valid)
      PROVE  \E a \in Accounts, e \in NewEntries : Posting(a, e)
  <2>1. type \in Types
    BY DEF Types, Credits, Debits, Corrections
  <2> QED
    BY <1>2, <1>5, <2>1, OperationPosts DEF CreateCorrection
<1>6. ASSUME NEW i \in Requests, NEW day \in Days, scope[i].locked,
             NEW k \in DOMAIN ledger[form[i].account], ApproveReversal(i, k, day)
      PROVE  \E a \in Accounts, e \in NewEntries : Posting(a, e)
  <2>1. form[i].account \in Accounts
    BY <1>6 DEF LedgerTypeOK
  <2>2. ledger[form[i].account][k] \in Entries /\ k \in 1..Len(ledger[form[i].account])
    BY <2>1, EntryTypes
  <2>3. k \in Nat /\ ledger[form[i].account][k].delta \in Int
    BY <2>2 DEF Entries
  <2>4. -ledger[form[i].account][k].delta \in Int /\ "REVERSAL" \in Types
    BY <2>3 DEF Types
  <2>5. ledger[form[i].account][k].delta = -(-ledger[form[i].account][k].delta)
    BY <2>3
  <2> DEFINE d == -ledger[form[i].account][k].delta
  <2>6. Operation(i, "REVERSAL", d, day, k, None) /\ Reversible(form[i].account, k)
    BY <1>6 DEF ApproveReversal
  <2> HIDE DEF d
  <2>7. d \in Int /\ ledger[form[i].account][k].delta = -d
    BY <2>4, <2>5 DEF d
  <2> QED
    BY <2>3, <2>4, <2>6, <2>7, OperationPosts
<1> DEFINE posts == \E a \in Accounts, e \in NewEntries : Posting(a, e)
<1>7. ASSUME LedgerStep PROVE Bookless \/ posts
  <2>1. ASSUME NEW i \in Requests, NEW day \in Days, scope[i].locked,
               \E k \in DOMAIN ledger[form[i].account] : ApproveReversal(i, k, day)
        PROVE  posts
    BY <1>6, <2>1
  <2>2. ASSUME NEW p \in Payments, NEW a \in Accounts, NEW m \in Amounts, NEW day \in Days,
               PostVerified(p, a, m, day)
        PROVE  posts
    BY <1>1, <2>2
  <2> HIDE DEF posts
  <2> QED
    BY <1>7, <1>3, <1>4, <2>1, <2>2 DEF LedgerStep, Bookless, posts
<1> QED
  BY <1>5, <1>7 DEF LedgerNext, Bookless

-----------------------------------------------------------------------------
(* What a posting changes.                                                 *)

AccountRows == [status : {"none", "ACTIVE", "INACTIVE"}, opening : Nat, balance : Int]

\* One entry more on one account, whose balance becomes the entry's running one.
LEMMA PostingAppends ==
  ASSUME LedgerTypeOK, NEW a \in Accounts, NEW e \in NewEntries, Posting(a, e)
  PROVE  LET n == Len(ledger[a]) + 1
             b == account[a].balance + e.delta IN
         /\ n \in Nat \ {0} /\ b \in Int
         /\ DOMAIN ledger[a] = 1..(n - 1)
         /\ DOMAIN ledger'[a] = 1..n /\ Len(ledger'[a]) = n
         /\ \A k \in 1..(n - 1) : ledger'[a][k] = ledger[a][k]
         /\ ledger'[a][n].delta = e.delta /\ ledger'[a][n].running = b
         /\ ledger'[a][n].source = e.source /\ ledger'[a][n].reverses = e.reverses
         /\ ledger'[a][n].cites = e.cites
         /\ account'[a].status = account[a].status
         /\ account'[a].opening = account[a].opening
         /\ account'[a].balance = b
         /\ \A c \in Accounts : c # a => ledger'[c] = ledger[c] /\ account'[c] = account[c]
         /\ account' \in [Accounts -> AccountRows]
         /\ ledger' \in [Accounts -> Seq(Entries)]
<1> DEFINE n == Len(ledger[a]) + 1
           b == account[a].balance + e.delta
           x == [type |-> e.type, delta |-> e.delta, day |-> e.day, source |-> e.source,
                 reverses |-> e.reverses, cites |-> e.cites, running |-> b]
           row == [account[a] EXCEPT !.balance = b]
<1>1. ledger[a] \in Seq(Entries) /\ account[a] \in AccountRows
  BY DEF LedgerTypeOK, AccountRows
<1>2. b \in Int
  BY <1>1 DEF AccountRows, NewEntries
<1>3. x \in Entries
  BY <1>2 DEF NewEntries, Entries
<1>4. row \in AccountRows /\ row.status = account[a].status /\ row.opening = account[a].opening /\ row.balance = b
  BY <1>1, <1>2 DEF AccountRows
<1>5. account' = [account EXCEPT ![a] = row] /\ ledger' = [ledger EXCEPT ![a] = Append(ledger[a], x)]
  BY DEF Posting, Post, BalanceAfter
<1>14. /\ x.delta = e.delta /\ x.running = b /\ x.source = e.source
       /\ x.reverses = e.reverses /\ x.cites = e.cites
  OBVIOUS
<1> HIDE DEF x, row
<1>6. /\ Append(ledger[a], x) \in Seq(Entries)
      /\ Len(Append(ledger[a], x)) = Len(ledger[a]) + 1
      /\ \A k \in 1..Len(ledger[a]) : Append(ledger[a], x)[k] = ledger[a][k]
      /\ Append(ledger[a], x)[Len(ledger[a]) + 1] = x
  BY <1>1, <1>3, AppendProperties
<1>7. Len(ledger[a]) \in Nat /\ DOMAIN ledger[a] = 1..Len(ledger[a])
  BY <1>1, LenProperties
<1>8. DOMAIN Append(ledger[a], x) = 1..(Len(ledger[a]) + 1)
  BY <1>6, LenProperties
<1>9. account \in [Accounts -> AccountRows] /\ ledger \in [Accounts -> Seq(Entries)]
  BY DEF LedgerTypeOK, AccountRows
<1>10. ledger'[a] = Append(ledger[a], x) /\ account'[a] = row
  BY <1>5, <1>9
<1>11. \A c \in Accounts : c # a => ledger'[c] = ledger[c] /\ account'[c] = account[c]
  BY <1>5, <1>9
<1>12. account' \in [Accounts -> AccountRows] /\ ledger' \in [Accounts -> Seq(Entries)]
  BY <1>4, <1>5, <1>6, <1>9
<1>13. n \in Nat \ {0} /\ n - 1 = Len(ledger[a])
  BY <1>7
<1> HIDE DEF b
<1> QED
  BY <1>2, <1>4, <1>6, <1>7, <1>8, <1>10, <1>11, <1>12, <1>13, <1>14 DEF b

-----------------------------------------------------------------------------
(* A posting preserves the invariant.                                      *)

LEMMA PostingKeepsTypes ==
  ASSUME LedgerTypeOK, NEW a \in Accounts, NEW e \in NewEntries, Posting(a, e)
  PROVE  LedgerTypeOK'
<1>1. account' \in [Accounts -> AccountRows] /\ ledger' \in [Accounts -> Seq(Entries)]
  BY PostingAppends
<1>2. \A i \in Requests : scope'[i].locked => form'[i].account \in Accounts
  BY DEF LedgerTypeOK, Posting
<1>3. form' \in [Requests -> [account : Accounts \cup {None}, balance : Int]]
  BY DEF LedgerTypeOK, Posting
<1>4. scope' \in [Requests -> [locked : BOOLEAN, balance : Int]]
  BY DEF Posting
<1> QED
  BY <1>1, <1>2, <1>3, <1>4 DEF LedgerTypeOK, AccountRows, Entries

LEMMA PostingKeepsLocks ==
  ASSUME LedgerTypeOK, LockInv, NEW a \in Accounts, NEW e \in NewEntries, Posting(a, e)
  PROVE  LockInv'
<1>1. \A c \in Accounts : c # a => account'[c] = account[c]
  BY PostingAppends
<1>2. ASSUME NEW i \in Requests, scope'[i].locked
      PROVE  /\ scope[i].locked /\ scope'[i] = scope[i] /\ form'[i] = form[i]
             /\ form[i].account \in Accounts /\ form[i].account # a
  BY <1>2 DEF Posting, LedgerTypeOK
<1>3. HoldersReadBalance'
  BY <1>1, <1>2 DEF LockInv, HoldersReadBalance
<1>4. OneHolder'
  BY <1>2 DEF LockInv, OneHolder
<1> QED
  BY <1>3, <1>4 DEF LockInv

LEMMA PostingKeepsMoney ==
  ASSUME LedgerTypeOK, MoneyInv, NEW a \in Accounts, NEW e \in NewEntries, Posting(a, e)
  PROVE  MoneyInv'
<1>0. PICK n \in Nat \ {0}, b \in Int :
        n = Len(ledger[a]) + 1 /\ b = account[a].balance + e.delta
  BY PostingAppends
<1>1. /\ n \in Nat \ {0} /\ b \in Int
      /\ DOMAIN ledger[a] = 1..(n - 1)
      /\ DOMAIN ledger'[a] = 1..n /\ Len(ledger'[a]) = n
      /\ \A k \in 1..(n - 1) : ledger'[a][k] = ledger[a][k]
  BY <1>0, PostingAppends
<1>2. /\ ledger'[a][n].delta = e.delta /\ ledger'[a][n].running = b /\ ledger'[a][n].source = e.source
      /\ account'[a].status = account[a].status
      /\ account'[a].opening = account[a].opening
      /\ account'[a].balance = b
  BY <1>0, PostingAppends
<1>3. \A c \in Accounts : c # a => ledger'[c] = ledger[c] /\ account'[c] = account[c]
  BY PostingAppends
<1>4. e.delta \in Int /\ account[a].balance \in Int /\ account[a].status = "ACTIVE" /\ b >= 0
  BY <1>0 DEF Posting, LedgerTypeOK, NewEntries
<1>5. account[a].balance = Before(a, n)
  BY <1>0 DEF MoneyInv, BalancesChain
<1>6. ASSUME NEW k \in 1..n PROVE Before(a, k)' = Before(a, k)
  <2>1. k # 1 => k - 1 \in 1..(n - 1)
    BY <1>1
  <2> QED
    BY <1>1, <1>2, <2>1 DEF Before
<1>7. ASSUME NEW c \in Accounts, NEW k, c # a PROVE Before(c, k)' = Before(c, k)
  BY <1>3, <1>7 DEF Before
<1>8. PostedOnOpened'
  BY <1>2, <1>3, <1>4 DEF MoneyInv, PostedOnOpened
<1>9. BalancesChain'
  <2>1. ASSUME NEW c \in Accounts, c # a
        PROVE  /\ \A k \in DOMAIN ledger'[c] : ledger'[c][k].running = Before(c, k)' + ledger'[c][k].delta
               /\ account'[c].balance = Before(c, Len(ledger[c]) + 1)'
    BY <1>3, <1>7, <2>1 DEF MoneyInv, BalancesChain
  <2>2. ASSUME NEW k \in 1..n
        PROVE  ledger'[a][k].running = Before(a, k)' + ledger'[a][k].delta
    <3>1. CASE k = n
      BY <1>0, <3>1, <1>2, <1>4, <1>5, <1>6
    <3>2. CASE k # n
      <4>1. k \in 1..(n - 1) /\ k \in DOMAIN ledger[a]
        BY <3>2, <1>1
      <4> QED
        BY <4>1, <1>1, <1>6 DEF MoneyInv, BalancesChain
    <3> QED
      BY <3>1, <3>2
  <2>3. account'[a].balance = Before(a, n + 1)'
    <3>1. n + 1 # 1 /\ (n + 1) - 1 = n
      BY <1>1
    <3>2. Before(a, n + 1)' = ledger'[a][n].running
      BY <3>1 DEF Before
    <3> QED
      BY <3>2, <1>2
  <2>4. account'[a].balance = Before(a, Len(ledger[a]) + 1)'
    <3>1. Len(ledger'[a]) = n
      BY <1>1
    <3> QED
      BY <3>1, <2>3
  <2> QED
    BY <1>1, <1>3, <2>1, <2>2, <2>4 DEF BalancesChain
<1>10. NeverOverdrawn'
  <2>1. ASSUME NEW k \in 1..n PROVE ledger'[a][k].running >= 0
    <3>1. CASE k = n
      BY <3>1, <1>2, <1>4
    <3>2. CASE k # n
      <4>1. k \in 1..(n - 1) /\ k \in DOMAIN ledger[a]
        BY <3>2, <1>1
      <4> QED
        BY <4>1, <1>1 DEF MoneyInv, NeverOverdrawn
    <3> QED
      BY <3>1, <3>2
  <2> QED
    BY <1>1, <1>2, <1>3, <1>4, <2>1 DEF MoneyInv, NeverOverdrawn
<1>11. PostedAsShown'
  <2>1. ASSUME NEW k \in 1..n, ledger'[a][k].source \in Requests
        PROVE  form'[ledger'[a][k].source] = [account |-> a, balance |-> Before(a, k)']
    <3>1. CASE k = n
      BY <3>1, <2>1, <1>2, <1>5, <1>6 DEF Posting
    <3>2. CASE k # n
      <4>1. k \in 1..(n - 1) /\ k \in DOMAIN ledger[a]
        BY <3>2, <1>1
      <4> QED
        BY <4>1, <2>1, <1>1, <1>6 DEF MoneyInv, PostedAsShown, Posting
    <3> QED
      BY <3>1, <3>2
  <2>2. ASSUME NEW c \in Accounts, c # a, NEW k \in DOMAIN ledger'[c], ledger'[c][k].source \in Requests
        PROVE  form'[ledger'[c][k].source] = [account |-> c, balance |-> Before(c, k)']
    BY <2>2, <1>3, <1>7 DEF MoneyInv, PostedAsShown, Posting
  <2> QED
    BY <1>1, <2>1, <2>2 DEF PostedAsShown
<1> QED
  BY <1>8, <1>9, <1>10, <1>11 DEF MoneyInv

LEMMA PostingKeepsEntries ==
  ASSUME LedgerTypeOK, EntryInv, NEW a \in Accounts, NEW e \in NewEntries, Posting(a, e)
  PROVE  EntryInv'
<1> DEFINE n == Len(ledger[a]) + 1
<1>1. /\ n \in Nat \ {0}
      /\ DOMAIN ledger[a] = 1..(n - 1)
      /\ DOMAIN ledger'[a] = 1..n
      /\ \A k \in 1..(n - 1) : ledger'[a][k] = ledger[a][k]
  BY PostingAppends
<1>2. ledger'[a][n].delta = e.delta /\ ledger'[a][n].reverses = e.reverses /\ ledger'[a][n].source = e.source
  BY PostingAppends
<1>3. \A c \in Accounts : c # a => ledger'[c] = ledger[c]
  BY PostingAppends
<1> HIDE DEF n
<1>4. PostedOnce'
  <2>1. ASSUME NEW c \in Accounts, NEW k \in DOMAIN ledger'[c], ~(c = a /\ k = n)
        PROVE  /\ k \in DOMAIN ledger[c] /\ ledger'[c][k] = ledger[c][k]
               /\ ledger'[c][k].source # e.source
    <3>1. k \in DOMAIN ledger[c] /\ ledger'[c][k] = ledger[c][k]
      BY <2>1, <1>1, <1>3
    <3> QED
      BY <3>1 DEF Posting, Posted
  <2> QED
    BY <1>2, <2>1 DEF EntryInv, PostedOnce
<1>5. ReversalsPointBack'
  <2>1. ASSUME NEW c \in Accounts, c # a, NEW m \in DOMAIN ledger'[c], ledger'[c][m].reverses # 0
        PROVE  LET k == ledger'[c][m].reverses IN
               /\ k < m
               /\ ledger'[c][m].delta = -ledger'[c][k].delta
               /\ ledger'[c][k].type # "REVERSAL"
               /\ \A l \in DOMAIN ledger'[c] : ledger'[c][l].reverses = k => l = m
    BY <2>1, <1>3 DEF EntryInv, ReversalsPointBack
  <2>2. ASSUME NEW m \in 1..(n - 1), ledger'[a][m].reverses # 0
        PROVE  LET k == ledger'[a][m].reverses IN
               /\ k < m
               /\ ledger'[a][m].delta = -ledger'[a][k].delta
               /\ ledger'[a][k].type # "REVERSAL"
               /\ \A l \in DOMAIN ledger'[a] : ledger'[a][l].reverses = k => l = m
    <3>1. PICK k \in Nat : k = ledger[a][m].reverses
      BY <1>1, EntryTypes DEF Entries
    <3>2. ledger'[a][m] = ledger[a][m] /\ k # 0
      BY <1>1, <2>2, <3>1
    <3>3. /\ k < m
          /\ ledger[a][m].delta = -ledger[a][k].delta
          /\ ledger[a][k].type # "REVERSAL"
          /\ \A l \in DOMAIN ledger[a] : ledger[a][l].reverses = k => l = m
      BY <1>1, <3>1, <3>2 DEF EntryInv, ReversalsPointBack
    <3>4. k \in 1..(n - 1)
      BY <1>1, <3>2, <3>3
    <3>5. ledger'[a][k] = ledger[a][k]
      BY <1>1, <3>4
    <3>6. e.reverses # k
      BY <1>1, <3>1, <3>2 DEF Posting, Reversible, ReversalsOf
    <3>7. ASSUME NEW l \in 1..n, ledger'[a][l].reverses = k PROVE l = m
      <4>1. l # n
        BY <1>2, <3>6, <3>7
      <4>2. l \in 1..(n - 1)
        BY <1>1, <4>1
      <4> QED
        BY <1>1, <3>3, <3>7, <4>2
    <3> QED
      BY <1>1, <3>1, <3>2, <3>3, <3>5, <3>7
  <2>3. ASSUME ledger'[a][n].reverses # 0
        PROVE  LET k == ledger'[a][n].reverses IN
               /\ k < n
               /\ ledger'[a][n].delta = -ledger'[a][k].delta
               /\ ledger'[a][k].type # "REVERSAL"
               /\ \A l \in DOMAIN ledger'[a] : ledger'[a][l].reverses = k => l = n
    <3>0. DOMAIN ledger'[a] = 1..n
      BY <1>1
    <3>1. PICK k \in 1..(n - 1) : k = e.reverses
      BY <1>1, <1>2, <2>3 DEF Posting
    <3>2. /\ ledger[a][k].delta = -e.delta /\ ledger[a][k].type # "REVERSAL"
          /\ \A l \in DOMAIN ledger[a] : ledger[a][l].reverses # k
      BY <1>2, <2>3, <3>1 DEF Posting, Reversible, ReversalsOf
    <3>3. e.delta = -ledger[a][k].delta
      BY <3>2 DEF NewEntries
    <3>4. ASSUME NEW l \in 1..n, ledger'[a][l].reverses = k PROVE l = n
      BY <1>1, <3>2, <3>4
    <3>5. ledger'[a][n].reverses = k /\ ledger'[a][k] = ledger[a][k] /\ k < n
      BY <1>1, <1>2, <3>1
    <3>6. ledger'[a][n].delta = -ledger'[a][k].delta
      BY <1>2, <3>3, <3>5
    <3> QED
      BY <3>0, <3>2, <3>4, <3>5, <3>6
  <2>4. \A m \in 1..n : m = n \/ m \in 1..(n - 1)
    BY <1>1
  <2> QED
    BY <1>1, <2>1, <2>2, <2>3, <2>4 DEF ReversalsPointBack
<1> QED
  BY <1>4, <1>5 DEF EntryInv

-----------------------------------------------------------------------------
(* The other steps.                                                        *)

LEMMA BooklessKeepsTypes == LedgerTypeOK /\ Bookless => LedgerTypeOK'
<1> SUFFICES ASSUME LedgerTypeOK, Bookless PROVE LedgerTypeOK'
  OBVIOUS
<1> USE DEF LedgerTypeOK, Entries
<1>1. ASSUME NEW a \in Accounts, NEW o \in Openings, OpenAccount(a, o) PROVE LedgerTypeOK'
  <2> DEFINE row == [status |-> "ACTIVE", opening |-> o, balance |-> o]
  <2>1. row \in [status : {"none", "ACTIVE", "INACTIVE"}, opening : Nat, balance : Int]
    BY OpeningsAssumption
  <2> QED
    BY <1>1, <2>1 DEF OpenAccount
<1>2. ASSUME NEW a \in Accounts, Deactivate(a) PROVE LedgerTypeOK'
  <2> DEFINE row == [account[a] EXCEPT !.status = "INACTIVE"]
  <2>1. row \in [status : {"none", "ACTIVE", "INACTIVE"}, opening : Nat, balance : Int]
    <3>1. account[a] \in [status : {"none", "ACTIVE", "INACTIVE"}, opening : Nat, balance : Int]
      OBVIOUS
    <3> HIDE DEF LedgerTypeOK
    <3> QED
      BY <3>1
  <2> QED
    BY <1>2, <2>1 DEF Deactivate
<1>3. ASSUME NEW i \in Requests, NEW a \in Accounts, Ask(i, a) PROVE LedgerTypeOK'
  <2> DEFINE shown == [account |-> a, balance |-> account[a].balance]
  <2>1. shown \in [account : Accounts \cup {None}, balance : Int]
    OBVIOUS
  <2> QED
    BY <1>3, <2>1 DEF Ask
<1>4. ASSUME NEW i \in Requests, LockScope(i) PROVE LedgerTypeOK'
  <2>1. form[i].account \in Accounts
    BY <1>4, NoneAssumption DEF LockScope
  <2> DEFINE read == [locked |-> TRUE, balance |-> account[form[i].account].balance]
  <2>2. read \in [locked : BOOLEAN, balance : Int]
    BY <2>1
  <2>3. scope' = [scope EXCEPT ![i] = read] /\ UNCHANGED <<account, ledger, form>>
    BY <1>4 DEF LockScope
  <2> HIDE DEF read
  <2>4. scope' \in [Requests -> [locked : BOOLEAN, balance : Int]]
    BY <2>2, <2>3
  <2>5. \A j \in Requests : scope'[j].locked => form[j].account \in Accounts
    BY <2>1, <2>3
  <2>6. account' = account /\ ledger' = ledger /\ form' = form
    BY <2>3
  <2> QED
    BY <2>4, <2>5, <2>6
<1>5. ASSUME NEW i \in Requests, EndWithin(i) PROVE LedgerTypeOK'
  <2>1. account' = account /\ ledger' = ledger /\ form' = form
    BY <1>5 DEF EndWithin
  <2>2. scope' \in [Requests -> [locked : BOOLEAN, balance : Int]]
    BY <1>5 DEF EndWithin, NoScope
  <2>3. \A j \in Requests : scope'[j].locked => scope[j].locked
    BY <1>5 DEF EndWithin, NoScope
  <2> QED
    BY <2>1, <2>2, <2>3
<1>6. ASSUME UNCHANGED ledgerVars PROVE LedgerTypeOK'
  BY <1>6 DEF ledgerVars
<1> QED
  BY <1>1, <1>2, <1>3, <1>4, <1>5, <1>6 DEF Bookless

LEMMA BooklessKeepsLocks == LedgerTypeOK /\ LockInv /\ Bookless => LockInv'
<1> SUFFICES ASSUME LedgerTypeOK, LockInv, Bookless PROVE LockInv'
  OBVIOUS
<1> USE DEF LedgerTypeOK, LockInv, HoldersReadBalance, OneHolder
<1>1. ASSUME NEW a \in Accounts, NEW o \in Openings, OpenAccount(a, o) PROVE LockInv'
  BY <1>1 DEF OpenAccount, NoAccount
<1>2. ASSUME NEW a \in Accounts, Deactivate(a) PROVE LockInv'
  BY <1>2 DEF Deactivate, MayLock, Holders
<1>3. ASSUME NEW i \in Requests, NEW a \in Accounts, Ask(i, a) PROVE LockInv'
  BY <1>3 DEF Ask
<1>4. ASSUME NEW i \in Requests, LockScope(i) PROVE LockInv'
  <2>1. \A j \in Requests : scope[j].locked => form[j].account # form[i].account
    BY <1>4 DEF LockScope, MayLock, Holders
  <2> QED
    BY <1>4, <2>1 DEF LockScope, MayLock
<1>5. ASSUME NEW i \in Requests, EndWithin(i) PROVE LockInv'
  BY <1>5 DEF EndWithin, NoScope
<1>6. ASSUME UNCHANGED ledgerVars PROVE LockInv'
  BY <1>6 DEF ledgerVars
<1> QED
  BY <1>1, <1>2, <1>3, <1>4, <1>5, <1>6 DEF Bookless

\* The money parts read these of an account, and the forms of posted requests.
LEMMA SameMoney ==
  ASSUME MoneyInv, ledger' = ledger,
         \A i \in Requests : Posted(i) => form'[i] = form[i],
         \A c \in Accounts : /\ account'[c].opening = account[c].opening
                             /\ account'[c].balance = account[c].balance
                             /\ account'[c].status = "none" => account[c].status = "none"
  PROVE  MoneyInv'
<1>1. \A c \in Accounts : \A k : Before(c, k)' = Before(c, k)
  BY DEF Before
<1>2. PostedOnOpened' /\ NeverOverdrawn'
  BY DEF MoneyInv, PostedOnOpened, NeverOverdrawn
<1>3. BalancesChain'
  BY <1>1 DEF MoneyInv, BalancesChain
<1>4. PostedAsShown'
  BY <1>1 DEF MoneyInv, PostedAsShown, Posted
<1> QED
  BY <1>2, <1>3, <1>4 DEF MoneyInv

LEMMA BooklessKeepsMoney == LedgerTypeOK /\ MoneyInv /\ Bookless => MoneyInv'
<1> SUFFICES ASSUME LedgerTypeOK, MoneyInv, Bookless PROVE MoneyInv'
  OBVIOUS
<1>1. ASSUME NEW a \in Accounts, NEW o \in Openings, OpenAccount(a, o) PROVE MoneyInv'
  <2>1. ledger[a] = <<>> /\ o \in Nat
    BY <1>1, OpeningsAssumption DEF OpenAccount, NoAccount, MoneyInv, PostedOnOpened
  <2>2. ledger' = ledger /\ form' = form
    BY <1>1 DEF OpenAccount
  <2>3. /\ account'[a].opening = o /\ account'[a].balance = o /\ account'[a].status = "ACTIVE"
        /\ \A c \in Accounts : c # a => account'[c] = account[c]
    BY <1>1 DEF OpenAccount, LedgerTypeOK
  <2>4. Len(ledger[a]) = 0 /\ DOMAIN ledger[a] = {}
    BY <2>1
  <2>5. ASSUME NEW c \in Accounts, NEW k, c # a PROVE Before(c, k)' = Before(c, k)
    BY <2>2, <2>3, <2>5 DEF Before
  <2>6. PostedOnOpened' /\ NeverOverdrawn'
    BY <2>1, <2>2, <2>3, <2>4 DEF MoneyInv, PostedOnOpened, NeverOverdrawn
  <2>7. BalancesChain'
    <3>1. account'[a].balance = Before(a, 1)'
      BY <2>3 DEF Before
    <3>2. account'[a].balance = Before(a, Len(ledger[a]) + 1)'
      BY <2>2, <2>4, <3>1
    <3> QED
      BY <2>2, <2>3, <2>4, <2>5, <3>2 DEF MoneyInv, BalancesChain
  <2>8. PostedAsShown'
    BY <2>2, <2>4, <2>5 DEF MoneyInv, PostedAsShown
  <2> QED
    BY <2>6, <2>7, <2>8 DEF MoneyInv
<1>2. ASSUME NEW a \in Accounts, Deactivate(a) PROVE MoneyInv'
  <2>1. ledger' = ledger /\ form' = form
    BY <1>2 DEF Deactivate
  <2>2. \A c \in Accounts : /\ account'[c].opening = account[c].opening
                            /\ account'[c].balance = account[c].balance
                            /\ account'[c].status = "none" => account[c].status = "none"
    BY <1>2 DEF Deactivate, LedgerTypeOK
  <2> QED
    BY <2>1, <2>2, SameMoney
<1>3. ASSUME NEW i \in Requests, NEW a \in Accounts, Ask(i, a) PROVE MoneyInv'
  <2>1. ledger' = ledger /\ account' = account /\ ~Posted(i)
    BY <1>3 DEF Ask
  <2>2. \A j \in Requests : Posted(j) => form'[j] = form[j]
    BY <1>3, <2>1 DEF Ask, LedgerTypeOK
  <2> QED
    BY <2>1, <2>2, SameMoney
<1>4. ASSUME UNCHANGED <<account, ledger, form>> PROVE MoneyInv'
  BY <1>4, SameMoney
<1>5. ASSUME NEW i \in Requests, LockScope(i) \/ EndWithin(i) PROVE MoneyInv'
  BY <1>4, <1>5 DEF LockScope, EndWithin
<1> QED
  BY <1>1, <1>2, <1>3, <1>4, <1>5 DEF Bookless, ledgerVars

LEMMA BooklessKeepsEntries == EntryInv /\ Bookless => EntryInv'
<1> SUFFICES ASSUME EntryInv, Bookless PROVE EntryInv'
  OBVIOUS
<1>1. ledger' = ledger
  BY DEF Bookless, OpenAccount, Deactivate, Ask, LockScope, EndWithin, ledgerVars
<1> QED
  BY <1>1 DEF EntryInv, PostedOnce, ReversalsPointBack

-----------------------------------------------------------------------------
(* Theorems.                                                               *)

LEMMA LedgerInvInit == LedgerInit => LedgerInv
<1> SUFFICES ASSUME LedgerInit PROVE LedgerInv
  OBVIOUS
<1>1. /\ \A a \in Accounts : ledger[a] = <<>> /\ account[a] = NoAccount
      /\ \A i \in Requests : ~scope[i].locked
  BY DEF LedgerInit, NoScope
<1>2. LedgerTypeOK
  <2>1. <<>> \in Seq(Entries)
    BY EmptySeq
  <2> QED
    BY <2>1 DEF LedgerInit, LedgerTypeOK, NoAccount, NoForm, NoScope
<1>3. Len(<<>>) = 0 /\ DOMAIN <<>> = {}
  OBVIOUS
<1>4. \A a \in Accounts : account[a].balance = 0 /\ account[a].opening = 0
  BY <1>1 DEF NoAccount
<1>5. MoneyInv
  BY <1>1, <1>3, <1>4 DEF MoneyInv, PostedOnOpened, BalancesChain, NeverOverdrawn, PostedAsShown, Before
<1>6. LockInv /\ EntryInv
  BY <1>1, <1>3 DEF LockInv, HoldersReadBalance, OneHolder, EntryInv, PostedOnce, ReversalsPointBack
<1> QED
  BY <1>2, <1>5, <1>6 DEF LedgerInv

LEMMA LedgerInvStep == LedgerInv /\ [LedgerNext]_ledgerVars => LedgerInv'
<1> SUFFICES ASSUME LedgerInv, [LedgerNext]_ledgerVars PROVE LedgerInv'
  OBVIOUS
<1>1. LedgerTypeOK /\ LockInv /\ MoneyInv /\ EntryInv /\ NeverOverdrawn
  BY DEF LedgerInv, MoneyInv
<1>2. CASE Bookless
  BY <1>1, <1>2, BooklessKeepsTypes, BooklessKeepsLocks, BooklessKeepsMoney, BooklessKeepsEntries DEF LedgerInv
<1>3. ASSUME NEW a \in Accounts, NEW e \in NewEntries, Posting(a, e) PROVE LedgerInv'
  BY <1>1, <1>3, PostingKeepsTypes, PostingKeepsLocks, PostingKeepsMoney, PostingKeepsEntries DEF LedgerInv
<1> QED
  BY <1>1, <1>2, <1>3, StepPostsOrNot

\* The invariant of accounts, entries and locks, for every interleaving of requests.
THEOREM LedgerInvariant == LedgerSpec => []LedgerInv
BY LedgerInvInit, LedgerInvStep, PTL DEF LedgerSpec

\* Every table of the ledger stays in its domain.
THEOREM LedgerTypeCorrect == LedgerSpec => []LedgerTypeOK
<1>1. LedgerInv => LedgerTypeOK
  BY DEF LedgerInv
<1> QED
  BY <1>1, LedgerInvariant, PTL

\* No posting is lost or counted twice.
THEOREM LedgerBalancesChain == LedgerSpec => []BalancesChain
<1>1. LedgerInv => BalancesChain
  BY DEF LedgerInv, MoneyInv
<1> QED
  BY <1>1, LedgerInvariant, PTL

\* Checks made before the write are enough: no account is ever overdrawn.
THEOREM LedgerNeverOverdrawn == LedgerSpec => []NeverOverdrawn
<1>1. LedgerInv => NeverOverdrawn
  BY DEF LedgerInv, MoneyInv
<1> QED
  BY <1>1, LedgerInvariant, PTL

\* A key moves money once.
THEOREM LedgerPostedOnce == LedgerSpec => []PostedOnce
<1>1. LedgerInv => PostedOnce
  BY DEF LedgerInv, EntryInv
<1> QED
  BY <1>1, LedgerInvariant, PTL

\* A manual operation takes the balance its author was shown to the projected one.
THEOREM LedgerPostedAsShown == LedgerSpec => []PostedAsShown
<1>1. LedgerInv => PostedAsShown
  BY DEF LedgerInv, MoneyInv
<1> QED
  BY <1>1, LedgerInvariant, PTL

\* An entry is undone at most once, exactly, and by a later entry.
THEOREM LedgerReversedOnce == LedgerSpec => []ReversedOnce
<1>1. LedgerInv => ReversedOnce
  <2> SUFFICES ASSUME LedgerInv, NEW a \in Accounts, NEW k \in DOMAIN ledger[a]
               PROVE  /\ Cardinality(ReversalsOf(a, k)) <= 1
                      /\ \A n \in ReversalsOf(a, k) :
                           /\ n > k
                           /\ ledger[a][n].delta = -ledger[a][k].delta
                           /\ ledger[a][k].type # "REVERSAL"
    BY DEF ReversedOnce
  <2>1. k \in Nat /\ k # 0
    BY EntryTypes DEF LedgerInv
  <2>2. ASSUME NEW n \in ReversalsOf(a, k)
        PROVE  /\ n \in Nat /\ k < n
               /\ ledger[a][n].delta = -ledger[a][k].delta
               /\ ledger[a][k].type # "REVERSAL"
               /\ ReversalsOf(a, k) = {n}
    <3>1. n \in DOMAIN ledger[a] /\ ledger[a][n].reverses = k
      BY DEF ReversalsOf
    <3>2. n \in Nat
      BY <3>1, EntryTypes DEF LedgerInv
    <3>3. /\ k < n
          /\ ledger[a][n].delta = -ledger[a][k].delta
          /\ ledger[a][k].type # "REVERSAL"
          /\ \A m \in DOMAIN ledger[a] : ledger[a][m].reverses = k => m = n
      BY <2>1, <3>1 DEF LedgerInv, EntryInv, ReversalsPointBack
    <3> QED
      BY <3>1, <3>2, <3>3 DEF ReversalsOf
  <2>3. Cardinality(ReversalsOf(a, k)) <= 1
    <3>1. CASE ReversalsOf(a, k) = {}
      BY <3>1, FS_EmptySet
    <3>2. CASE \E n : n \in ReversalsOf(a, k)
      <4>1. PICK n : n \in ReversalsOf(a, k)
        BY <3>2
      <4>2. ReversalsOf(a, k) = {n}
        BY <2>2, <4>1
      <4>3. Cardinality({n}) = 1
        BY FS_Singleton
      <4> QED
        BY <4>2, <4>3
    <3> QED
      BY <3>1, <3>2
  <2> QED
    BY <2>1, <2>2, <2>3
<1> QED
  BY <1>1, LedgerInvariant, PTL
=============================================================================
