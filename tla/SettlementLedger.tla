-------------------------- MODULE SettlementLedger --------------------------
(***************************************************************************)
(* The settlement accounts of a branch and their immutable ledger.         *)
(* Verified payments post on their own; a cashier's deposit or withdrawal  *)
(* and a manager's correction or reversal carry the balance their author   *)
(* was shown, and are sent as often as it takes.  Their transaction locks  *)
(* the account row, compares its balance with the one that was shown, and  *)
(* updates the balance, the ledger and the record of the operation         *)
(* together; other transactions run between its lock and that commit.      *)
(***************************************************************************)
EXTENDS Integers, Sequences, FiniteSets

CONSTANTS
  Accounts,   \* settlement accounts, each of one branch
  Requests,   \* idempotency keys of manual operations
  Payments,   \* confirmed customer payments
  Evidence,   \* identities of reconciliations
  None,       \* SQL NULL
  Amounts,    \* what one operation moves
  Openings,   \* opening balances
  Days        \* reconciliation periods an operation may be dated in

ASSUME AmountsAssumption  == Amounts \subseteq Nat \ {0}
ASSUME OpeningsAssumption == Openings \subseteq Nat
ASSUME DaysAssumption     == Days \subseteq Nat \ {0}
ASSUME SourcesAssumption  == Requests \cap Payments = {}
ASSUME NoneAssumption     == None \notin Accounts \cup Requests \cup Evidence

VARIABLES
  account,   \* settlement_accounts: status, opening_balance, calculated_balance
  ledger,    \* ledger_entries of each account, in the order they were posted
  form,      \* the account and the balance the author of a request was shown
  scope      \* the balance a transaction read when it locked the account

ledgerVars == <<account, ledger, form, scope>>

Credits == {"VERIFIED_DEPOSIT", "MANUAL_DEPOSIT", "POSITIVE_CORRECTION"}
Debits  == {"WITHDRAWAL", "NEGATIVE_CORRECTION"}
Types   == Credits \cup Debits \cup {"REVERSAL"}
Corrections == {"POSITIVE_CORRECTION", "NEGATIVE_CORRECTION"}

NoAccount == [status |-> "none", opening |-> 0, balance |-> 0]
NoForm    == [account |-> None, balance |-> 0]
NoScope   == [locked |-> FALSE, balance |-> 0]

LedgerInit ==
  /\ account = [a \in Accounts |-> NoAccount]
  /\ ledger  = [a \in Accounts |-> <<>>]
  /\ form    = [i \in Requests |-> NoForm]
  /\ scope   = [i \in Requests |-> NoScope]

-----------------------------------------------------------------------------
(* LedgerDao: what a posting does to a locked account.                     *)

\* The signed amount of an entry.
Signed(type, m) == IF type \in Debits THEN -m ELSE m

\* The entries of an account that reverse its k-th one.
ReversalsOf(a, k) == {n \in DOMAIN ledger[a] : ledger[a][n].reverses = k}

Posted(s) == \E a \in Accounts : \E k \in DOMAIN ledger[a] : ledger[a][k].source = s

\* The request, if any, whose transaction holds the account's row.
Holders(a) == {i \in Requests : scope[i].locked /\ form[i].account = a}

\* Mutant: the row is read without FOR UPDATE.
ReadsUnlocked(a) == account[a].status = "ACTIVE"

\* An ACTIVE account whose row nobody holds.
MayLock(a) == account[a].status = "ACTIVE" /\ Holders(a) = {}

\* Mutant: the running balance is the one before the entry.
BalanceBefore(a, e) == account[a].balance

BalanceAfter(a, e) == account[a].balance + e.delta

\* One UPDATE of the balance and one INSERT of the entry, with its record.
Post(a, e) ==
  /\ account' = [account EXCEPT ![a] = [account[a] EXCEPT !.balance = account[a].balance + e.delta]]
  /\ ledger'  = [ledger EXCEPT ![a] = Append(ledger[a],
       [type |-> e.type, delta |-> e.delta, day |-> e.day, source |-> e.source,
        reverses |-> e.reverses, cites |-> e.cites, running |-> BalanceAfter(a, e)])]

-----------------------------------------------------------------------------
(* Accounts.                                                               *)

\* An owner opens an account; the opening balance becomes the calculated one,
\* and no entry is posted.
OpenAccount(a, o) ==
  /\ account[a] = NoAccount
  /\ account' = [account EXCEPT ![a] = [status |-> "ACTIVE", opening |-> o, balance |-> o]]
  /\ UNCHANGED <<ledger, form, scope>>

Deactivate(a) ==
  /\ MayLock(a)
  /\ account' = [account EXCEPT ![a] = [account[a] EXCEPT !.status = "INACTIVE"]]
  /\ UNCHANGED <<ledger, form, scope>>

-----------------------------------------------------------------------------
(* The transaction of a request: lockScope, then the checks and the writes *)
(* of createWithin or approveWithin.                                       *)

\* Mutant: the key is not looked up.
NewOrRepeated(i) == TRUE

\* No operation was recorded with this key.
New(i) == ~Posted(i)

\* The client asks for the projected balance of an account, again after a conflict.
Ask(i, a) ==
  /\ ~scope[i].locked /\ ~Posted(i)
  /\ account[a].status = "ACTIVE"
  /\ form' = [form EXCEPT ![i] = [account |-> a, balance |-> account[a].balance]]
  /\ UNCHANGED <<account, ledger, scope>>

\* A request or a repetition of one reaches the account.
LockScope(i) ==
  LET a == form[i].account IN
  /\ a # None /\ ~scope[i].locked
  /\ MayLock(a)
  /\ scope' = [scope EXCEPT ![i] = [locked |-> TRUE, balance |-> account[a].balance]]
  /\ UNCHANGED <<account, ledger, form>>

\* The transaction ends and writes nothing: a replay of what is posted, a
\* refusal, or a failure.
EndWithin(i) ==
  /\ scope[i].locked
  /\ scope' = [scope EXCEPT ![i] = NoScope]
  /\ UNCHANGED <<account, ledger, form>>

\* Mutant: the shown balance is not compared.
AnyBalance(i) == TRUE

\* expectedCurrentBalance is the locked one; the projection differs from it by the amount.
AsShown(i) == form[i].balance = scope[i].balance

\* A withdrawal, a negative correction and the reversal of a credit need the balance.
Sufficient(i, d) == d < 0 => scope[i].balance >= -d

\* Audit row, posting, record of the operation: one commit.
Operation(i, type, d, day, k, cites) ==
  /\ scope[i].locked /\ New(i) /\ AsShown(i) /\ Sufficient(i, d)
  /\ Post(form[i].account, [type |-> type, delta |-> d, day |-> day, source |-> i,
                            reverses |-> k, cites |-> cites])
  /\ scope' = [scope EXCEPT ![i] = NoScope]
  /\ UNCHANGED form

CreateDeposit(i, m, day) ==
  Operation(i, "MANUAL_DEPOSIT", Signed("MANUAL_DEPOSIT", m), day, 0, None)

CreateWithdrawal(i, m, day) ==
  Operation(i, "WITHDRAWAL", Signed("WITHDRAWAL", m), day, 0, None)

\* "valid": the reconciliation cited as evidence, if any, is one of this account.
CreateCorrection(i, type, m, day, cites, valid) ==
  /\ valid
  /\ Operation(i, type, Signed(type, m), day, 0, cites)

\* An entry that is no reversal and has none.
Reversible(a, k) == ledger[a][k].type # "REVERSAL" /\ ReversalsOf(a, k) = {}

ApproveReversal(i, k, day) ==
  LET a == form[i].account IN
  /\ Reversible(a, k)
  /\ Operation(i, "REVERSAL", -ledger[a][k].delta, day, k, None)

\* The posting of a verified payment, which compares no balance.
PostVerified(p, a, m, day) ==
  /\ MayLock(a) /\ ~Posted(p)
  /\ Post(a, [type |-> "VERIFIED_DEPOSIT", delta |-> Signed("VERIFIED_DEPOSIT", m), day |-> day,
              source |-> p, reverses |-> 0, cites |-> None])
  /\ UNCHANGED <<form, scope>>

-----------------------------------------------------------------------------
\* Everything but corrections, whose evidence lives in another table.
LedgerStep ==
  \/ \E a \in Accounts, o \in Openings : OpenAccount(a, o)
  \/ \E a \in Accounts : Deactivate(a)
  \/ \E p \in Payments, a \in Accounts, m \in Amounts, day \in Days : PostVerified(p, a, m, day)
  \/ \E i \in Requests, a \in Accounts : Ask(i, a)
  \/ \E i \in Requests : LockScope(i) \/ EndWithin(i)
  \/ \E i \in Requests, m \in Amounts, day \in Days :
       CreateDeposit(i, m, day) \/ CreateWithdrawal(i, m, day)
  \/ \E i \in Requests, day \in Days :
       scope[i].locked /\ \E k \in DOMAIN ledger[form[i].account] : ApproveReversal(i, k, day)

LedgerNext ==
  \/ LedgerStep
  \/ \E i \in Requests, type \in Corrections, m \in Amounts, day \in Days,
        cites \in Evidence \cup {None}, valid \in BOOLEAN :
       CreateCorrection(i, type, m, day, cites, valid)

LedgerSpec == LedgerInit /\ [][LedgerNext]_ledgerVars

-----------------------------------------------------------------------------
Entries == [type : Types, delta : Int, day : Days, source : Requests \cup Payments,
            reverses : Nat, cites : Evidence \cup {None}, running : Int]

\* The type of every table, and a request that holds a row was shown that account.
LedgerTypeOK ==
  /\ account \in [Accounts -> [status : {"none", "ACTIVE", "INACTIVE"}, opening : Nat, balance : Int]]
  /\ ledger \in [Accounts -> Seq(Entries)]
  /\ form \in [Requests -> [account : Accounts \cup {None}, balance : Int]]
  /\ scope \in [Requests -> [locked : BOOLEAN, balance : Int]]
  /\ \A i \in Requests : scope[i].locked => form[i].account \in Accounts

\* The running balance before the k-th entry: the entry before it, or the opening balance.
Before(a, k) == IF k = 1 THEN account[a].opening ELSE ledger[a][k - 1].running

\* Running balances form an unbroken chain from the opening balance to the
\* account's calculated balance: no posting is lost or counted twice, however
\* deposits, withdrawals, corrections, reversals and verified payments meet
\* (ledger.dao.ts postLocked under the row lock).
BalancesChain ==
  \A a \in Accounts :
    /\ \A k \in DOMAIN ledger[a] : ledger[a][k].running = Before(a, k) + ledger[a][k].delta
    /\ account[a].balance = Before(a, Len(ledger[a]) + 1)

\* No mix of withdrawals, negative corrections and reversals of credits, each
\* checked in a transaction of its own, overdraws an account at any point of
\* its ledger (lockScope's sufficient_balance in the three DAOs).
NeverOverdrawn ==
  \A a \in Accounts :
    /\ account[a].balance >= 0
    /\ \A k \in DOMAIN ledger[a] : ledger[a][k].running >= 0

\* A key that is sent again, before or after its answer, moves money once,
\* on one account (the look-up of the operation's id under the account lock).
PostedOnce ==
  \A a, b \in Accounts : \A k \in DOMAIN ledger[a] : \A n \in DOMAIN ledger[b] :
    ledger[a][k].source = ledger[b][n].source => a = b /\ k = n

\* An entry is reversed at most once, by a later entry of the same account
\* with exactly the opposite amount, and a reversal is never reversed
\* (reversal-approval.dao.ts approveWithin, ledger.dao.ts reverseWithin).
ReversedOnce ==
  \A a \in Accounts : \A k \in DOMAIN ledger[a] :
    /\ Cardinality(ReversalsOf(a, k)) <= 1
    /\ \A n \in ReversalsOf(a, k) :
         /\ n > k
         /\ ledger[a][n].delta = -ledger[a][k].delta
         /\ ledger[a][k].type # "REVERSAL"

\* What a manual operation did is what its author confirmed: the balance went
\* from the one that was shown to the projected one, although others posted
\* between the projection and the request (expectedCurrentBalance and
\* expectedProjectedBalance of the four DAOs).
PostedAsShown ==
  \A a \in Accounts : \A k \in DOMAIN ledger[a] :
    ledger[a][k].source \in Requests =>
      form[ledger[a][k].source] = [account |-> a, balance |-> Before(a, k)]
=============================================================================
