-------------------------- MODULE AccountRegistry --------------------------
(***************************************************************************)
(* The bank accounts that money is expected on: the accounts of a          *)
(* business's branches and those of the platform, in two tables.  An       *)
(* account is known by the fingerprint of its number, which must be        *)
(* unique over both tables; no index spans two tables, so a trigger        *)
(* checks the other one under an advisory lock on the fingerprint.         *)
(* Calls run concurrently; an insert is open until its audit is written.   *)
(***************************************************************************)
EXTENDS Naturals, FiniteSets

CONSTANTS
  Banks,          \* rows of supported_banks
  Numbers,        \* fingerprints of account numbers
  Places,         \* branches of the business
  Registrations   \* concurrent calls that create an account

VARIABLES
  banks,      \* supported_banks.status = 'ACTIVE'
  ownerActs,  \* the business and the owner's membership and role are active
  registered, \* settlement_accounts and platform_settlement_accounts, by table and fingerprint
  open        \* transactions that inserted an account and did not commit yet

registryVars == <<banks, ownerActs, registered, open>>

Tables == {"settlement", "platform"}

Unregistered == [bank |-> "none", place |-> "none", status |-> "none"]
Closed    == [table |-> "none", number |-> "none", row |-> Unregistered]

RegistryInit ==
  /\ banks      \in SUBSET Banks
  /\ ownerActs  = TRUE
  /\ registered = [k \in Tables \X Numbers |-> Unregistered]
  /\ open       = [r \in Registrations |-> Closed]
-----------------------------------------------------------------------------
(* The indexes and the trigger.                                            *)

IsOpen(r) == open[r] # Closed

\* uq_active_settlement_bank_scope and uq_active_platform_bank_account.
SameActive(row, other) ==
  /\ row.status = "ACTIVE" /\ other.status = "ACTIVE"
  /\ row.bank = other.bank /\ row.place = other.place

\* A transaction whose row an index compares ours with is waited for.
IndexFree(row) == ~ \E r \in Registrations : IsOpen(r) /\ SameActive(open[r].row, row)

IndexAccepts(table, number, row) ==
  \A n \in Numbers \ {number} : ~SameActive(registered[<<table, n>>], row)

\* Mutant: the trigger only looks.
LookOnly(number) == TRUE

\* pg_advisory_xact_lock on the fingerprint, held to the end of the transaction.
NumberFree(number) == ~ \E r \in Registrations : open[r].number = number

\* UNIQUE in its own table, EXISTS in the other: an account that was deactivated counts too.
NumberUnused(number) == \A table \in Tables : registered[<<table, number>>] = Unregistered
-----------------------------------------------------------------------------
(* Supported banks.                                                        *)

CreateBank(b) ==
  /\ b \notin banks
  /\ banks' = banks \cup {b}
  /\ UNCHANGED <<ownerActs, registered, open>>

\* updateBank disables a bank and leaves its accounts as they are.
DisableBank(b) ==
  /\ b \in banks
  /\ banks' = banks \ {b}
  /\ UNCHANGED <<ownerActs, registered, open>>

\* The business is suspended or reactivated meanwhile.
OwnerChanges == ownerActs' = ~ownerActs /\ UNCHANGED <<banks, registered, open>>
-----------------------------------------------------------------------------
(* Accounts.                                                               *)

\* INSERT ... SELECT from the active bank; a number or a place that is taken is a conflict.
Insert(r, table, number, row) ==
  /\ ~IsOpen(r) /\ row.bank \in banks
  /\ NumberFree(number) /\ NumberUnused(number)
  /\ IndexFree(row) /\ IndexAccepts(table, number, row)
  /\ open' = [open EXCEPT ![r] = [table |-> table, number |-> number, row |-> row]]
  /\ UNCHANGED <<banks, ownerActs, registered>>

\* createBranchAccount: the owner, in an active business, with the branch's row locked.
CreateBranchAccount(r, place, bank, number) ==
  /\ ownerActs
  /\ ~ \E q \in Registrations : open[q].row.place = place
  /\ Insert(r, "settlement", number, [bank |-> bank, place |-> place, status |-> "ACTIVE"])

\* createPlatformAccount: an administrator.
CreatePlatformAccount(r, bank, number) ==
  Insert(r, "platform", number, [bank |-> bank, place |-> "none", status |-> "ACTIVE"])

\* The audit is written and the transaction commits, or both are lost.
Finish(r) ==
  /\ IsOpen(r)
  /\ registered' \in {registered,
                      [registered EXCEPT ![<<open[r].table, open[r].number>>] = open[r].row]}
  /\ open' = [open EXCEPT ![r] = Closed]
  /\ UNCHANGED <<banks, ownerActs>>

\* deactivateBranchAccount; nothing activates a branch's account again.
DeactivateBranchAccount(number) ==
  /\ registered[<<"settlement", number>>].status = "ACTIVE"
  /\ registered' = [registered EXCEPT ![<<"settlement", number>>].status = "INACTIVE"]
  /\ UNCHANGED <<banks, ownerActs, open>>

\* updatePlatformAccount; the bank need not be active.
UpdatePlatformAccount(number, active) ==
  LET row == [registered[<<"platform", number>>] EXCEPT
                !.status = IF active THEN "ACTIVE" ELSE "INACTIVE"] IN
  /\ registered[<<"platform", number>>] # Unregistered
  /\ IndexFree(row) /\ IndexAccepts("platform", number, row)
  /\ registered' = [registered EXCEPT ![<<"platform", number>>] = row]
  /\ UNCHANGED <<banks, ownerActs, open>>

RegistryNext ==
  \/ \E b \in Banks : CreateBank(b) \/ DisableBank(b)
  \/ OwnerChanges
  \/ \E r \in Registrations, b \in Banks, n \in Numbers :
       \/ \E p \in Places : CreateBranchAccount(r, p, b, n)
       \/ CreatePlatformAccount(r, b, n)
  \/ \E r \in Registrations : Finish(r)
  \/ \E n \in Numbers : \/ DeactivateBranchAccount(n)
                        \/ \E active \in BOOLEAN : UpdatePlatformAccount(n, active)

RegistrySpec == RegistryInit /\ [][RegistryNext]_registryVars
-----------------------------------------------------------------------------
\* An account number belongs to one party: never to a branch and to the platform, or a payment
\* to the one would verify for the other (payguard_enforce_global_account_hash); and a place has
\* one active account at a bank, whatever is created and reactivated meanwhile.
AccountsAreApart ==
  /\ \A n \in Numbers : \E table \in Tables : registered[<<table, n>>] = Unregistered
  /\ \A table \in Tables, m, n \in Numbers :
       m # n => ~SameActive(registered[<<table, m>>], registered[<<table, n>>])
=============================================================================
