-------------------------- MODULE MCLedgerAndLocks --------------------------
(***************************************************************************)
(* Instances of the two parts that put operations in a line by a lock: the *)
(* ledger by an account's row, fraud detection by an advisory lock of the  *)
(* business.  A behaviour works on one and leaves the other as it began.   *)
(***************************************************************************)
EXTENDS SettlementLedger, PurchaseLock, TLC

VARIABLE part

allVars == <<part, ledgerVars, vars>>

MCInit == part \in {"ledger", "locks"} /\ LedgerInit /\ Init

WorksOn(p) == part = p /\ UNCHANGED part

MCNext ==
  \/ WorksOn("ledger") /\ LedgerNext /\ UNCHANGED vars
  \/ WorksOn("locks") /\ Next /\ UNCHANGED ledgerVars

MCSpec == MCInit /\ [][MCNext]_allVars

\* Keys of manual operations, accounts, attempts, codes and owners are interchangeable.  Sets of
\* the two parts have the same members, which TLC permutes together.
Symmetry == Permutations(Requests) \cup Permutations(Accounts)
=============================================================================
