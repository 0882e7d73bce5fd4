------------------------ MODULE PaymentConfirmation ------------------------
(***************************************************************************)
(* What verification promises to the ledger, without attempts, workers or  *)
(* leases: every transaction gets at most one final outcome and keeps it,  *)
(* and a receipt credits the ledger once, for the first transaction that   *)
(* is verified by it; a later one with the same receipt is a duplicate.    *)
(***************************************************************************)
EXTENDS Naturals

CONSTANTS Txns, Receipts, ReceiptOf

VARIABLES outcome,   \* "OPEN", or the transaction's final status
          credited   \* ledger entries made for the transaction

vars == <<outcome, credited>>

Init == /\ outcome  = [t \in Txns |-> "OPEN"]
        /\ credited = [t \in Txns |-> 0]

\* Another transaction has already been credited for the receipt of t.
Spent(t) == \E u \in Txns \ {t} : outcome[u] = "VERIFIED" /\ ReceiptOf[u] = ReceiptOf[t]

Verify(t) == /\ outcome[t] = "OPEN" /\ ~Spent(t)
             /\ outcome'  = [outcome EXCEPT ![t] = "VERIFIED"]
             /\ credited' = [credited EXCEPT ![t] = @ + 1]

Duplicate(t) == /\ outcome[t] = "OPEN" /\ Spent(t)
                /\ outcome' = [outcome EXCEPT ![t] = "DUPLICATE"]
                /\ UNCHANGED credited

Fail(t) == /\ outcome[t] = "OPEN"
           /\ outcome' = [outcome EXCEPT ![t] = "FAILED"]
           /\ UNCHANGED credited

Next == \E t \in Txns : Verify(t) \/ Duplicate(t) \/ Fail(t)

Spec == Init /\ [][Next]_vars
=============================================================================
