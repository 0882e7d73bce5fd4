----------------------- MODULE MCVerificationPipeline -----------------------
(* Instances of VerificationPipeline for TLC: which receipts the transactions name. *)
EXTENDS VerificationPipeline, TLC

CONSTANT r1

\* All transactions claim the same payment.
SameReceipt == [t \in Txns |-> r1]

\* Workers are interchangeable, and so are transactions that claim the same payment.
Symmetry == Permutations(Workers) \cup Permutations(Txns)
=============================================================================
