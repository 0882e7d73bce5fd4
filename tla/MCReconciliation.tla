-------------------------- MODULE MCReconciliation --------------------------
(* Instances of Reconciliation for TLC. *)
EXTENDS Reconciliation, TLC

\* Keys and identities of snapshots are interchangeable.
Symmetry == Permutations(Requests) \cup Permutations(Evidence)
=============================================================================
