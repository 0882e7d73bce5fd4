------------------------ MODULE MCSubscriptionCredits ------------------------
(* Instances of SubscriptionCredits for TLC: plans, payments and their orders. *)
EXTENDS SubscriptionCredits, TLC

CONSTANTS o1, o2, o3, p1, p2

\* Two orders show the same payment; the third has one of its own.
SharedPayment == [o \in Orders |-> IF o = o3 THEN p2 ELSE p1]

\* A plan that crosses the thresholds one by one, and plans its own deferral uses up.
SmallPlans == [o \in Orders |-> IF o = o1 THEN 4 ELSE 1]

\* Calls are interchangeable.
Symmetry == Permutations(Calls)

\* The first plan outlasts the others.
Durations == [o \in Orders |-> IF o = o1 THEN 2 ELSE 1]
=============================================================================
