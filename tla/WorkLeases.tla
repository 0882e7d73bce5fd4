----------------------------- MODULE WorkLeases -----------------------------
(***************************************************************************)
(* What the queues of the background worker share.  A row waits until it   *)
(* is due; a worker claims it with a fresh token and one more attempt; a   *)
(* claim whose lease lapsed may be claimed again while attempts are left,  *)
(* although its first worker may still be at it.  A token is fresh and a   *)
(* worker holds one claim at a time, so its name stands for the token.     *)
(***************************************************************************)
EXTENDS Naturals, FiniteSets

CONSTANTS
  Workers,   \* calls of processNext, one at a time in each process
  None,      \* SQL NULL
  MaxStops   \* bound: claims that end with their process, in a behaviour

ASSUME NoneIsNoWorker == None \notin Workers
ASSUME StopsBounded == MaxStops \in Nat

MaxAttempts == 3

\* The columns of a queue's row that carry its lease: the worker whose claim token it
\* holds, whether next_attempt_at has passed and whether the lease has.
FreshLease == [attempts |-> 0, token |-> None, due |-> TRUE, lapsed |-> FALSE]

\* Mutant: a claim is taken again only before its second attempt.
ClaimableOnce(l, queued, running) ==
  /\ l.attempts < MaxAttempts
  /\ (queued /\ l.due) \/ (running /\ l.lapsed /\ l.attempts < 2)

\* The WHERE clause of claimNext: a queued row that is due, or a running one whose lease lapsed.
Claimable(l, queued, running) ==
  /\ l.attempts < MaxAttempts
  /\ (queued /\ l.due) \/ (running /\ l.lapsed)

\* Its UPDATE.
Claim(l, w) == [attempts |-> l.attempts + 1, token |-> w, due |-> TRUE, lapsed |-> FALSE]

\* claim_token and claimed_at are cleared; the row is due again after its backoff.
Released(l) == [l EXCEPT !.token = None, !.lapsed = FALSE, !.due = FALSE]

\* Mutant: any worker's write is accepted.
AnyHolder(l, w) == TRUE

\* The token guard of every write that ends a claim.
Holds(l, w) == l.token = w
=============================================================================
