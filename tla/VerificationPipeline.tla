------------------------ MODULE VerificationPipeline ------------------------
(***************************************************************************)
(* Customer payment verification: a submitted transaction is charged one   *)
(* credit, attempted once, and rechecked at most RecheckLimit times by     *)
(* workers that lease the recheck rows, call Verify.ET and persist what it *)
(* answered.  Every action is one database transaction, or one awaited     *)
(* call, of the service code; the interleavings between them are those of  *)
(* several worker processes and of the HTTP handlers.                      *)
(*                                                                         *)
(* Postgres aborts a transaction whose code throws, so an operation that   *)
(* throws changes only the caller: its worker goes to "threw", where the   *)
(* runner's tick catches it, and the claim stays as it was.                *)
(***************************************************************************)
EXTENDS Naturals, FiniteSets

CONSTANTS
  Txns,             \* customer transactions
  Workers,          \* verification worker processes
  Receipts,         \* (bank, reference, receiver suffix) triples
  ReceiptOf,        \* the triple each transaction claims to be paid by
  None,             \* SQL NULL
  RecheckLimit,     \* rechecks per transaction (3 in the code)
  MaxPollAttempts,  \* dispatches of one provider request before giving up
  PollIds,          \* "same": a status poll answers the polled id; "fresh": a new one
  MaxUploads,       \* bound: proof uploads in flight for one transaction
  CreditCap,        \* bound: usable credits of the branch
  MaxToggles,       \* bound: activations and deactivations of the branch
  MaxCrashes,       \* bound: worker crashes
  MaxStalls         \* bound: leases that lapse while their worker still runs

ASSUME LimitAssumption == RecheckLimit \in Nat \ {0} /\ MaxPollAttempts \in Nat \ {0}
ASSUME BoundAssumption == /\ MaxUploads \in Nat /\ CreditCap \in Nat
                          /\ MaxToggles \in Nat /\ MaxCrashes \in Nat /\ MaxStalls \in Nat
ASSUME ReceiptAssumption == ReceiptOf \in [Txns -> Receipts]
ASSUME PollAssumption == PollIds \subseteq {"same", "fresh"}

Rechecks   == 1 .. RecheckLimit
AttemptNos == 0 .. RecheckLimit          \* 0 is the INITIAL attempt
Ops        == {"SUBMIT", "STATUS"}
Ids        == Txns \X AttemptNos \X Ops  \* provider request ids

FinalStatuses == {"VERIFIED", "FAILED", "DUPLICATE"}
TxStatuses    == {"NEW", "PROCESSING", "PENDING", "WAITING_CREDITS", "PAUSED_BRANCH"}
                   \cup FinalStatuses
Results       == {"NONE", "QUEUED", "PENDING"} \cup FinalStatuses
HoldStatuses  == {"WAITING_CREDITS", "PAUSED_BRANCH", "PAUSED_PROVIDER"}
RowStatuses   == {"NONE", "SCHEDULED", "CLAIMED", "COMPLETED"} \cup HoldStatuses
Leases        == {"none", "live", "lapsed"}              \* claim_expires_at
ReqStatuses   == {"NONE", "RESERVED", "SENT", "SUCCEEDED", "FAILED"}
Outcomes      == {"PENDING", "FAILED", "VERIFIED", "MISMATCH"}  \* MISMATCH: verified, but of
Errors        == {"RETRY", "STOP"}                              \* another amount, account or time
Answers       == Outcomes \cup Errors

ASSUME NoneAssumption == /\ None \notin Workers /\ None \notin Ids /\ None \notin AttemptNos
                         /\ None \notin TxStatuses

\* The moves verification-state-machine.service.ts allows, whatever their source.
Moves ==
  (({"PROCESSING"} \X ({"PENDING", "WAITING_CREDITS", "PAUSED_BRANCH"} \cup FinalStatuses))
    \cup ({"WAITING_CREDITS"} \X {"PROCESSING", "PAUSED_BRANCH", "FAILED"}))
  \cup (({"PAUSED_BRANCH"} \X {"PROCESSING", "WAITING_CREDITS", "FAILED"})
    \cup ({"PENDING"} \X ({"PROCESSING", "PAUSED_BRANCH"} \cup FinalStatuses)))

VARIABLES
  txStatus,   \* customer_transactions.current_status
  attempt,    \* verification_attempts: result and provider request id, per number
  recheck,    \* pending_rechecks: status, claim token, its lease and the number of
              \* the attempt bound to the row
  request,    \* verifyet_provider_requests per attempt and operation
  lastId,     \* provider id of the transaction's most recently completed request
  charges,    \* VERIFICATION_DEDUCTION events of the transaction
  credits,    \* usable credits of the branch
  branch,     \* status of the business and the branch: "ACTIVE" when both are
  confirmed,  \* transactions with a transaction_confirmations row
  credited,   \* VERIFIED_DEPOSIT ledger entries of the transaction
  alerts,     \* provider requests with a security alert
  uploads,    \* proof uploads past their attempt lookup, before their row locks
  pc, job,    \* each worker's place in processNext, and its local variables
  budget      \* what is left of the three bounds on the environment

dbVars  == <<txStatus, attempt, recheck, request, lastId, charges, credits,
             confirmed, credited, alerts>>
envVars == <<branch, uploads, budget>>
vars    == <<dbVars, envVars, pc, job>>

NoRow     == [status |-> "NONE", token |-> None, lease |-> "none", bound |-> None]
NoRequest == [status |-> "NONE", polled |-> None, id |-> None, count |-> 0]
NoAttempt == [result |-> "NONE", id |-> None]

AttemptRows == [result : Results, id : Ids \cup {None}]
RecheckRows == [status : RowStatuses, token : Workers \cup {None}, lease : Leases,
                bound : AttemptNos \cup {None}]
RequestRows == [status : ReqStatuses, polled : Ids \cup {None}, id : Ids \cup {None},
                count : 0 .. MaxPollAttempts]

Jobs == [t : Txns, n : Rechecks, op : Ops, polled : Ids \cup {None},
         saw : ReqStatuses, count : 0 .. MaxPollAttempts,
         ans : Answers \cup {None}, id : Ids \cup {None}, hold : HoldStatuses]

Places == {"idle", "claimed", "resolving", "prepared", "bound", "read", "reserved", "sent",
           "answered", "persist", "recorded", "deferring", "alerting", "pausing", "threw"}

Init ==
  /\ txStatus  = [t \in Txns |-> "NEW"]
  /\ attempt   = [t \in Txns |-> [n \in AttemptNos |-> NoAttempt]]
  /\ recheck   = [t \in Txns |-> [n \in Rechecks |-> NoRow]]
  /\ request   = [t \in Txns |-> [n \in Rechecks |-> [o \in Ops |-> NoRequest]]]
  /\ lastId    = [t \in Txns |-> None]
  /\ charges   = [t \in Txns |-> 0]
  /\ credits   = 0
  /\ branch    = "ACTIVE"
  /\ confirmed = {}
  /\ credited  = [t \in Txns |-> 0]
  /\ alerts    = {}
  /\ uploads   = [t \in Txns |-> 0]
  /\ pc        = [w \in Workers |-> "idle"]
  /\ job       = [w \in Workers |-> None]
  /\ budget    = [toggles |-> MaxToggles, crashes |-> MaxCrashes, stalls |-> MaxStalls]

-----------------------------------------------------------------------------
(* Shared pieces of the services' transactions.                            *)

\* VerificationStateMachineService.assertTransition, source included: every caller
\* below passes a source its target allows.
CanMove(t, s) == <<txStatus[t], s>> \in Moves

\* VerificationAttemptDao.reserveWithin and the transition that follows an insertion;
\* a replayed reservation leaves the status alone.
ReserveAttempt(t, n) ==
  /\ attempt' = [attempt EXCEPT ![t][n] =
                   IF @.result = "NONE" THEN [result |-> "QUEUED", id |-> None] ELSE @]
  /\ txStatus' = [txStatus EXCEPT ![t] =
                    IF attempt[t][n].result = "NONE" THEN "PROCESSING" ELSE @]

\* Mutant: post does not look for an earlier confirmation of the receipt.
DecisionIgnoringDuplicates(t, ans) == IF ans = "MISMATCH" THEN "FAILED" ELSE ans

\* What VerifiedPaymentPostingService.post decides, and the other outcomes as they are.
Decision(t, ans) ==
  IF ans = "MISMATCH" THEN "FAILED"
  ELSE IF ans = "VERIFIED" /\ \E u \in confirmed \ {t} : ReceiptOf[u] = ReceiptOf[t]
  THEN "DUPLICATE" ELSE ans

\* An id is free for attempt n when no other attempt carries it
\* (uq_verification_attempt_provider_request_id).
IdFree(t, n, i) == \A u \in Txns, m \in AttemptNos : attempt[u][m].id = i => <<u, m>> = <<t, n>>

\* resolveNextRecheckNumber and scheduleWithin let a PENDING answer be recorded: the recheck
\* just answered is still on record, the limit is not reached, the next row is free.
MaySchedule(t, n) ==
  /\ n < RecheckLimit
  /\ \A m \in Rechecks :
       /\ m = n     => recheck[t][m].bound = m /\ recheck[t][m].status \in {"CLAIMED", "COMPLETED"}
       /\ m = n + 1 => recheck[t][m].status = "NONE"

\* None of the checks of record / post throws.  Two calls never carry the same
\* timestamps, so an attempt that already has an outcome is an outcome conflict.
OutcomeAccepted(t, n, ans, i) ==
  /\ attempt[t][n].result = "QUEUED"
  /\ IdFree(t, n, i)
  /\ CanMove(t, Decision(t, ans))
  /\ ans # "PENDING" \/ MaySchedule(t, n)

\* Mutants: the outcome is not written to a pending attempt; only the INITIAL attempt
\* schedules a recheck; a duplicate is credited.
FinalizedUnlessPending(t, n, d, i) ==
  IF d = "PENDING" THEN attempt ELSE [attempt EXCEPT ![t][n] = [result |-> d, id |-> i]]
FirstScheduleOnly(t, n, d) ==
  IF d = "PENDING" /\ n = 0
  THEN [recheck EXCEPT ![t][n + 1] = [NoRow EXCEPT !.status = "SCHEDULED"]] ELSE recheck
LedgerEntriesOfDuplicates(t, d) ==
  [credited EXCEPT ![t] = IF d \in {"VERIFIED", "DUPLICATE"} THEN @ + 1 ELSE @]

\* VerificationAttemptDao.finalizeWithin.
Finalized(t, n, d, i) == [attempt EXCEPT ![t][n] = [result |-> d, id |-> i]]

\* PendingRecheckDao.scheduleWithin, for a PENDING outcome.
NextSchedule(t, n, d) ==
  IF d = "PENDING"
  THEN [recheck EXCEPT ![t][n + 1] = [NoRow EXCEPT !.status = "SCHEDULED"]] ELSE recheck

\* LedgerDao.postWithin, for a VERIFIED one.
LedgerEntries(t, d) == [credited EXCEPT ![t] = IF d = "VERIFIED" THEN @ + 1 ELSE @]

\* VerificationOutcomeService.record / VerifiedPaymentPostingService.post: the attempt,
\* the status, the next schedule, the confirmation and the ledger entry commit together.
RecordOutcome(t, n, ans, i) ==
  LET d == Decision(t, ans) IN
  /\ attempt'   = Finalized(t, n, d, i)
  /\ txStatus'  = [txStatus EXCEPT ![t] = d]
  /\ recheck'   = NextSchedule(t, n, d)
  /\ confirmed' = IF d = "VERIFIED" THEN confirmed \cup {t} ELSE confirmed
  /\ credited'  = LedgerEntries(t, d)
  /\ UNCHANGED <<request, lastId, charges, credits, alerts>>

-----------------------------------------------------------------------------
(* Submission, proof upload and what happens around the workers.           *)

\* TransactionSubmissionDao.createWithin: everything in scope must be ACTIVE.
Submit(t) ==
  /\ txStatus[t] = "NEW" /\ branch = "ACTIVE"
  /\ txStatus' = [txStatus EXCEPT ![t] = "PROCESSING"]
  /\ UNCHANGED <<attempt, recheck, request, lastId, charges, credits, confirmed, credited,
                 alerts, envVars, pc, job>>

\* A matched receipt calls prepare(INITIAL); its attempt lookup takes no lock when the
\* attempt does not exist yet.  (An existing attempt is replayed: no change.)
UploadLookup(t) ==
  /\ txStatus[t] # "NEW" /\ attempt[t][0].result = "NONE" /\ uploads[t] < MaxUploads
  /\ uploads' = [uploads EXCEPT ![t] = @ + 1]
  /\ UNCHANGED <<dbVars, branch, budget, pc, job>>

\* Mutant: the transaction's own deduction is not noticed.
ChargeAgain(t) == [charges EXCEPT ![t] = @ + 1]

\* VerificationCreditEligibilityDao.resolveWithin of an INITIAL attempt: an earlier
\* deduction of the transaction is reused, otherwise one credit is consumed.
Eligible(t) == charges[t] > 0 \/ credits > 0
Charge(t)   == [charges EXCEPT ![t] = IF @ = 0 THEN 1 ELSE @]

\* The rest of prepare(INITIAL), under the transaction, business and branch row locks.
UploadPrepare(t) ==
  /\ uploads[t] > 0
  /\ uploads' = [uploads EXCEPT ![t] = @ - 1]
  /\ \/ /\ branch # "ACTIVE"                                      \* PAUSED_BRANCH
        /\ txStatus' = [txStatus EXCEPT ![t] =
                          IF CanMove(t, "PAUSED_BRANCH") THEN "PAUSED_BRANCH" ELSE @]
        /\ UNCHANGED <<attempt, charges, credits>>
     \/ /\ branch = "ACTIVE" /\ txStatus[t] \in {"PENDING"} \cup FinalStatuses  \* throws
        /\ UNCHANGED <<txStatus, attempt, charges, credits>>
     \/ /\ branch = "ACTIVE" /\ txStatus[t] \in {"PROCESSING", "WAITING_CREDITS", "PAUSED_BRANCH"}
        /\ ~Eligible(t)                                          \* WAITING_CREDITS
        /\ txStatus' = [txStatus EXCEPT ![t] = "WAITING_CREDITS"]
        /\ UNCHANGED <<attempt, charges, credits>>
     \/ /\ branch = "ACTIVE" /\ txStatus[t] \in {"PROCESSING", "WAITING_CREDITS", "PAUSED_BRANCH"}
        /\ Eligible(t)                                           \* ELIGIBLE
        /\ charges' = Charge(t)
        /\ credits' = IF charges[t] = 0 THEN credits - 1 ELSE credits
        /\ ReserveAttempt(t, 0)
  /\ UNCHANGED <<recheck, request, lastId, confirmed, credited, alerts, branch, budget, pc, job>>

\* The INITIAL attempt's outcome.  No code in src/ dispatches it: the caller of record /
\* post is external, as in the integration tests.
InitialOutcome(t, ans) ==
  /\ OutcomeAccepted(t, 0, ans, <<t, 0, "SUBMIT">>)
  /\ RecordOutcome(t, 0, ans, <<t, 0, "SUBMIT">>)
  /\ UNCHANGED <<envVars, pc, job>>

\* A subscription grant makes another credit usable.
GrantCredit ==
  /\ credits < CreditCap
  /\ credits' = credits + 1
  /\ UNCHANGED <<txStatus, attempt, recheck, request, lastId, charges, confirmed, credited,
                 alerts, envVars, pc, job>>

\* The business is suspended, or activated again (nothing in src/ changes branches.status).
ToggleBranch ==
  /\ budget.toggles > 0
  /\ branch' = IF branch = "ACTIVE" THEN "INACTIVE" ELSE "ACTIVE"
  /\ budget' = [budget EXCEPT !.toggles = @ - 1]
  /\ UNCHANGED <<dbVars, uploads, pc, job>>

-----------------------------------------------------------------------------
(* VerifyEtWorkerService.processNext, one awaited call at a time.          *)

Row(w) == recheck[job[w].t][job[w].n]
Req(w) == request[job[w].t][job[w].n][job[w].op]

\* Mutant: claim_expires_at is not compared with the clock.
OwnsExpired(w) == Row(w).status = "CLAIMED" /\ Row(w).token = w

\* The fencing condition of every claim update: token, CLAIMED, lease not expired.
Owns(w) == Row(w).status = "CLAIMED" /\ Row(w).token = w /\ Row(w).lease = "live"

At(w, place) == pc[w] = place
Goto(w, place) == pc' = [pc EXCEPT ![w] = place]

\* The step throws (a conflict, a lost claim, a violated index): nothing is committed.
Throw(w) == Goto(w, "threw") /\ UNCHANGED <<dbVars, envVars, job>>

\* PendingRecheckDao.claimNext: a due row, or one whose lease has lapsed.
Claim(w, t, n) ==
  /\ At(w, "idle")
  /\ \/ recheck[t][n].status = "SCHEDULED"
     \/ recheck[t][n].status = "CLAIMED" /\ recheck[t][n].lease = "lapsed"
  /\ recheck' = [recheck EXCEPT ![t][n] =
                   [@ EXCEPT !.status = "CLAIMED", !.token = w, !.lease = "live"]]
  /\ job' = [job EXCEPT ![w] =
               [t |-> t, n |-> n, op |-> "SUBMIT", polled |-> None, saw |-> "NONE", count |-> 0,
                ans |-> None, id |-> None, hold |-> "PAUSED_PROVIDER"]]
  /\ Goto(w, "claimed")
  /\ UNCHANGED <<txStatus, attempt, request, lastId, charges, credits, confirmed, credited,
                 alerts, envVars>>

\* prepare(RECHECK) looks its attempt up by key; an existing one is replayed as PREPARED.
Lookup(w) ==
  /\ At(w, "claimed")
  /\ Goto(w, IF attempt[job[w].t][job[w].n].result = "NONE" THEN "resolving" ELSE "prepared")
  /\ UNCHANGED <<dbVars, envVars, job>>

\* The rest of prepare(RECHECK) under the row locks.  An inactive branch is answered
\* before the status is looked at; an active one requires PENDING and never charges.
Resolve(w) ==
  LET t == job[w].t
      n == job[w].n IN
  /\ At(w, "resolving")
  /\ IF branch # "ACTIVE"
     THEN IF txStatus[t] = "PAUSED_BRANCH" \/ CanMove(t, "PAUSED_BRANCH")
          THEN /\ txStatus' = [txStatus EXCEPT ![t] = "PAUSED_BRANCH"]
               /\ job' = [job EXCEPT ![w].hold = "PAUSED_BRANCH"]
               /\ Goto(w, "pausing")
               /\ UNCHANGED attempt
          ELSE Goto(w, "threw") /\ UNCHANGED <<txStatus, attempt, job>>
     ELSE IF txStatus[t] # "PENDING"
     THEN Goto(w, "threw") /\ UNCHANGED <<txStatus, attempt, job>>
     ELSE IF charges[t] = 0                            \* no initial credit event
     THEN /\ job' = [job EXCEPT ![w].hold = "WAITING_CREDITS"]
          /\ Goto(w, "pausing")
          /\ UNCHANGED <<txStatus, attempt>>
     ELSE ReserveAttempt(t, n) /\ Goto(w, "prepared") /\ UNCHANGED job
  /\ UNCHANGED <<recheck, request, lastId, charges, credits, confirmed, credited, alerts, envVars>>

\* PendingRecheckDao.bindAttemptToClaim.
Bind(w) ==
  /\ At(w, "prepared")
  /\ \/ ~Owns(w) /\ Throw(w)
     \/ /\ Owns(w)
        /\ recheck' = [recheck EXCEPT ![job[w].t][job[w].n] = [@ EXCEPT !.bound = job[w].n]]
        /\ Goto(w, "bound")
        /\ UNCHANGED <<txStatus, attempt, request, lastId, charges, credits, confirmed, credited,
                       alerts, envVars, job>>

\* VerifyEtWorkItemDao.requireByAttemptId: the id to poll decides the operation.
ReadWorkItem(w) ==
  LET i == lastId[job[w].t] IN
  /\ At(w, "bound")
  /\ job' = [job EXCEPT ![w].polled = i, ![w].op = IF i = None THEN "SUBMIT" ELSE "STATUS"]
  /\ Goto(w, "read")
  /\ UNCHANGED <<dbVars, envVars>>

\* VerifyEtRequestHistoryDao.reserve: the key is the operation and the attempt; the
\* payload hash covers the polled id.
Reserve(w) ==
  /\ At(w, "read")
  /\ \/ Req(w).status # "NONE" /\ Req(w).polled # job[w].polled /\ Throw(w)
     \/ /\ Req(w).status = "NONE" \/ Req(w).polled = job[w].polled
        /\ LET row == IF Req(w).status = "NONE"
                      THEN [NoRequest EXCEPT !.status = "RESERVED", !.polled = job[w].polled]
                      ELSE Req(w)
           IN /\ request' = [request EXCEPT ![job[w].t][job[w].n][job[w].op] = row]
              /\ job' = [job EXCEPT ![w].saw = row.status, ![w].count = row.count]
        /\ Goto(w, "reserved")
        /\ UNCHANGED <<txStatus, attempt, recheck, lastId, charges, credits, confirmed, credited,
                       alerts, envVars>>

\* The work item's lateral join takes the id of the latest completed request first; the
\* ids it may fall back to when the request that carries lastId is sent again.
CompletedIds(t) ==
  {request[t][n][o].id : n \in Rechecks, o \in Ops} \ {None, lastId[t]}

\* Mutant: attempt_count is not incremented.
SameCount(w) == Req(w).count

\* attempt_count + 1; it saturates at MaxPollAttempts, being only ever compared with it.
NextCount(w) == IF Req(w).count < MaxPollAttempts THEN Req(w).count + 1 ELSE MaxPollAttempts

\* VerifyEtRequestHistoryDao.markSent, skipped for a request that already succeeded.
\* completed_at is reset: the request is no longer the transaction's latest completed one.
MarkSent(w) ==
  LET t == job[w].t
      c == NextCount(w) IN
  /\ At(w, "reserved")
  /\ \/ job[w].saw = "SUCCEEDED" /\ Goto(w, "sent") /\ UNCHANGED <<dbVars, envVars, job>>
     \/ job[w].saw # "SUCCEEDED" /\ Req(w).status = "SUCCEEDED" /\ Throw(w)
     \/ /\ job[w].saw # "SUCCEEDED" /\ Req(w).status # "SUCCEEDED"
        /\ request' = [request EXCEPT ![t][job[w].n][job[w].op] =
                         [@ EXCEPT !.status = "SENT", !.count = c]]
        /\ \E i \in Ids \cup {None} :
             /\ IF Req(w).id # None /\ Req(w).id = lastId[t] /\ CompletedIds(t) # {}
                THEN i \in CompletedIds(t) ELSE i = lastId[t]
             /\ lastId' = [lastId EXCEPT ![t] = i]
        /\ job' = [job EXCEPT ![w].count = c]
        /\ Goto(w, "sent")
        /\ UNCHANGED <<txStatus, attempt, recheck, charges, credits, confirmed, credited,
                       alerts, envVars>>

\* The provider answers (external).  A submission's id is a function of its idempotency
\* key; a poll answers the polled id or a fresh one.
AnswerIds(w) ==
  LET own == <<job[w].t, job[w].n, job[w].op>> IN
  IF job[w].op = "SUBMIT" THEN {own}
  ELSE {IF p = "same" THEN job[w].polled ELSE own : p \in PollIds}

ProviderAnswers(w, ans) ==
  /\ At(w, "sent")
  /\ \E i \in AnswerIds(w) : job' = [job EXCEPT ![w].ans = ans, ![w].id = i]
  /\ Goto(w, "answered")
  /\ UNCHANGED <<dbVars, envVars>>

\* VerifyEtRequestHistoryDao.complete.  On a success the stored id may not change, and
\* no other request may carry it (uq_verifyet_provider_request_id).  A failure is
\* retried while the polling policy allows it.
SaveResponse(w) ==
  LET t == job[w].t
      n == job[w].n
      o == job[w].op
      ok == job[w].ans \in Outcomes
      idOk == /\ Req(w).id \in {None, job[w].id}
              /\ \A u \in Txns, m \in Rechecks, p \in Ops :
                   request[u][m][p].id = job[w].id => <<u, m, p>> = <<t, n, o>>
      id == IF ok THEN job[w].id ELSE Req(w).id IN
  /\ At(w, "answered")
  /\ \/ ok /\ ~idOk /\ Throw(w)
     \/ /\ ok => idOk
        /\ request' = [request EXCEPT ![t][n][o] =
                         [@ EXCEPT !.status = IF ok THEN "SUCCEEDED" ELSE "FAILED", !.id = id]]
        /\ lastId' = [lastId EXCEPT ![t] = IF id = None THEN @ ELSE id]
        /\ Goto(w, IF ok THEN "persist"
                   ELSE IF job[w].ans = "RETRY" /\ job[w].count < MaxPollAttempts
                   THEN "deferring" ELSE "alerting")
        /\ UNCHANGED <<txStatus, attempt, recheck, charges, credits, confirmed, credited, alerts,
                       envVars, job>>

\* persistOutcome: record or post, whoever owns the claim by now.
Persist(w) ==
  LET t == job[w].t
      n == job[w].n IN
  /\ At(w, "persist")
  /\ \/ ~OutcomeAccepted(t, n, job[w].ans, job[w].id) /\ Throw(w)
     \/ /\ OutcomeAccepted(t, n, job[w].ans, job[w].id)
        /\ RecordOutcome(t, n, job[w].ans, job[w].id)
        /\ Goto(w, "recorded")
        /\ UNCHANGED <<envVars, job>>

\* An update of the claim through mutateOwnedClaim; a lost claim throws.
Release(w, status) ==
  \/ ~Owns(w) /\ Throw(w)
  \/ /\ Owns(w)
     /\ recheck' = [recheck EXCEPT ![job[w].t][job[w].n] =
                      [@ EXCEPT !.status = status, !.token = None, !.lease = "none"]]
     /\ Goto(w, "idle")
     /\ job' = [job EXCEPT ![w] = None]
     /\ UNCHANGED <<txStatus, attempt, request, lastId, charges, credits, confirmed, credited,
                    alerts, envVars>>

CompleteClaim(w) == At(w, "recorded") /\ Release(w, "COMPLETED")
DeferClaim(w)    == At(w, "deferring") /\ Release(w, "SCHEDULED")
PauseClaim(w)    == At(w, "pausing") /\ Release(w, job[w].hold)

\* Mutant: only errors the provider calls final raise an alert.
RaiseAlertOfFinalErrors(w) ==
  /\ At(w, "alerting")
  /\ alerts' = IF job[w].ans = "STOP" THEN alerts \cup {<<job[w].t, job[w].n, job[w].op>>} ELSE alerts
  /\ Goto(w, "pausing")
  /\ UNCHANGED <<txStatus, attempt, recheck, request, lastId, charges, credits, confirmed,
                 credited, envVars, job>>

\* VerifyEtOperationalAlertDao.create: idempotent per provider request.
RaiseAlert(w) ==
  /\ At(w, "alerting")
  /\ alerts' = alerts \cup {<<job[w].t, job[w].n, job[w].op>>}
  /\ Goto(w, "pausing")
  /\ UNCHANGED <<txStatus, attempt, recheck, request, lastId, charges, credits, confirmed,
                 credited, envVars, job>>

\* VerifyEtWorkerRunner.tick catches what processNext threw and ends the tick.
TickFails(w) ==
  /\ At(w, "threw")
  /\ Goto(w, "idle")
  /\ job' = [job EXCEPT ![w] = None]
  /\ UNCHANGED <<dbVars, envVars>>

\* The process dies between two awaited calls and is started again.
Crash(w) ==
  /\ pc[w] \notin {"idle", "threw"} /\ budget.crashes > 0
  /\ budget' = [budget EXCEPT !.crashes = @ - 1]
  /\ Goto(w, "idle")
  /\ job' = [job EXCEPT ![w] = None]
  /\ UNCHANGED <<dbVars, branch, uploads>>

\* claim_expires_at passes.  A lease is meant to outlast its worker's calls; one that
\* lapses under a worker still at work uses up the stalls bound.
AtWork(t, n) == \E w \in Workers : /\ pc[w] \notin {"idle", "threw"}
                                   /\ job[w].t = t /\ job[w].n = n
                                   /\ recheck[t][n].token = w

LeaseExpires(t, n) ==
  /\ recheck[t][n].status = "CLAIMED" /\ recheck[t][n].lease = "live"
  /\ AtWork(t, n) => budget.stalls > 0
  /\ recheck' = [recheck EXCEPT ![t][n] = [@ EXCEPT !.lease = "lapsed"]]
  /\ budget' = [budget EXCEPT !.stalls = IF AtWork(t, n) THEN @ - 1 ELSE @]
  /\ UNCHANGED <<txStatus, attempt, request, lastId, charges, credits, confirmed, credited,
                 alerts, branch, uploads, pc, job>>

-----------------------------------------------------------------------------
WorkerStep(w) ==
  \/ Lookup(w) \/ Resolve(w) \/ Bind(w) \/ ReadWorkItem(w) \/ Reserve(w) \/ MarkSent(w)
  \/ \E a \in Answers : ProviderAnswers(w, a)
  \/ SaveResponse(w) \/ Persist(w) \/ CompleteClaim(w) \/ DeferClaim(w) \/ PauseClaim(w)
  \/ RaiseAlert(w) \/ TickFails(w)

Next ==
  \/ \E t \in Txns : \/ Submit(t) \/ UploadLookup(t) \/ UploadPrepare(t)
                     \/ \E a \in Outcomes : InitialOutcome(t, a)
                     \/ \E n \in Rechecks : LeaseExpires(t, n)
  \/ GrantCredit \/ ToggleBranch
  \/ \E w \in Workers : \/ WorkerStep(w) \/ Crash(w)
                        \/ \E t \in Txns, n \in Rechecks : Claim(w, t, n)

Spec == Init /\ [][Next]_vars

(* Fairness.  Workers poll on a timer, a provider call ends by its timeout at the      *)
(* latest, and a lease lapses by the clock.  Claim is strongly fair because claimNext  *)
(* takes the oldest due row first.  Uploads, answers and the branch owe nothing.       *)
Fairness ==
  /\ \A w \in Workers : WF_vars(WorkerStep(w))
  /\ \A t \in Txns, n \in Rechecks :
       /\ SF_vars(\E w \in Workers : Claim(w, t, n))
       /\ WF_vars(~AtWork(t, n) /\ LeaseExpires(t, n))

FairSpec == Spec /\ Fairness

-----------------------------------------------------------------------------
(* Properties.                                                             *)

\* Every table and every worker holds values of its columns' domains.
TypeOK ==
  /\ txStatus \in [Txns -> TxStatuses]
  /\ attempt \in [Txns -> [AttemptNos -> AttemptRows]]
  /\ recheck \in [Txns -> [Rechecks -> RecheckRows]]
  /\ request \in [Txns -> [Rechecks -> [Ops -> RequestRows]]]
  /\ lastId \in [Txns -> Ids \cup {None}]
  /\ charges \in [Txns -> Nat] /\ credits \in Nat /\ branch \in {"ACTIVE", "INACTIVE"}
  /\ confirmed \subseteq Txns /\ credited \in [Txns -> Nat]
  /\ alerts \subseteq Txns \X Rechecks \X Ops
  /\ uploads \in [Txns -> Nat]
  /\ pc \in [Workers -> Places]
  /\ job \in [Workers -> Jobs \cup {None}]
  /\ \A w \in Workers : pc[w] # "idle" => job[w] \in Jobs
  /\ budget \in [toggles : Nat, crashes : Nat, stalls : Nat]

\* However workers and uploads interleave, a transaction never has two attempts waiting
\* for a provider outcome: finalizeWithin and post never race over one payment.
OneOpenAttempt ==
  \A t \in Txns, m, n \in AttemptNos :
    attempt[t][m].result = "QUEUED" /\ attempt[t][n].result = "QUEUED" => m = n

\* Outcome and next schedule commit together: a recheck row exists exactly when the
\* attempt before it was answered PENDING, and an attempt only where its row does.
SchedulesFollowPending ==
  \A t \in Txns, n \in Rechecks :
    /\ recheck[t][n].status # "NONE" <=> attempt[t][n - 1].result = "PENDING"
    /\ attempt[t][n].result # "NONE" => recheck[t][n].status # "NONE"

\* The money: a transaction is VERIFIED exactly when it was confirmed and credited to the
\* ledger once, and no two confirmed transactions name the same receipt.
CreditedOnce ==
  /\ \A t \in Txns : /\ t \in confirmed <=> txStatus[t] = "VERIFIED"
                     /\ credited[t] = IF txStatus[t] = "VERIFIED" THEN 1 ELSE 0
  /\ \A t, u \in confirmed : ReceiptOf[t] = ReceiptOf[u] => t = u

\* One credit pays for the INITIAL attempt and for all its rechecks, however many uploads
\* race: an attempt exists exactly when the transaction was charged, once.
ChargedOnce ==
  \A t \in Txns : /\ charges[t] = IF attempt[t][0].result = "NONE" THEN 0 ELSE 1
                  /\ \A n \in Rechecks : attempt[t][n].result # "NONE" => charges[t] = 1

\* A PENDING transaction is never orphaned: the recheck that will decide it is on the
\* table, not yet attempted and not completed.
PendingHasRecheck ==
  \A t \in Txns : txStatus[t] = "PENDING" =>
    \E n \in Rechecks : /\ recheck[t][n].status \notin {"NONE", "COMPLETED"}
                        /\ attempt[t][n].result = "NONE"

\* The recheck is released only after its outcome committed, by whichever worker.
CompletedWasAnswered ==
  \A t \in Txns, n \in Rechecks :
    recheck[t][n].status = "COMPLETED" => attempt[t][n].result \notin {"NONE", "QUEUED"}

\* Work the provider stopped is never parked silently: the alert was committed first.
StoppedWorkAlerted ==
  \A t \in Txns, n \in Rechecks :
    recheck[t][n].status = "PAUSED_PROVIDER" => \E o \in Ops : <<t, n, o>> \in alerts

\* A worker that lost its lease, or was replaced, never changes the row it once claimed:
\* a claim ends only in a step of the worker holding its live token, about that row.
LeaseFencing ==
  [][\A t \in Txns, n \in Rechecks :
       recheck[t][n].status = "CLAIMED" /\ recheck'[t][n].status # "CLAIMED" =>
         \E w \in Workers : /\ recheck[t][n].token = w /\ recheck[t][n].lease = "live"
                            /\ pc[w] \in {"recorded", "deferring", "pausing"}
                            /\ pc'[w] = "idle"
                            /\ job[w].t = t /\ job[w].n = n]_vars

\* A provider answer is never overwritten, not even by a stale worker's second answer.
AnswersAreImmutable ==
  [][\A t \in Txns, n \in AttemptNos :
       attempt[t][n].result \notin {"NONE", "QUEUED"} => attempt'[t][n] = attempt[t][n]]_vars

\* The claim nobody can end: an upload that missed the attempt paused the transaction under it
\* (UploadPrepare), so that neither prepare(RECHECK) nor an outcome but FAILED is accepted any more.
\* docs/PHASE-3-VERIFICATIONS-VALIDATION.md:85 says "Replaying a prepared request bypasses credit
\* resolution and status mutation"; this upload does not find that it is replaying.
Stranded(t, n) == txStatus[t] = "PAUSED_BRANCH" /\ recheck[t][n].status = "CLAIMED"

\* A scheduled recheck short of the limit is answered or parked in a visible state, when no worker
\* crashes and no lease lapses under its worker, or a late upload strands it for good.
EveryRecheckSettles ==
  \A t \in Txns, n \in Rechecks :
    n < RecheckLimit =>
      (recheck[t][n].status = "SCHEDULED"
         ~> (recheck[t][n].status \in {"COMPLETED"} \cup HoldStatuses \/ []Stranded(t, n)))

\* docs/PHASE-3-VERIFICATIONS-VALIDATION.md:150: after recheck 3 PENDING is preserved.
LimitPreservesPending ==
  [][\A w \in Workers :
       /\ pc[w] = "persist" /\ pc'[w] # "persist"
       /\ job[w].ans = "PENDING" /\ job[w].n = RecheckLimit
       => txStatus'[job[w].t] = "PENDING"]_vars

\* docs/PHASE-3-VERIFICATIONS-VALIDATION.md:250: lease expiry can safely reclaim the same
\* attempt, so an answered recheck whose claim was left behind is completed.
AnsweredRecheckIsReleased ==
  \A t \in Txns, n \in Rechecks :
    (recheck[t][n].status = "CLAIMED" /\ attempt[t][n].result \notin {"NONE", "QUEUED"})
      ~> recheck[t][n].status # "CLAIMED"

-----------------------------------------------------------------------------
(* The pipeline implements the abstract promise of payment confirmation.   *)
Confirmation ==
  INSTANCE PaymentConfirmation WITH
    outcome  <- [t \in Txns |-> IF txStatus[t] \in FinalStatuses THEN txStatus[t] ELSE "OPEN"],
    credited <- credited

ConfirmationSpec == Confirmation!Spec
=============================================================================
