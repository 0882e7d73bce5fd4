--------------------- MODULE VerificationPipelineProofs ---------------------
(***************************************************************************)
(* What TLAPS proves of VerificationPipeline for every number of           *)
(* transactions, workers, receipts, rechecks, uploads, crashes and stalls. *)
(* The safety properties follow from one inductive invariant. Every step   *)
(* of Next has one of four effects on the payment tables (StepEffects), so *)
(* the invariant is checked against four cases and not against the twenty- *)
(* two actions.                                                            *)
(***************************************************************************)
EXTENDS VerificationPipeline, TLAPS

-----------------------------------------------------------------------------
(* Facts about the operators the actions are built from.                   *)

\* The state machine lets nothing leave a final status, nor a transaction that is new.
LEMMA FinalStays ==
  ASSUME NEW t \in Txns, NEW s, CanMove(t, s)
  PROVE  txStatus[t] \notin FinalStatuses \cup {"NEW"} /\ s \in TxStatuses \ {"NEW"}
BY DEF CanMove, Moves, TxStatuses, FinalStatuses

\* post and record decide a status, and VERIFIED only for a receipt nobody else spent.
LEMMA DecisionIsAnOutcome ==
  ASSUME NEW t \in Txns, NEW ans \in Answers \cup {None}, CanMove(t, Decision(t, ans))
  PROVE  /\ Decision(t, ans) \in {"PENDING"} \cup FinalStatuses
         /\ Decision(t, ans) = "PENDING" <=> ans = "PENDING"
         /\ Decision(t, ans) = "VERIFIED" =>
              \A u \in confirmed \ {t} : ReceiptOf[u] # ReceiptOf[t]
         /\ Decision(t, ans) = "DUPLICATE" =>
              \E u \in confirmed \ {t} : ReceiptOf[u] = ReceiptOf[t]
BY NoneAssumption DEF Decision, CanMove, Moves, Answers, Outcomes, Errors, FinalStatuses, TxStatuses

\* The provider request of a worker's own attempt has an id.
LEMMA OwnId ==
  ASSUME NEW t \in Txns, NEW n \in AttemptNos, NEW o \in Ops
  PROVE  <<t, n, o>> \in Ids
BY DEF Ids

LEMMA RechecksAreAttempts == Rechecks \subseteq AttemptNos /\ 0 \in AttemptNos
BY LimitAssumption DEF Rechecks, AttemptNos

\* The rows that stand for nothing yet are well typed.
LEMMA EmptyRows ==
  NoRow \in RecheckRows /\ NoRequest \in RequestRows /\ NoAttempt \in AttemptRows
BY LimitAssumption DEF RecheckRows, RequestRows, AttemptRows, Leases, NoRow, NoRequest, NoAttempt, RowStatuses, ReqStatuses, Results

\* Updates of single fields keep the rows well typed.
LEMMA RecheckUpdates ==
  ASSUME NEW r \in RecheckRows
  PROVE  /\ [r EXCEPT !.lease = "lapsed"] \in RecheckRows
         /\ \A n \in AttemptNos : [r EXCEPT !.bound = n] \in RecheckRows
         /\ \A w \in Workers, s \in RowStatuses, l \in Leases :
              [r EXCEPT !.status = s, !.token = w, !.lease = l] \in RecheckRows
         /\ \A s \in RowStatuses, l \in Leases :
              [r EXCEPT !.status = s, !.token = None, !.lease = l] \in RecheckRows
         /\ [NoRow EXCEPT !.status = "SCHEDULED"] \in RecheckRows
BY EmptyRows DEF RecheckRows, Leases, RowStatuses

LEMMA RequestUpdates ==
  ASSUME NEW r \in RequestRows
  PROVE  /\ \A c \in 0 .. MaxPollAttempts : [r EXCEPT !.status = "SENT", !.count = c] \in RequestRows
         /\ \A i \in Ids \cup {None}, s \in ReqStatuses : [r EXCEPT !.status = s, !.id = i] \in RequestRows
         /\ \A i \in Ids \cup {None} :
              [NoRequest EXCEPT !.status = "RESERVED", !.polled = i] \in RequestRows
BY EmptyRows DEF RequestRows, ReqStatuses

LEMMA JobUpdates ==
  ASSUME NEW j \in Jobs
  PROVE  /\ \A h \in HoldStatuses : [j EXCEPT !.hold = h] \in Jobs
         /\ \A i \in Ids \cup {None}, o \in Ops : [j EXCEPT !.polled = i, !.op = o] \in Jobs
         /\ \A x \in ReqStatuses, c \in 0 .. MaxPollAttempts : [j EXCEPT !.saw = x, !.count = c] \in Jobs
         /\ \A c \in 0 .. MaxPollAttempts : [j EXCEPT !.count = c] \in Jobs
         /\ \A a \in Answers, i \in Ids \cup {None} : [j EXCEPT !.ans = a, !.id = i] \in Jobs
BY DEF Jobs

Budgets == [toggles : Nat, crashes : Nat, stalls : Nat]

LEMMA BudgetUpdates ==
  ASSUME NEW b \in Budgets
  PROVE  /\ b.toggles > 0 => [b EXCEPT !.toggles = @ - 1] \in Budgets
         /\ b.crashes > 0 => [b EXCEPT !.crashes = @ - 1] \in Budgets
         /\ b.stalls > 0 => [b EXCEPT !.stalls = @ - 1] \in Budgets
         /\ [b EXCEPT !.stalls = b.stalls] \in Budgets
BY DEF Budgets

LEMMA ChargeType ==
  ASSUME NEW t \in Txns, charges \in [Txns -> Nat], credits \in Nat
  PROVE  /\ Charge(t) \in [Txns -> Nat]
         /\ Eligible(t) => (IF charges[t] = 0 THEN credits - 1 ELSE credits) \in Nat
BY DEF Charge, Eligible

-----------------------------------------------------------------------------
(* Type correctness.                                                       *)

LEMMA TypeInit == Init => TypeOK
BY EmptyRows, BoundAssumption DEF Init, TypeOK, TxStatuses, Places

LEMMA ReserveType ==
  ASSUME TypeOK, NEW t \in Txns, NEW n \in AttemptNos, ReserveAttempt(t, n)
  PROVE  /\ txStatus' \in [Txns -> TxStatuses]
         /\ attempt' \in [Txns -> [AttemptNos -> AttemptRows]]
<1>1. [result |-> "QUEUED", id |-> None] \in AttemptRows /\ "PROCESSING" \in TxStatuses
  BY DEF AttemptRows, Results, TxStatuses
<1> QED
  BY <1>1 DEF ReserveAttempt, TypeOK

LEMMA RecordType ==
  ASSUME TypeOK, NEW t \in Txns, NEW n \in AttemptNos, NEW ans \in Answers \cup {None},
         NEW i \in Ids \cup {None}, OutcomeAccepted(t, n, ans, i), RecordOutcome(t, n, ans, i)
  PROVE  /\ txStatus' \in [Txns -> TxStatuses]
         /\ attempt' \in [Txns -> [AttemptNos -> AttemptRows]]
         /\ recheck' \in [Txns -> [Rechecks -> RecheckRows]]
         /\ confirmed' \subseteq Txns
         /\ credited' \in [Txns -> Nat]
<1> DEFINE d == Decision(t, ans)
<1>1. d \in {"PENDING"} \cup FinalStatuses
  BY DecisionIsAnOutcome DEF OutcomeAccepted
<1>2. d \in TxStatuses /\ [result |-> d, id |-> i] \in AttemptRows
  BY <1>1 DEF TxStatuses, AttemptRows, Results, FinalStatuses
<1>3. [NoRow EXCEPT !.status = "SCHEDULED"] \in RecheckRows
  BY RecheckUpdates, EmptyRows
<1> HIDE DEF d
<1>4. txStatus' \in [Txns -> TxStatuses]
  BY <1>2 DEF RecordOutcome, TypeOK, d
<1>5. attempt' \in [Txns -> [AttemptNos -> AttemptRows]]
  BY <1>2 DEF RecordOutcome, Finalized, TypeOK, d
<1>6. recheck' \in [Txns -> [Rechecks -> RecheckRows]]
  BY <1>3 DEF RecordOutcome, NextSchedule, TypeOK
<1> QED
  BY <1>4, <1>5, <1>6 DEF RecordOutcome, LedgerEntries, TypeOK

\* A worker that is not idle has a job, and its columns have their domains.
LEMMA JobFacts ==
  ASSUME TypeOK, NEW w \in Workers, pc[w] # "idle"
  PROVE  /\ job[w] \in Jobs /\ job[w].t \in Txns /\ job[w].n \in Rechecks
         /\ job[w].n \in AttemptNos /\ job[w].op \in Ops /\ job[w].saw \in ReqStatuses
         /\ job[w].count \in 0 .. MaxPollAttempts /\ job[w].ans \in Answers \cup {None}
         /\ job[w].id \in Ids \cup {None} /\ job[w].polled \in Ids \cup {None}
         /\ job[w].hold \in HoldStatuses
         /\ Row(w) \in RecheckRows /\ Req(w) \in RequestRows
<1>1. job[w] \in Jobs
  BY DEF TypeOK
<1>2. /\ job[w].t \in Txns /\ job[w].n \in Rechecks /\ job[w].op \in Ops
      /\ job[w].count \in 0 .. MaxPollAttempts /\ job[w].ans \in Answers \cup {None}
      /\ job[w].id \in Ids \cup {None} /\ job[w].polled \in Ids \cup {None}
      /\ job[w].hold \in HoldStatuses /\ job[w].saw \in ReqStatuses
  BY <1>1 DEF Jobs
<1> QED
  BY <1>1, <1>2, RechecksAreAttempts DEF Row, Req, TypeOK

WorkersOK ==
  /\ pc \in [Workers -> Places]
  /\ job \in [Workers -> Jobs \cup {None}]
  /\ \A w \in Workers : pc[w] # "idle" => job[w] \in Jobs

\* A step of one worker keeps the workers well typed.
LEMMA WorkerMoves ==
  ASSUME TypeOK, NEW w \in Workers, NEW q \in Places, Goto(w, q),
         \/ UNCHANGED job /\ pc[w] # "idle"
         \/ \E k \in Jobs \cup {None} : job' = [job EXCEPT ![w] = k] /\ (q # "idle" => k \in Jobs)
  PROVE  WorkersOK'
<1>1. job[w] \in Jobs \/ pc[w] = "idle"
  BY JobFacts
<1>2. pc' \in [Workers -> Places] /\ job' \in [Workers -> Jobs \cup {None}]
  BY DEF Goto, TypeOK
<1>3. pc' = [pc EXCEPT ![w] = q]
  BY DEF Goto
<1>4. q # "idle" => job'[w] \in Jobs
  BY <1>1 DEF TypeOK
<1>5. ASSUME NEW v \in Workers, pc'[v] # "idle" PROVE job'[v] \in Jobs
  <2>1. CASE v = w
    BY <1>3, <1>4, <1>5, <2>1 DEF TypeOK
  <2>2. CASE v # w
    BY <1>3, <1>5, <2>2 DEF TypeOK
  <2> QED
    BY <2>1, <2>2
<1> QED
  BY <1>2, <1>5 DEF WorkersOK

\* What Reserve writes into the job of its worker, as one new record.
LEMMA JobReserves ==
  ASSUME NEW w, NEW a, NEW b
  PROVE  [job EXCEPT ![w].saw = a, ![w].count = b]
           = [job EXCEPT ![w] = [job[w] EXCEPT !.saw = a, !.count = b]]
OBVIOUS

\* The request row that Reserve leaves: a new one, or the one that is there.
ReservedRow(w) ==
  IF Req(w).status = "NONE"
  THEN [NoRequest EXCEPT !.status = "RESERVED", !.polled = job[w].polled]
  ELSE Req(w)

LEMMA ReserveWrites ==
  ASSUME NEW w, Reserve(w), ~Throw(w)
  PROVE  /\ request' = [request EXCEPT ![job[w].t][job[w].n][job[w].op] = ReservedRow(w)]
         /\ job' = [job EXCEPT ![w] = [job[w] EXCEPT !.saw = ReservedRow(w).status,
                                                    !.count = ReservedRow(w).count]]
         /\ Goto(w, "reserved")
         /\ UNCHANGED <<txStatus, attempt, recheck, lastId, charges, credits, confirmed, credited,
                        alerts, envVars>>
<1>1. /\ request' = [request EXCEPT ![job[w].t][job[w].n][job[w].op] = ReservedRow(w)]
      /\ job' = [job EXCEPT ![w].saw = ReservedRow(w).status, ![w].count = ReservedRow(w).count]
      /\ Goto(w, "reserved")
      /\ UNCHANGED <<txStatus, attempt, recheck, lastId, charges, credits, confirmed, credited,
                     alerts, envVars>>
  BY DEF Reserve, ReservedRow
<1> QED
  BY <1>1, JobReserves

LEMMA WorkerThrows ==
  ASSUME TypeOK, NEW w \in Workers, pc[w] # "idle", Throw(w)
  PROVE  TypeOK'
<1>1. "threw" \in Places
  BY DEF Places
<1>2. WorkersOK'
  BY <1>1, WorkerMoves DEF Throw
<1> QED
  BY <1>2 DEF Throw, dbVars, envVars, TypeOK, WorkersOK

\* Writing a well-typed row of the worker's job keeps the table well typed.
LEMMA RowWritten ==
  ASSUME TypeOK, NEW w \in Workers, pc[w] # "idle", NEW r \in RecheckRows,
         recheck' = [recheck EXCEPT ![job[w].t][job[w].n] = r]
  PROVE  recheck' \in [Txns -> [Rechecks -> RecheckRows]]
BY JobFacts DEF TypeOK

LEMMA RequestWritten ==
  ASSUME TypeOK, NEW w \in Workers, pc[w] # "idle", NEW r \in RequestRows,
         request' = [request EXCEPT ![job[w].t][job[w].n][job[w].op] = r]
  PROVE  request' \in [Txns -> [Rechecks -> [Ops -> RequestRows]]]
BY JobFacts DEF TypeOK

LEMMA ReleaseType ==
  ASSUME TypeOK, NEW w \in Workers, pc[w] # "idle", NEW s \in RowStatuses, Release(w, s)
  PROVE  TypeOK'
<1>1. CASE Throw(w)
  BY <1>1, WorkerThrows
<1>2. CASE ~Throw(w)
  <2>1. [Row(w) EXCEPT !.status = s, !.token = None, !.lease = "none"] \in RecheckRows
    BY JobFacts, RecheckUpdates DEF Leases
  <2>2. recheck' \in [Txns -> [Rechecks -> RecheckRows]]
    BY <1>2, <2>1, RowWritten DEF Release, Row
  <2>3. WorkersOK'
    BY <1>2, WorkerMoves DEF Release, Places
  <2> QED
    BY <1>2, <2>2, <2>3 DEF Release, TypeOK, WorkersOK, envVars
<1> QED
  BY <1>1, <1>2

LEMMA TypeStep == TypeOK /\ [Next]_vars => TypeOK'
<1> SUFFICES ASSUME TypeOK, [Next]_vars PROVE TypeOK'
  OBVIOUS
<1>1. ASSUME NEW t \in Txns, Submit(t) PROVE TypeOK'
  BY <1>1 DEF Submit, envVars, TxStatuses, TypeOK
<1>2. ASSUME NEW t \in Txns, UploadLookup(t) PROVE TypeOK'
  BY <1>2 DEF UploadLookup, dbVars, TypeOK
<1>3. ASSUME NEW t \in Txns, UploadPrepare(t) PROVE TypeOK'
  <2>1. txStatus' \in [Txns -> TxStatuses]
    BY <1>3, ReserveType, RechecksAreAttempts DEF UploadPrepare, TxStatuses, TypeOK
  <2>2. attempt' \in [Txns -> [AttemptNos -> AttemptRows]]
    BY <1>3, ReserveType, RechecksAreAttempts DEF UploadPrepare, TypeOK
  <2>3. charges' \in [Txns -> Nat] /\ credits' \in Nat
    BY <1>3, ChargeType DEF UploadPrepare, TypeOK
  <2>4. uploads' \in [Txns -> Nat]
    BY <1>3 DEF UploadPrepare, TypeOK
  <2> QED
    BY <1>3, <2>1, <2>2, <2>3, <2>4 DEF UploadPrepare, TypeOK
<1>4. ASSUME NEW t \in Txns, NEW a \in Outcomes, InitialOutcome(t, a) PROVE TypeOK'
  <2>1. <<t, 0, "SUBMIT">> \in Ids /\ 0 \in AttemptNos
    BY OwnId, RechecksAreAttempts DEF Ops
  <2>2. /\ OutcomeAccepted(t, 0, a, <<t, 0, "SUBMIT">>)
        /\ RecordOutcome(t, 0, a, <<t, 0, "SUBMIT">>)
        /\ UNCHANGED <<envVars, pc, job>>
    BY <1>4 DEF InitialOutcome
  <2>3. /\ txStatus' \in [Txns -> TxStatuses]
        /\ attempt' \in [Txns -> [AttemptNos -> AttemptRows]]
        /\ recheck' \in [Txns -> [Rechecks -> RecheckRows]]
        /\ confirmed' \subseteq Txns
        /\ credited' \in [Txns -> Nat]
    BY <2>1, <2>2, RecordType DEF Answers
  <2> QED
    BY <2>2, <2>3 DEF RecordOutcome, envVars, TypeOK
<1>5. ASSUME NEW t \in Txns, NEW n \in Rechecks, LeaseExpires(t, n) PROVE TypeOK'
  <2>1. recheck[t][n] \in RecheckRows /\ budget \in Budgets
    BY DEF TypeOK, Budgets
  <2>2. [recheck[t][n] EXCEPT !.lease = "lapsed"] \in RecheckRows
    BY <2>1, RecheckUpdates
  <2>3. recheck' \in [Txns -> [Rechecks -> RecheckRows]]
    BY <1>5, <2>2 DEF LeaseExpires, TypeOK
  <2>4. budget' \in Budgets
    BY <1>5, <2>1, BudgetUpdates DEF LeaseExpires
  <2> QED
    BY <1>5, <2>3, <2>4 DEF LeaseExpires, TypeOK, Budgets
<1>6. CASE GrantCredit
  BY <1>6 DEF GrantCredit, envVars, TypeOK
<1>7. CASE ToggleBranch
  <2>1. budget' \in Budgets
    BY <1>7, BudgetUpdates DEF ToggleBranch, TypeOK, Budgets
  <2> QED
    BY <1>7, <2>1 DEF ToggleBranch, dbVars, TypeOK, Budgets
<1>8. ASSUME NEW w \in Workers, NEW t \in Txns, NEW n \in Rechecks, Claim(w, t, n) PROVE TypeOK'
  <2>1. recheck[t][n] \in RecheckRows
    BY DEF TypeOK
  <2>2. [recheck[t][n] EXCEPT !.status = "CLAIMED", !.token = w, !.lease = "live"] \in RecheckRows
    BY <2>1, RecheckUpdates DEF RowStatuses, Leases
  <2>3. recheck' \in [Txns -> [Rechecks -> RecheckRows]]
    BY <1>8, <2>2 DEF Claim, TypeOK
  <2>4. [t |-> t, n |-> n, op |-> "SUBMIT", polled |-> None, saw |-> "NONE", count |-> 0,
         ans |-> None, id |-> None, hold |-> "PAUSED_PROVIDER"] \in Jobs
    BY LimitAssumption DEF Jobs, Ops, ReqStatuses, HoldStatuses
  <2>5. /\ pc' \in [Workers -> Places]
        /\ job' \in [Workers -> Jobs \cup {None}]
        /\ \A v \in Workers : pc'[v] # "idle" => job'[v] \in Jobs
    BY <1>8, <2>4 DEF Claim, Goto, TypeOK, Places
  <2> QED
    BY <1>8, <2>3, <2>5 DEF Claim, envVars, TypeOK
<1>9. ASSUME NEW w \in Workers, Lookup(w) PROVE TypeOK'
  <2>1. WorkersOK'
    BY <1>9, WorkerMoves DEF Lookup, At, Places
  <2> QED
    BY <1>9, <2>1 DEF Lookup, dbVars, envVars, TypeOK, WorkersOK
<1>10. ASSUME NEW w \in Workers, Resolve(w) PROVE TypeOK'
  <2>1. pc[w] # "idle"
    BY <1>10 DEF Resolve, At
  <2>2. \A h \in HoldStatuses : [job[w] EXCEPT !.hold = h] \in Jobs
    BY <2>1, JobFacts, JobUpdates
  <2>3. WorkersOK'
    BY <1>10, <2>1, <2>2, WorkerMoves DEF Resolve, Places, HoldStatuses
  <2>4. /\ txStatus' \in [Txns -> TxStatuses]
        /\ attempt' \in [Txns -> [AttemptNos -> AttemptRows]]
    BY <1>10, <2>1, JobFacts, ReserveType DEF Resolve, TypeOK, TxStatuses
  <2> QED
    BY <1>10, <2>3, <2>4 DEF Resolve, envVars, TypeOK, WorkersOK
<1>11. ASSUME NEW w \in Workers, Bind(w) PROVE TypeOK'
  <2>1. pc[w] # "idle"
    BY <1>11 DEF Bind, At
  <2>2. CASE Throw(w)
    BY <2>1, <2>2, WorkerThrows
  <2>3. CASE ~Throw(w)
    <3>1. [Row(w) EXCEPT !.bound = job[w].n] \in RecheckRows
      BY <2>1, JobFacts, RecheckUpdates
    <3>2. recheck' \in [Txns -> [Rechecks -> RecheckRows]]
      BY <1>11, <2>1, <2>3, <3>1, RowWritten DEF Bind, Row
    <3>3. WorkersOK'
      BY <1>11, <2>1, <2>3, WorkerMoves DEF Bind, Places
    <3> QED
      BY <1>11, <2>3, <3>2, <3>3 DEF Bind, envVars, TypeOK, WorkersOK
  <2> QED
    BY <2>2, <2>3
<1>12. ASSUME NEW w \in Workers, ReadWorkItem(w) PROVE TypeOK'
  <2>1. pc[w] # "idle"
    BY <1>12 DEF ReadWorkItem, At
  <2>2. lastId[job[w].t] \in Ids \cup {None}
    BY <2>1, JobFacts DEF TypeOK
  <2>3. \A o \in Ops : [job[w] EXCEPT !.polled = lastId[job[w].t], !.op = o] \in Jobs
    BY <2>1, <2>2, JobFacts, JobUpdates
  <2>4. WorkersOK'
    BY <1>12, <2>3, WorkerMoves DEF ReadWorkItem, Places, Ops
  <2> QED
    BY <1>12, <2>4 DEF ReadWorkItem, dbVars, envVars, TypeOK, WorkersOK
<1>13. ASSUME NEW w \in Workers, Reserve(w) PROVE TypeOK'
  <2>1. pc[w] # "idle"
    BY <1>13 DEF Reserve, At
  <2>2. CASE Throw(w)
    BY <2>1, <2>2, WorkerThrows
  <2>3. CASE ~Throw(w)
    <3> DEFINE row == ReservedRow(w)
    <3>1. row \in RequestRows
      BY <2>1, JobFacts, RequestUpdates DEF ReservedRow
    <3>2. row.status \in ReqStatuses /\ row.count \in 0 .. MaxPollAttempts
      BY <3>1 DEF RequestRows
    <3>3. [job[w] EXCEPT !.saw = row.status, !.count = row.count] \in Jobs
      BY <2>1, <3>2, JobFacts, JobUpdates
    <3>4. /\ request' = [request EXCEPT ![job[w].t][job[w].n][job[w].op] = row]
          /\ job' = [job EXCEPT ![w] = [job[w] EXCEPT !.saw = row.status, !.count = row.count]]
          /\ Goto(w, "reserved")
          /\ UNCHANGED <<txStatus, attempt, recheck, lastId, charges, credits, confirmed, credited,
                         alerts, envVars>>
      BY <1>13, <2>3, ReserveWrites
    <3> HIDE DEF row
    <3>5. request' \in [Txns -> [Rechecks -> [Ops -> RequestRows]]]
      BY <2>1, <3>1, <3>4, RequestWritten
    <3>6. WorkersOK'
      BY <3>3, <3>4, WorkerMoves DEF Places
    <3> QED
      BY <3>4, <3>5, <3>6 DEF envVars, TypeOK, WorkersOK
  <2> QED
    BY <2>2, <2>3
<1>14. ASSUME NEW w \in Workers, MarkSent(w) PROVE TypeOK'
  <2>1. pc[w] # "idle"
    BY <1>14 DEF MarkSent, At
  <2>2. CASE Throw(w)
    BY <2>1, <2>2, WorkerThrows
  <2>3. CASE Goto(w, "sent") /\ UNCHANGED <<dbVars, envVars, job>>
    <3>1. WorkersOK'
      BY <2>1, <2>3, WorkerMoves DEF Places
    <3> QED
      BY <2>3, <3>1 DEF dbVars, envVars, TypeOK, WorkersOK
  <2>4. CASE ~Throw(w) /\ ~(Goto(w, "sent") /\ UNCHANGED <<dbVars, envVars, job>>)
    <3> DEFINE row == [Req(w) EXCEPT !.status = "SENT", !.count = NextCount(w)]
    <3>1. NextCount(w) \in 0 .. MaxPollAttempts
      BY <2>1, JobFacts, LimitAssumption DEF NextCount, RequestRows
    <3>2. row \in RequestRows /\ [job[w] EXCEPT !.count = NextCount(w)] \in Jobs
      BY <2>1, <3>1, JobFacts, JobUpdates, RequestUpdates
    <3>3. /\ request' = [request EXCEPT ![job[w].t][job[w].n][job[w].op] = row]
          /\ \E i \in Ids \cup {None} : lastId' = [lastId EXCEPT ![job[w].t] = i]
          /\ job' = [job EXCEPT ![w] = [job[w] EXCEPT !.count = NextCount(w)]]
          /\ Goto(w, "sent")
          /\ UNCHANGED <<txStatus, attempt, recheck, charges, credits, confirmed, credited,
                         alerts, envVars>>
      BY <1>14, <2>4 DEF MarkSent, Req
    <3> HIDE DEF row
    <3>4. request' \in [Txns -> [Rechecks -> [Ops -> RequestRows]]]
      BY <2>1, <3>2, <3>3, RequestWritten
    <3>5. lastId' \in [Txns -> Ids \cup {None}]
      BY <3>3 DEF TypeOK
    <3>6. WorkersOK'
      BY <3>2, <3>3, WorkerMoves DEF Places
    <3> QED
      BY <3>3, <3>4, <3>5, <3>6 DEF envVars, TypeOK, WorkersOK
  <2> QED
    BY <2>2, <2>3, <2>4
<1>15. ASSUME NEW w \in Workers, NEW a \in Answers, ProviderAnswers(w, a) PROVE TypeOK'
  <2>1. pc[w] # "idle"
    BY <1>15 DEF ProviderAnswers, At
  <2>2. AnswerIds(w) \subseteq Ids \cup {None}
    BY <2>1, JobFacts, OwnId DEF AnswerIds
  <2>3. \A i \in AnswerIds(w) : [job[w] EXCEPT !.ans = a, !.id = i] \in Jobs
    BY <2>1, <2>2, JobFacts, JobUpdates
  <2>4. WorkersOK'
    BY <1>15, <2>3, WorkerMoves DEF ProviderAnswers, Places
  <2> QED
    BY <1>15, <2>4 DEF ProviderAnswers, dbVars, envVars, TypeOK, WorkersOK
<1>16. ASSUME NEW w \in Workers, SaveResponse(w) PROVE TypeOK'
  <2>1. pc[w] # "idle"
    BY <1>16 DEF SaveResponse, At
  <2>2. CASE Throw(w)
    BY <2>1, <2>2, WorkerThrows
  <2>3. CASE ~Throw(w)
    <3> DEFINE ok  == job[w].ans \in Outcomes
               id  == IF ok THEN job[w].id ELSE Req(w).id
               row == [Req(w) EXCEPT !.status = IF ok THEN "SUCCEEDED" ELSE "FAILED", !.id = id]
               q   == IF ok THEN "persist"
                      ELSE IF job[w].ans = "RETRY" /\ job[w].count < MaxPollAttempts
                      THEN "deferring" ELSE "alerting"
    <3>1. id \in Ids \cup {None}
      BY <2>1, JobFacts DEF RequestRows
    <3>2. row \in RequestRows
      BY <2>1, <3>1, JobFacts, RequestUpdates DEF ReqStatuses
    <3>3. /\ request' = [request EXCEPT ![job[w].t][job[w].n][job[w].op] = row]
          /\ lastId' = [lastId EXCEPT ![job[w].t] = IF id = None THEN @ ELSE id]
          /\ Goto(w, q)
          /\ UNCHANGED <<txStatus, attempt, recheck, charges, credits, confirmed, credited, alerts,
                         envVars, job>>
      BY <1>16, <2>3 DEF SaveResponse, Req
    <3>4. q \in Places
      BY DEF Places
    <3> HIDE DEF row, id, q
    <3>5. request' \in [Txns -> [Rechecks -> [Ops -> RequestRows]]]
      BY <2>1, <3>2, <3>3, RequestWritten
    <3>6. lastId' \in [Txns -> Ids \cup {None}]
      BY <3>1, <3>3 DEF TypeOK
    <3>7. WorkersOK'
      BY <2>1, <3>3, <3>4, WorkerMoves
    <3> QED
      BY <3>3, <3>5, <3>6, <3>7 DEF envVars, TypeOK, WorkersOK
  <2> QED
    BY <2>2, <2>3
<1>17. ASSUME NEW w \in Workers, Persist(w) PROVE TypeOK'
  <2>1. pc[w] # "idle"
    BY <1>17 DEF Persist, At
  <2>2. CASE Throw(w)
    BY <2>1, <2>2, WorkerThrows
  <2>3. CASE ~Throw(w)
    <3>1. /\ OutcomeAccepted(job[w].t, job[w].n, job[w].ans, job[w].id)
          /\ RecordOutcome(job[w].t, job[w].n, job[w].ans, job[w].id)
          /\ Goto(w, "recorded") /\ UNCHANGED <<envVars, job>>
      BY <1>17, <2>3 DEF Persist
    <3>2. /\ txStatus' \in [Txns -> TxStatuses]
          /\ attempt' \in [Txns -> [AttemptNos -> AttemptRows]]
          /\ recheck' \in [Txns -> [Rechecks -> RecheckRows]]
          /\ confirmed' \subseteq Txns
          /\ credited' \in [Txns -> Nat]
      BY <2>1, <3>1, JobFacts, RecordType
    <3>3. WorkersOK'
      BY <2>1, <3>1, WorkerMoves DEF Places
    <3> QED
      BY <3>1, <3>2, <3>3 DEF RecordOutcome, envVars, TypeOK, WorkersOK
  <2> QED
    BY <2>2, <2>3
<1>18. ASSUME NEW w \in Workers, CompleteClaim(w) \/ DeferClaim(w) \/ PauseClaim(w) PROVE TypeOK'
  <2>1. pc[w] # "idle"
    BY <1>18 DEF CompleteClaim, DeferClaim, PauseClaim, At
  <2>2. \E s \in RowStatuses : Release(w, s)
    BY <1>18, <2>1, JobFacts DEF CompleteClaim, DeferClaim, PauseClaim, RowStatuses
  <2> QED
    BY <2>1, <2>2, ReleaseType
<1>19. ASSUME NEW w \in Workers, RaiseAlert(w) PROVE TypeOK'
  <2>1. pc[w] # "idle"
    BY <1>19 DEF RaiseAlert, At
  <2>2. alerts' \subseteq Txns \X Rechecks \X Ops
    BY <1>19, <2>1, JobFacts DEF RaiseAlert, TypeOK
  <2>3. WorkersOK'
    BY <1>19, <2>1, WorkerMoves DEF RaiseAlert, Places
  <2> QED
    BY <1>19, <2>2, <2>3 DEF RaiseAlert, envVars, TypeOK, WorkersOK
<1>20. ASSUME NEW w \in Workers, TickFails(w) PROVE TypeOK'
  <2>1. WorkersOK'
    BY <1>20, WorkerMoves DEF TickFails, Places
  <2> QED
    BY <1>20, <2>1 DEF TickFails, dbVars, envVars, TypeOK, WorkersOK
<1>21. ASSUME NEW w \in Workers, Crash(w) PROVE TypeOK'
  <2>1. WorkersOK'
    BY <1>21, WorkerMoves DEF Crash, Places
  <2>2. budget' \in Budgets
    BY <1>21, BudgetUpdates DEF Crash, TypeOK, Budgets
  <2> QED
    BY <1>21, <2>1, <2>2 DEF Crash, dbVars, TypeOK, WorkersOK, Budgets
<1>22. CASE UNCHANGED vars
  BY <1>22 DEF vars, dbVars, envVars, TypeOK
<1> QED
  BY <1>1, <1>2, <1>3, <1>4, <1>5, <1>6, <1>7, <1>8, <1>9, <1>10, <1>11, <1>12, <1>13, <1>14, <1>15,
     <1>16, <1>17, <1>18, <1>19, <1>20, <1>21, <1>22 DEF Next, WorkerStep

\* Every table and every worker keeps to the domains of its columns, whatever the bounds.
THEOREM PipelineTypeCorrect == Spec => []TypeOK
BY TypeInit, TypeStep, PTL DEF Spec

-----------------------------------------------------------------------------
(* The inductive invariant.                                                *)

Answered(t, n) == attempt[t][n].result \notin {"NONE", "QUEUED"}

\* Only the last attempt of a transaction may be anything but PENDING.
AttemptChain ==
  \A t \in Txns, m, n \in AttemptNos :
    m < n /\ attempt[t][n].result # "NONE" => attempt[t][m].result = "PENDING"

\* A recheck row stands on pending attempts only.
RowChain ==
  \A t \in Txns, n \in Rechecks, m \in AttemptNos :
    m < n /\ recheck[t][n].status # "NONE" => attempt[t][m].result = "PENDING"

\* What a worker knows of the tables at each place of processNext.
JobInv ==
  \A w \in Workers : pc[w] # "idle" =>
    /\ Row(w).status # "NONE"
    /\ pc[w] = "recorded" => Answered(job[w].t, job[w].n)
    /\ pc[w] = "pausing" /\ job[w].hold = "PAUSED_PROVIDER" =>
         \E o \in Ops : <<job[w].t, job[w].n, o>> \in alerts

IInv ==
  /\ TypeOK /\ AttemptChain /\ RowChain /\ JobInv
  /\ SchedulesFollowPending /\ ChargedOnce /\ CreditedOnce
  /\ PendingHasRecheck /\ CompletedWasAnswered /\ StoppedWorkAlerted

-----------------------------------------------------------------------------
(* The four effects.                                                       *)

ReserveEffect(t, n) ==
  /\ attempt[t][n].result = "NONE" /\ (n # 0 => recheck[t][n].status # "NONE")
  /\ attempt' = [attempt EXCEPT ![t][n] = [result |-> "QUEUED", id |-> None]]
  /\ txStatus[t] \notin FinalStatuses
  /\ txStatus' = [txStatus EXCEPT ![t] = "PROCESSING"]
  /\ charges' = IF n = 0 THEN Charge(t) ELSE charges
  /\ UNCHANGED <<recheck, confirmed, credited, alerts>>

OutcomeEffect(t, n, ans, i) == OutcomeAccepted(t, n, ans, i) /\ RecordOutcome(t, n, ans, i)

RowEffect(t, n, r) ==
  /\ recheck[t][n].status # "NONE" /\ r.status # "NONE"
  /\ r.status = "COMPLETED" => recheck[t][n].status = "COMPLETED" \/ Answered(t, n)
  /\ r.status = "PAUSED_PROVIDER" =>
       recheck[t][n].status = "PAUSED_PROVIDER" \/ \E o \in Ops : <<t, n, o>> \in alerts
  /\ recheck' = [recheck EXCEPT ![t][n] = r]
  /\ UNCHANGED <<txStatus, attempt, charges, confirmed, credited, alerts>>

QuietEffect ==
  /\ UNCHANGED <<attempt, recheck, charges, confirmed, credited>>
  /\ alerts \subseteq alerts'
  /\ \A t \in Txns : \/ txStatus'[t] = txStatus[t]
                     \/ /\ txStatus[t] \notin FinalStatuses
                        /\ txStatus'[t] \notin FinalStatuses \cup {"PENDING"}

Effects ==
  \/ \E t \in Txns, n \in AttemptNos : ReserveEffect(t, n)
  \/ \E t \in Txns, n \in AttemptNos, a \in Answers \cup {None}, i \in Ids \cup {None} :
       OutcomeEffect(t, n, a, i)
  \/ \E t \in Txns, n \in Rechecks, r \in RecheckRows : RowEffect(t, n, r)
  \/ QuietEffect

\* A reservation is a ReserveEffect, or the replay of one.
LEMMA ReserveAttemptEffect ==
  ASSUME TypeOK, NEW t \in Txns, NEW n \in AttemptNos, ReserveAttempt(t, n),
         attempt[t][n].result # "NONE"
  PROVE  attempt' = attempt /\ txStatus' = txStatus
BY DEF ReserveAttempt, TypeOK

LEMMA ReleaseEffect ==
  ASSUME IInv, NEW w \in Workers, pc[w] # "idle", NEW s \in RowStatuses \ {"NONE"}, Release(w, s),
         s = "COMPLETED" => Answered(job[w].t, job[w].n),
         s = "PAUSED_PROVIDER" => \E o \in Ops : <<job[w].t, job[w].n, o>> \in alerts
  PROVE  Effects
<1>1. CASE Throw(w)
  BY <1>1 DEF Throw, dbVars, Effects, QuietEffect
<1>2. CASE ~Throw(w)
  <2> DEFINE r == [Row(w) EXCEPT !.status = s, !.token = None, !.lease = "none"]
  <2>1. job[w].t \in Txns /\ job[w].n \in Rechecks /\ Row(w) \in RecheckRows
    BY JobFacts DEF IInv
  <2>2. r \in RecheckRows /\ r.status = s
    <3>1. r \in RecheckRows
      BY <2>1, RecheckUpdates DEF Leases
    <3>2. r.status = s
      BY <2>1 DEF RecheckRows
    <3> QED
      BY <3>1, <3>2
  <2>3. recheck' = [recheck EXCEPT ![job[w].t][job[w].n] = r]
        /\ UNCHANGED <<txStatus, attempt, charges, confirmed, credited, alerts>>
    BY <1>2 DEF Release, Row
  <2>4. recheck[job[w].t][job[w].n].status # "NONE"
    BY DEF IInv, JobInv, Row
  <2> HIDE DEF r
  <2>5. RowEffect(job[w].t, job[w].n, r)
    BY <2>2, <2>3, <2>4 DEF RowEffect
  <2> QED
    BY <2>1, <2>2, <2>5 DEF Effects
<1> QED
  BY <1>1, <1>2

LEMMA StepEffects == IInv /\ [Next]_vars => Effects
<1> SUFFICES ASSUME IInv, [Next]_vars PROVE Effects
  OBVIOUS
<1> TypeOK
  BY DEF IInv
<1>1. ASSUME NEW t \in Txns, Submit(t) PROVE Effects
  <2>1. QuietEffect
    BY <1>1 DEF Submit, QuietEffect, FinalStatuses, TypeOK
  <2> QED
    BY <2>1 DEF Effects
<1>2. ASSUME NEW t \in Txns, UploadLookup(t) PROVE Effects
  BY <1>2 DEF UploadLookup, dbVars, QuietEffect, Effects
<1>3. ASSUME NEW t \in Txns, UploadPrepare(t) PROVE Effects
  <2>1. CASE branch # "ACTIVE"
    <3>1. QuietEffect
      BY <1>3, <2>1, FinalStays DEF UploadPrepare, QuietEffect, FinalStatuses, TypeOK
    <3> QED
      BY <3>1 DEF Effects
  <2>2. CASE UNCHANGED <<txStatus, attempt, charges>>
    BY <1>3, <2>2 DEF UploadPrepare, QuietEffect, Effects
  <2>3. CASE /\ txStatus[t] \in {"PROCESSING", "WAITING_CREDITS", "PAUSED_BRANCH"}
             /\ txStatus' = [txStatus EXCEPT ![t] = "WAITING_CREDITS"]
             /\ UNCHANGED <<attempt, charges>>
    <3>1. QuietEffect
      BY <1>3, <2>3 DEF UploadPrepare, QuietEffect, FinalStatuses, TypeOK
    <3> QED
      BY <3>1 DEF Effects
  <2>4. CASE /\ txStatus[t] \in {"PROCESSING", "WAITING_CREDITS", "PAUSED_BRANCH"}
             /\ Eligible(t) /\ charges' = Charge(t) /\ ReserveAttempt(t, 0)
    <3>1. 0 \in AttemptNos
      BY RechecksAreAttempts
    <3>2. CASE attempt[t][0].result = "NONE"
      <4>1. ReserveEffect(t, 0)
        BY <1>3, <2>4, <3>2 DEF ReserveEffect, ReserveAttempt, UploadPrepare, FinalStatuses
      <4> QED
        BY <3>1, <4>1 DEF Effects
    <3>3. CASE attempt[t][0].result # "NONE"
      <4>1. charges[t] = 1
        BY <3>3 DEF IInv, ChargedOnce
      <4>2. UNCHANGED <<attempt, txStatus, charges>>
        BY <2>4, <3>1, <3>3, <4>1, ReserveAttemptEffect DEF Charge, TypeOK
      <4> QED
        BY <1>3, <4>2 DEF UploadPrepare, QuietEffect, Effects
    <3> QED
      BY <3>2, <3>3
  <2> QED
    BY <1>3, <2>1, <2>2, <2>3, <2>4 DEF UploadPrepare
<1>4. ASSUME NEW t \in Txns, NEW a \in Outcomes, InitialOutcome(t, a) PROVE Effects
  <2>1. <<t, 0, "SUBMIT">> \in Ids /\ 0 \in AttemptNos
    BY OwnId, RechecksAreAttempts DEF Ops
  <2>2. OutcomeEffect(t, 0, a, <<t, 0, "SUBMIT">>)
    BY <1>4 DEF InitialOutcome, OutcomeEffect
  <2>3. a \in Answers
    BY DEF Answers
  <2> QED
    BY <2>1, <2>2, <2>3 DEF Effects
<1>5. ASSUME NEW t \in Txns, NEW n \in Rechecks, LeaseExpires(t, n) PROVE Effects
  <2> DEFINE r == [recheck[t][n] EXCEPT !.lease = "lapsed"]
  <2>1. recheck[t][n] \in RecheckRows
    BY DEF TypeOK
  <2>2. r \in RecheckRows /\ r.status = recheck[t][n].status
    <3>1. r \in RecheckRows
      BY <2>1, RecheckUpdates
    <3>2. r.status = recheck[t][n].status
      BY <2>1 DEF RecheckRows
    <3> QED
      BY <3>1, <3>2
  <2>3. recheck' = [recheck EXCEPT ![t][n] = r] /\ recheck[t][n].status = "CLAIMED"
        /\ UNCHANGED <<txStatus, attempt, charges, confirmed, credited, alerts>>
    BY <1>5 DEF LeaseExpires
  <2> HIDE DEF r
  <2>4. RowEffect(t, n, r)
    BY <2>2, <2>3 DEF RowEffect
  <2> QED
    BY <2>2, <2>4 DEF Effects
<1>6. CASE GrantCredit \/ ToggleBranch
  BY <1>6 DEF GrantCredit, ToggleBranch, dbVars, QuietEffect, Effects
<1>7. ASSUME NEW w \in Workers, NEW t \in Txns, NEW n \in Rechecks, Claim(w, t, n) PROVE Effects
  <2> DEFINE r == [recheck[t][n] EXCEPT !.status = "CLAIMED", !.token = w, !.lease = "live"]
  <2>1. recheck[t][n] \in RecheckRows
    BY DEF TypeOK
  <2>2. r \in RecheckRows /\ r.status = "CLAIMED"
    <3>1. r \in RecheckRows
      BY <2>1, RecheckUpdates DEF RowStatuses, Leases
    <3>2. r.status = "CLAIMED"
      BY <2>1 DEF RecheckRows
    <3> QED
      BY <3>1, <3>2
  <2>3. recheck' = [recheck EXCEPT ![t][n] = r] /\ recheck[t][n].status # "NONE"
        /\ UNCHANGED <<txStatus, attempt, charges, confirmed, credited, alerts>>
    BY <1>7 DEF Claim, envVars
  <2> HIDE DEF r
  <2>4. RowEffect(t, n, r)
    BY <2>2, <2>3 DEF RowEffect
  <2> QED
    BY <2>2, <2>4 DEF Effects
<1>8. ASSUME NEW w \in Workers, \/ Lookup(w) \/ ReadWorkItem(w) \/ Reserve(w) \/ MarkSent(w)
                                \/ SaveResponse(w) \/ TickFails(w) \/ Crash(w)
                                \/ \E a \in Answers : ProviderAnswers(w, a)
      PROVE  Effects
  BY <1>8 DEF Lookup, ReadWorkItem, Reserve, MarkSent, SaveResponse, TickFails, Crash, ProviderAnswers,
              Throw, dbVars, QuietEffect, Effects
<1>9. ASSUME NEW w \in Workers, Resolve(w) PROVE Effects
  <2> DEFINE t == job[w].t
             n == job[w].n
  <2>1. t \in Txns /\ n \in Rechecks /\ n \in AttemptNos /\ n # 0 /\ recheck[t][n].status # "NONE"
    BY <1>9, JobFacts DEF Resolve, At, Row, Rechecks, IInv, JobInv
  <2>2. CASE UNCHANGED <<txStatus, attempt>>
    BY <1>9, <2>2 DEF Resolve, QuietEffect, Effects
  <2>3. CASE /\ txStatus[t] = "PAUSED_BRANCH" \/ CanMove(t, "PAUSED_BRANCH")
             /\ txStatus' = [txStatus EXCEPT ![t] = "PAUSED_BRANCH"] /\ UNCHANGED attempt
    <3>1. QuietEffect
      BY <1>9, <2>1, <2>3, FinalStays DEF Resolve, QuietEffect, FinalStatuses, TypeOK
    <3> QED
      BY <3>1 DEF Effects
  <2>4. CASE txStatus[t] = "PENDING" /\ ReserveAttempt(t, n)
    <3>1. CASE attempt[t][n].result = "NONE"
      <4>1. ReserveEffect(t, n)
        BY <1>9, <2>1, <2>4, <3>1 DEF ReserveEffect, ReserveAttempt, Resolve, FinalStatuses
      <4> QED
        BY <2>1, <4>1 DEF Effects
    <3>2. CASE attempt[t][n].result # "NONE"
      <4>1. UNCHANGED <<attempt, txStatus>>
        BY <2>1, <2>4, <3>2, ReserveAttemptEffect
      <4> QED
        BY <2>2, <4>1
    <3> QED
      BY <3>1, <3>2
  <2> QED
    BY <1>9, <2>2, <2>3, <2>4 DEF Resolve
<1>10. ASSUME NEW w \in Workers, Bind(w) PROVE Effects
  <2>1. pc[w] # "idle"
    BY <1>10 DEF Bind, At
  <2>2. CASE Throw(w)
    BY <2>2 DEF Throw, dbVars, QuietEffect, Effects
  <2>3. CASE ~Throw(w)
    <3> DEFINE r == [Row(w) EXCEPT !.bound = job[w].n]
    <3>1. job[w].t \in Txns /\ job[w].n \in Rechecks /\ Row(w) \in RecheckRows /\ job[w].n \in AttemptNos
      BY <2>1, JobFacts
    <3>2. r \in RecheckRows /\ r.status = Row(w).status
      BY <3>1, RecheckUpdates DEF RecheckRows
    <3>3. /\ recheck' = [recheck EXCEPT ![job[w].t][job[w].n] = r] /\ Row(w).status = "CLAIMED"
          /\ UNCHANGED <<txStatus, attempt, charges, confirmed, credited, alerts>>
      BY <1>10, <2>3 DEF Bind, Row, Owns
    <3> HIDE DEF r
    <3>4. RowEffect(job[w].t, job[w].n, r)
      BY <3>2, <3>3 DEF RowEffect, Row
    <3> QED
      BY <3>1, <3>2, <3>4 DEF Effects
  <2> QED
    BY <2>2, <2>3
<1>11. ASSUME NEW w \in Workers, Persist(w) PROVE Effects
  <2>1. job[w].t \in Txns /\ job[w].n \in AttemptNos /\ job[w].ans \in Answers \cup {None}
        /\ job[w].id \in Ids \cup {None}
    BY <1>11, JobFacts DEF Persist, At
  <2>2. CASE Throw(w)
    BY <2>2 DEF Throw, dbVars, QuietEffect, Effects
  <2>3. CASE ~Throw(w)
    <3>1. OutcomeEffect(job[w].t, job[w].n, job[w].ans, job[w].id)
      BY <1>11, <2>3 DEF Persist, OutcomeEffect
    <3> QED
      BY <2>1, <3>1 DEF Effects
  <2> QED
    BY <2>2, <2>3
<1>12. ASSUME NEW w \in Workers, CompleteClaim(w) PROVE Effects
  <2>1. pc[w] # "idle" /\ Answered(job[w].t, job[w].n)
    BY <1>12 DEF CompleteClaim, At, IInv, JobInv
  <2> QED
    BY <1>12, <2>1, ReleaseEffect DEF CompleteClaim, RowStatuses
<1>13. ASSUME NEW w \in Workers, DeferClaim(w) PROVE Effects
  BY <1>13, ReleaseEffect DEF DeferClaim, At, RowStatuses
<1>14. ASSUME NEW w \in Workers, PauseClaim(w) PROVE Effects
  <2>1. pc[w] = "pausing" /\ job[w].hold \in HoldStatuses
    BY <1>14, JobFacts DEF PauseClaim, At
  <2>2. job[w].hold \in RowStatuses \ {"NONE"} /\ job[w].hold # "COMPLETED"
    BY <2>1 DEF HoldStatuses, RowStatuses
  <2>3. job[w].hold = "PAUSED_PROVIDER" => \E o \in Ops : <<job[w].t, job[w].n, o>> \in alerts
    BY <2>1 DEF IInv, JobInv
  <2> QED
    BY <1>14, <2>1, <2>2, <2>3, ReleaseEffect DEF PauseClaim
<1>15. ASSUME NEW w \in Workers, RaiseAlert(w) PROVE Effects
  BY <1>15 DEF RaiseAlert, QuietEffect, Effects
<1>16. CASE UNCHANGED vars
  BY <1>16 DEF vars, dbVars, QuietEffect, Effects
<1> QED
  BY <1>1, <1>2, <1>3, <1>4, <1>5, <1>6, <1>7, <1>8, <1>9, <1>10, <1>11, <1>12, <1>13, <1>14, <1>15,
     <1>16 DEF Next, WorkerStep

-----------------------------------------------------------------------------
(* Each effect preserves the invariant's parts about the tables.           *)

Tables ==
  /\ AttemptChain /\ RowChain /\ SchedulesFollowPending /\ ChargedOnce /\ CreditedOnce
  /\ PendingHasRecheck /\ CompletedWasAnswered /\ StoppedWorkAlerted

\* Rows, answers and alerts are only ever added.
Monotone ==
  /\ \A t \in Txns, n \in Rechecks : recheck[t][n].status # "NONE" => recheck'[t][n].status # "NONE"
  /\ \A t \in Txns, n \in AttemptNos : Answered(t, n) => attempt'[t][n] = attempt[t][n]
  /\ alerts \subseteq alerts'

LEMMA QuietPreserves ==
  ASSUME IInv, QuietEffect PROVE Tables' /\ Monotone
<1>1. /\ AttemptChain' /\ RowChain' /\ SchedulesFollowPending' /\ ChargedOnce'
      /\ CompletedWasAnswered' /\ Monotone
  BY DEF IInv, QuietEffect, AttemptChain, RowChain, SchedulesFollowPending, ChargedOnce,
         CompletedWasAnswered, Monotone
<1>2. StoppedWorkAlerted'
  BY DEF IInv, QuietEffect, StoppedWorkAlerted
<1>3. CreditedOnce'
  BY DEF IInv, QuietEffect, CreditedOnce, FinalStatuses
<1>4. PendingHasRecheck'
  BY DEF IInv, QuietEffect, PendingHasRecheck
<1> QED
  BY <1>1, <1>2, <1>3, <1>4 DEF Tables

LEMMA RowPreserves ==
  ASSUME IInv, NEW t \in Txns, NEW n \in Rechecks, NEW r \in RecheckRows, RowEffect(t, n, r)
  PROVE  Tables' /\ Monotone
<1>1. \A u \in Txns, m \in Rechecks :
        recheck'[u][m] = IF u = t /\ m = n THEN r ELSE recheck[u][m]
  BY DEF RowEffect, IInv, TypeOK
<1>2. \A u \in Txns, m \in Rechecks : recheck'[u][m].status = "NONE" <=> recheck[u][m].status = "NONE"
  BY <1>1 DEF RowEffect
<1>3. AttemptChain' /\ RowChain' /\ SchedulesFollowPending'
  BY <1>2 DEF RowEffect, IInv, AttemptChain, RowChain, SchedulesFollowPending
<1>4. ChargedOnce' /\ CreditedOnce'
  BY DEF RowEffect, IInv, ChargedOnce, CreditedOnce
<1>5. CompletedWasAnswered'
  BY <1>1 DEF RowEffect, IInv, CompletedWasAnswered, Answered
<1>6. StoppedWorkAlerted'
  BY <1>1 DEF RowEffect, IInv, StoppedWorkAlerted
<1>7. PendingHasRecheck'
  <2> SUFFICES ASSUME NEW u \in Txns, txStatus[u] = "PENDING"
               PROVE  \E m \in Rechecks : /\ recheck'[u][m].status \notin {"NONE", "COMPLETED"}
                                         /\ attempt[u][m].result = "NONE"
    BY DEF RowEffect, PendingHasRecheck
  <2>1. PICK m \in Rechecks : /\ recheck[u][m].status \notin {"NONE", "COMPLETED"}
                              /\ attempt[u][m].result = "NONE"
    BY DEF IInv, PendingHasRecheck
  <2>2. recheck'[u][m].status \notin {"NONE", "COMPLETED"}
    BY <1>1, <2>1 DEF RowEffect, Answered
  <2> QED
    BY <2>1, <2>2
<1>8. Monotone
  BY <1>2 DEF RowEffect, Monotone
<1> QED
  BY <1>3, <1>4, <1>5, <1>6, <1>7, <1>8 DEF Tables

LEMMA ReservePreserves ==
  ASSUME IInv, NEW t \in Txns, NEW n \in AttemptNos, ReserveEffect(t, n)
  PROVE  Tables' /\ Monotone
<1>1. \A u \in Txns, m \in AttemptNos :
        attempt'[u][m].result = IF u = t /\ m = n THEN "QUEUED" ELSE attempt[u][m].result
  BY DEF ReserveEffect, IInv, TypeOK
<1>2. \A u \in Txns, m \in AttemptNos : u # t \/ m # n => attempt'[u][m] = attempt[u][m]
  BY DEF ReserveEffect, IInv, TypeOK
<1>3. \A u \in Txns : txStatus'[u] = IF u = t THEN "PROCESSING" ELSE txStatus[u]
  BY DEF ReserveEffect, IInv, TypeOK
<1>4. n # 0 => n \in Rechecks
  BY LimitAssumption DEF AttemptNos, Rechecks
<1>5. AttemptChain'
  <2> SUFFICES ASSUME NEW u \in Txns, NEW k \in AttemptNos, NEW m \in AttemptNos,
                      k < m, attempt'[u][m].result # "NONE"
               PROVE  attempt'[u][k].result = "PENDING"
    BY DEF AttemptChain
  <2>1. CASE u = t /\ m = n
    <3>1. m # 0 /\ recheck[t][n].status # "NONE"
      BY <2>1 DEF ReserveEffect, AttemptNos
    <3>2. attempt[t][k].result = "PENDING"
      BY <1>4, <2>1, <3>1 DEF IInv, RowChain
    <3> QED
      BY <1>1, <2>1, <3>2, LimitAssumption DEF AttemptNos
  <2>2. CASE ~(u = t /\ m = n)
    <3>1. attempt[u][k].result = "PENDING"
      BY <1>1, <2>2 DEF IInv, AttemptChain
    <3> QED
      BY <1>1, <3>1 DEF ReserveEffect
  <2> QED
    BY <2>1, <2>2
<1>6. RowChain'
  BY <1>1 DEF ReserveEffect, IInv, RowChain
<1>7. SchedulesFollowPending'
  <2>1. \A m \in Rechecks : m - 1 \in AttemptNos /\ m \in AttemptNos
    BY LimitAssumption DEF Rechecks, AttemptNos
  <2>2. \A u \in Txns, m \in AttemptNos :
          attempt'[u][m].result = "PENDING" <=> attempt[u][m].result = "PENDING"
    BY <1>1 DEF ReserveEffect
  <2>3. \A m \in Rechecks : m = n => n # 0
    BY LimitAssumption DEF Rechecks
  <2> QED
    BY <1>1, <2>1, <2>2, <2>3 DEF ReserveEffect, IInv, SchedulesFollowPending
<1>8. ChargedOnce'
  <2>1. CASE n = 0
    <3>1. \A u \in Txns : charges'[u] = IF u = t /\ charges[u] = 0 THEN 1 ELSE charges[u]
      BY <2>1 DEF ReserveEffect, Charge, IInv, TypeOK
    <3>2. \A m \in Rechecks : m \in AttemptNos /\ m # 0
      BY LimitAssumption DEF Rechecks, AttemptNos
    <3> QED
      BY <1>1, <2>1, <3>1, <3>2, RechecksAreAttempts DEF ReserveEffect, IInv, ChargedOnce
  <2>2. CASE n # 0
    <3>1. attempt[t][0].result = "PENDING"
      BY <1>4, <2>2, RechecksAreAttempts DEF ReserveEffect, IInv, RowChain, AttemptNos
    <3>2. charges[t] = 1
      BY <3>1 DEF IInv, ChargedOnce
    <3> QED
      BY <1>1, <2>2, <3>1, <3>2, RechecksAreAttempts DEF ReserveEffect, IInv, ChargedOnce
  <2> QED
    BY <2>1, <2>2
<1>9. CreditedOnce'
  BY <1>3 DEF ReserveEffect, IInv, CreditedOnce, FinalStatuses
<1>10. PendingHasRecheck'
  BY <1>1, <1>3, RechecksAreAttempts DEF ReserveEffect, IInv, PendingHasRecheck
<1>11. CompletedWasAnswered' /\ StoppedWorkAlerted'
  BY <1>1, RechecksAreAttempts DEF ReserveEffect, IInv, CompletedWasAnswered, StoppedWorkAlerted
<1>12. Monotone
  BY <1>2 DEF ReserveEffect, Monotone, Answered
<1> QED
  BY <1>5, <1>6, <1>7, <1>8, <1>9, <1>10, <1>11, <1>12 DEF Tables

LEMMA OutcomePreserves ==
  ASSUME IInv, NEW t \in Txns, NEW n \in AttemptNos, NEW ans \in Answers \cup {None},
         NEW i \in Ids \cup {None}, OutcomeEffect(t, n, ans, i)
  PROVE  Tables' /\ Monotone
<1> DEFINE d == Decision(t, ans)
<1>1. /\ d \in {"PENDING"} \cup FinalStatuses
      /\ d = "PENDING" => ans = "PENDING"
      /\ d = "VERIFIED" => \A u \in confirmed \ {t} : ReceiptOf[u] # ReceiptOf[t]
      /\ txStatus[t] \notin FinalStatuses
      /\ attempt[t][n].result = "QUEUED"
  BY DecisionIsAnOutcome, FinalStays DEF OutcomeEffect, OutcomeAccepted
<1>2. /\ attempt' = [attempt EXCEPT ![t][n] = [result |-> d, id |-> i]]
      /\ txStatus' = [txStatus EXCEPT ![t] = d]
      /\ d # "PENDING" => recheck' = recheck
      /\ d = "PENDING" =>
           /\ n < RecheckLimit /\ n + 1 \in Rechecks /\ recheck[t][n + 1].status = "NONE"
           /\ recheck' = [recheck EXCEPT ![t][n + 1] = [NoRow EXCEPT !.status = "SCHEDULED"]]
      /\ confirmed' = IF d = "VERIFIED" THEN confirmed \cup {t} ELSE confirmed
      /\ credited' = [credited EXCEPT ![t] = IF d = "VERIFIED" THEN @ + 1 ELSE @]
      /\ UNCHANGED <<charges, alerts>>
  BY <1>1, LimitAssumption DEF OutcomeEffect, OutcomeAccepted, MaySchedule, RecordOutcome, Finalized,
     NextSchedule, LedgerEntries, Rechecks, AttemptNos
<1> HIDE DEF d
<1>3. \A u \in Txns, m \in AttemptNos :
        attempt'[u][m].result = IF u = t /\ m = n THEN d ELSE attempt[u][m].result
  BY <1>2 DEF IInv, TypeOK
<1>4. \A u \in Txns, m \in AttemptNos : u # t \/ m # n => attempt'[u][m] = attempt[u][m]
  BY <1>2 DEF IInv, TypeOK
<1>5. \A u \in Txns : txStatus'[u] = IF u = t THEN d ELSE txStatus[u]
  BY <1>2 DEF IInv, TypeOK
<1>6. \A u \in Txns, m \in Rechecks :
        recheck'[u][m].status = IF u = t /\ m = n + 1 /\ d = "PENDING" THEN "SCHEDULED"
                                ELSE recheck[u][m].status
  BY <1>2 DEF IInv, TypeOK, NoRow
<1>7. \A u \in Txns, m \in Rechecks : recheck[u][m].status # "NONE" => recheck'[u][m].status # "NONE"
  BY <1>6
\* n is the last attempt: a later one would stand on a pending answer of n.
<1>8. /\ \A m \in AttemptNos : n < m => attempt[t][m].result = "NONE"
      /\ \A m \in Rechecks : n < m => recheck[t][m].status = "NONE"
  BY <1>1, RechecksAreAttempts DEF IInv, AttemptChain, RowChain
<1>9. \A m \in AttemptNos : m < n => attempt[t][m].result = "PENDING"
  BY <1>1 DEF IInv, AttemptChain
<1>10. AttemptChain'
  <2> SUFFICES ASSUME NEW u \in Txns, NEW k \in AttemptNos, NEW m \in AttemptNos,
                      k < m, attempt'[u][m].result # "NONE"
               PROVE  attempt'[u][k].result = "PENDING"
    BY DEF AttemptChain
  <2>1. attempt[u][m].result # "NONE"
    BY <1>1, <1>3
  <2>2. attempt[u][k].result = "PENDING"
    BY <2>1 DEF IInv, AttemptChain
  <2> QED
    BY <1>1, <1>3, <2>2
<1>11. RowChain'
  <2> SUFFICES ASSUME NEW u \in Txns, NEW k \in AttemptNos, NEW m \in Rechecks,
                      k < m, recheck'[u][m].status # "NONE"
               PROVE  attempt'[u][k].result = "PENDING"
    BY DEF RowChain
  <2>1. CASE u = t /\ m = n + 1 /\ d = "PENDING"
    <3>1. k < n \/ k = n
      BY <2>1, LimitAssumption DEF AttemptNos
    <3> QED
      BY <1>3, <1>9, <2>1, <3>1
  <2>2. CASE ~(u = t /\ m = n + 1 /\ d = "PENDING")
    <3>1. attempt[u][k].result = "PENDING"
      BY <1>6, <2>2 DEF IInv, RowChain
    <3> QED
      BY <1>1, <1>3, <3>1
  <2> QED
    BY <2>1, <2>2
<1>12. SchedulesFollowPending'
  <2> SUFFICES ASSUME NEW u \in Txns, NEW m \in Rechecks
               PROVE  /\ recheck'[u][m].status # "NONE" <=> attempt'[u][m - 1].result = "PENDING"
                      /\ attempt'[u][m].result # "NONE" => recheck'[u][m].status # "NONE"
    BY DEF SchedulesFollowPending
  <2>1. m - 1 \in AttemptNos /\ m \in AttemptNos /\ (m - 1 = n <=> m = n + 1)
    BY LimitAssumption DEF Rechecks, AttemptNos
  <2>2. attempt'[u][m].result # "NONE" => recheck'[u][m].status # "NONE"
    BY <1>1, <1>3, <1>7, <2>1 DEF IInv, SchedulesFollowPending
  <2>3. CASE u = t /\ m = n + 1
    BY <1>1, <1>3, <1>6, <1>8, <2>1, <2>2, <2>3, LimitAssumption DEF Rechecks, AttemptNos
  <2>4. CASE ~(u = t /\ m = n + 1)
    BY <1>3, <1>6, <2>1, <2>2, <2>4 DEF IInv, SchedulesFollowPending
  <2> QED
    BY <2>3, <2>4
<1>13. ChargedOnce'
  <2>1. \A u \in Txns, m \in AttemptNos :
          attempt'[u][m].result = "NONE" <=> attempt[u][m].result = "NONE"
    BY <1>1, <1>3 DEF FinalStatuses
  <2> QED
    BY <1>2, <2>1, RechecksAreAttempts DEF IInv, ChargedOnce
<1>14. CreditedOnce'
  <2>1. t \notin confirmed /\ credited[t] = 0
    BY <1>1 DEF IInv, CreditedOnce, FinalStatuses
  <2>2. \A u \in Txns : credited'[u] = IF u = t /\ d = "VERIFIED" THEN credited[u] + 1 ELSE credited[u]
    BY <1>2 DEF IInv, TypeOK
  <2>3. \A u \in Txns : /\ u \in confirmed' <=> txStatus'[u] = "VERIFIED"
                        /\ credited'[u] = IF txStatus'[u] = "VERIFIED" THEN 1 ELSE 0
    BY <1>1, <1>2, <1>5, <2>1, <2>2 DEF IInv, CreditedOnce
  <2>4. \A u, v \in confirmed' : ReceiptOf[u] = ReceiptOf[v] => u = v
    BY <1>1, <1>2 DEF IInv, CreditedOnce
  <2> QED
    BY <2>3, <2>4 DEF CreditedOnce
<1>15. PendingHasRecheck'
  <2> SUFFICES ASSUME NEW u \in Txns, txStatus'[u] = "PENDING"
               PROVE  \E m \in Rechecks : /\ recheck'[u][m].status \notin {"NONE", "COMPLETED"}
                                         /\ attempt'[u][m].result = "NONE"
    BY DEF PendingHasRecheck
  <2>1. CASE u = t
    <3>1. d = "PENDING" /\ n + 1 \in Rechecks /\ n + 1 \in AttemptNos /\ n < n + 1
      BY <1>2, <1>5, <2>1, RechecksAreAttempts, LimitAssumption DEF AttemptNos
    <3>2. recheck'[u][n + 1].status = "SCHEDULED" /\ attempt'[u][n + 1].result = "NONE"
      BY <1>3, <1>6, <1>8, <2>1, <3>1, LimitAssumption DEF AttemptNos
    <3> QED
      BY <3>1, <3>2
  <2>2. CASE u # t
    BY <1>3, <1>5, <1>6, <2>2, RechecksAreAttempts DEF IInv, PendingHasRecheck
  <2> QED
    BY <2>1, <2>2
<1>16. CompletedWasAnswered' /\ StoppedWorkAlerted'
  BY <1>1, <1>2, <1>3, <1>6, RechecksAreAttempts
  DEF IInv, CompletedWasAnswered, StoppedWorkAlerted, FinalStatuses
<1>17. Monotone
  BY <1>1, <1>2, <1>4, <1>7 DEF Monotone, Answered
<1> QED
  BY <1>10, <1>11, <1>12, <1>13, <1>14, <1>15, <1>16, <1>17 DEF Tables

LEMMA EffectsPreserve == IInv /\ [Next]_vars => Tables' /\ Monotone
BY StepEffects, QuietPreserves, RowPreserves, ReservePreserves, OutcomePreserves DEF Effects

-----------------------------------------------------------------------------
(* What the workers know stays true: the others' rows, answers and alerts  *)
(* are only added to, and the moving worker learns what it just wrote.     *)

JobKnows(w) ==
  pc[w] # "idle" =>
    /\ Row(w).status # "NONE"
    /\ pc[w] = "recorded" => Answered(job[w].t, job[w].n)
    /\ pc[w] = "pausing" /\ job[w].hold = "PAUSED_PROVIDER" =>
         \E o \in Ops : <<job[w].t, job[w].n, o>> \in alerts

LEMMA OthersKnow ==
  ASSUME IInv, Monotone, NEW v \in Workers, pc'[v] = pc[v], job'[v] = job[v]
  PROVE  JobKnows(v)'
<1> SUFFICES ASSUME pc[v] # "idle" PROVE JobKnows(v)'
  BY DEF JobKnows
<1>1. job[v].t \in Txns /\ job[v].n \in Rechecks /\ job[v].n \in AttemptNos
  BY JobFacts DEF IInv
<1>2. JobKnows(v)
  BY DEF IInv, JobInv, JobKnows
<1>3. recheck'[job[v].t][job[v].n].status # "NONE"
  BY <1>1, <1>2 DEF JobKnows, Row, Monotone
<1>4. Answered(job[v].t, job[v].n) => Answered(job[v].t, job[v].n)'
  BY <1>1 DEF Monotone, Answered
<1> QED
  BY <1>2, <1>3, <1>4 DEF JobKnows, Row, Monotone, Answered

\* A step of worker w after which w itself knows what its place says.
LEMMA WorkerKnows ==
  ASSUME IInv, Monotone, NEW w \in Workers, NEW q, NEW k, Goto(w, q),
         job' = job \/ job' = [job EXCEPT ![w] = k], JobKnows(w)'
  PROVE  JobInv'
<1> TypeOK
  BY DEF IInv
<1>1. \A v \in Workers \ {w} : pc'[v] = pc[v] /\ job'[v] = job[v]
  BY DEF Goto, TypeOK
<1>2. \A v \in Workers : JobKnows(v)'
  BY <1>1, OthersKnow
<1> QED
  BY <1>2 DEF JobInv, JobKnows

\* ... which is nothing but its row, outside the two places after a commit.
LEMMA WorkerAdvances ==
  ASSUME IInv, Monotone, NEW w \in Workers, pc[w] # "idle", NEW q, Goto(w, q),
         q \notin {"recorded", "pausing"}, NEW k,
         \/ job' = job
         \/ job' = [job EXCEPT ![w] = k] /\ (q = "idle" \/ (k.t = job[w].t /\ k.n = job[w].n))
  PROVE  JobInv'
<1> TypeOK
  BY DEF IInv
<1>1. job[w].t \in Txns /\ job[w].n \in Rechecks
  BY JobFacts
<1>2. pc'[w] = q /\ (job'[w] = job[w] \/ job'[w] = k)
  BY DEF Goto, TypeOK
<1>3. recheck'[job[w].t][job[w].n].status # "NONE"
  BY <1>1 DEF IInv, JobInv, Row, Monotone
<1>4. JobKnows(w)'
  BY <1>2, <1>3 DEF JobKnows, Row, TypeOK
<1> QED
  BY <1>4, WorkerKnows

LEMMA JobInvStep == IInv /\ [Next]_vars => JobInv'
<1> SUFFICES ASSUME IInv, [Next]_vars PROVE JobInv'
  OBVIOUS
<1> TypeOK /\ Monotone
  BY EffectsPreserve DEF IInv
<1>1. CASE UNCHANGED <<pc, job>>
  BY <1>1, OthersKnow DEF JobInv, JobKnows
<1>2. ASSUME NEW w \in Workers, pc[w] # "idle", Throw(w) PROVE JobInv'
  BY <1>2, WorkerAdvances DEF Throw
<1>3. ASSUME NEW w \in Workers, NEW t \in Txns, NEW n \in Rechecks, Claim(w, t, n) PROVE JobInv'
  <2> DEFINE k == [t |-> t, n |-> n, op |-> "SUBMIT", polled |-> None, saw |-> "NONE", count |-> 0,
                   ans |-> None, id |-> None, hold |-> "PAUSED_PROVIDER"]
  <2>1. /\ Goto(w, "claimed") /\ job' = [job EXCEPT ![w] = k]
        /\ recheck[t][n].status # "NONE"
    BY <1>3 DEF Claim
  <2>2. pc'[w] = "claimed" /\ job'[w] = k /\ k.t = t /\ k.n = n
    BY <2>1 DEF Goto, TypeOK
  <2> HIDE DEF k
  <2>3. JobKnows(w)'
    BY <2>1, <2>2 DEF JobKnows, Row, Monotone
  <2> QED
    BY <2>1, <2>3, WorkerKnows
<1>4. ASSUME NEW w \in Workers, Lookup(w) \/ Bind(w) \/ SaveResponse(w) PROVE JobInv'
  BY <1>2, <1>4, WorkerAdvances DEF Lookup, Bind, SaveResponse, At
<1>5. ASSUME NEW w \in Workers, ReadWorkItem(w) PROVE JobInv'
  <2> DEFINE i == lastId[job[w].t]
             k == [job[w] EXCEPT !.polled = i, !.op = IF i = None THEN "SUBMIT" ELSE "STATUS"]
  <2>1. pc[w] # "idle" /\ Goto(w, "read") /\ job' = [job EXCEPT ![w] = k]
    BY <1>5 DEF ReadWorkItem, At
  <2>2. k.t = job[w].t /\ k.n = job[w].n
    BY <2>1, JobFacts DEF Jobs
  <2> QED
    BY <2>1, <2>2, WorkerAdvances
<1>6. ASSUME NEW w \in Workers, Reserve(w) PROVE JobInv'
  <2>1. pc[w] # "idle"
    BY <1>6 DEF Reserve, At
  <2>2. CASE Throw(w)
    BY <1>2, <2>1, <2>2
  <2>3. CASE ~Throw(w)
    <3> DEFINE row == ReservedRow(w)
               k == [job[w] EXCEPT !.saw = row.status, !.count = row.count]
    <3>1. Goto(w, "reserved") /\ job' = [job EXCEPT ![w] = k]
      BY <1>6, <2>3, ReserveWrites
    <3>2. k.t = job[w].t /\ k.n = job[w].n
      BY <2>1, JobFacts DEF Jobs
    <3> QED
      BY <2>1, <3>1, <3>2, WorkerAdvances
  <2> QED
    BY <2>2, <2>3
<1>7. ASSUME NEW w \in Workers, MarkSent(w) PROVE JobInv'
  <2>1. pc[w] # "idle"
    BY <1>7 DEF MarkSent, At
  <2>2. CASE Throw(w)
    BY <1>2, <2>1, <2>2
  <2>3. CASE ~Throw(w)
    <3> DEFINE k == [job[w] EXCEPT !.count = NextCount(w)]
    <3>1. Goto(w, "sent") /\ (job' = job \/ job' = [job EXCEPT ![w] = k])
      BY <1>7, <2>3 DEF MarkSent
    <3>2. k.t = job[w].t /\ k.n = job[w].n
      BY <2>1, JobFacts DEF Jobs
    <3> QED
      BY <2>1, <3>1, <3>2, WorkerAdvances
  <2> QED
    BY <2>2, <2>3
<1>8. ASSUME NEW w \in Workers, NEW a \in Answers, ProviderAnswers(w, a) PROVE JobInv'
  <2>1. PICK i : /\ pc[w] # "idle" /\ Goto(w, "answered")
                 /\ job' = [job EXCEPT ![w] = [job[w] EXCEPT !.ans = a, !.id = i]]
    BY <1>8 DEF ProviderAnswers, At
  <2> DEFINE k == [job[w] EXCEPT !.ans = a, !.id = i]
  <2>2. k.t = job[w].t /\ k.n = job[w].n
    BY <2>1, JobFacts DEF Jobs
  <2> QED
    BY <2>1, <2>2, WorkerAdvances
<1>9. ASSUME NEW w \in Workers, Resolve(w) PROVE JobInv'
  <2>1. pc[w] # "idle"
    BY <1>9 DEF Resolve, At
  <2>2. CASE job' = job /\ \E q \in {"threw", "prepared"} : Goto(w, q)
    BY <2>1, <2>2, WorkerAdvances
  <2>3. ASSUME NEW h \in HoldStatuses \ {"PAUSED_PROVIDER"}, Goto(w, "pausing"),
               job' = [job EXCEPT ![w] = [job[w] EXCEPT !.hold = h]]
        PROVE  JobInv'
    <3> DEFINE k == [job[w] EXCEPT !.hold = h]
    <3>1. k.t = job[w].t /\ k.n = job[w].n /\ k.hold # "PAUSED_PROVIDER"
      BY <2>1, JobFacts DEF Jobs
    <3>2. pc'[w] = "pausing" /\ job'[w] = k
      BY <2>3 DEF Goto, TypeOK
    <3> HIDE DEF k
    <3>3. recheck'[job[w].t][job[w].n].status # "NONE"
      BY <2>1, JobFacts DEF IInv, JobInv, Row, Monotone
    <3>4. JobKnows(w)'
      BY <3>1, <3>2, <3>3 DEF JobKnows, Row
    <3> QED
      BY <2>3, <3>4, WorkerKnows
  <2> QED
    BY <1>9, <2>2, <2>3 DEF Resolve, HoldStatuses
<1>10. ASSUME NEW w \in Workers, Persist(w) PROVE JobInv'
  <2>1. pc[w] # "idle" /\ job[w].t \in Txns /\ job[w].n \in Rechecks /\ job[w].n \in AttemptNos
        /\ job[w].ans \in Answers \cup {None}
    BY <1>10, JobFacts DEF Persist, At
  <2>2. CASE Throw(w)
    BY <1>2, <2>1, <2>2
  <2>3. CASE ~Throw(w)
    <3>1. /\ OutcomeAccepted(job[w].t, job[w].n, job[w].ans, job[w].id)
          /\ RecordOutcome(job[w].t, job[w].n, job[w].ans, job[w].id)
          /\ Goto(w, "recorded") /\ UNCHANGED job
      BY <1>10, <2>3 DEF Persist
    <3>2. Decision(job[w].t, job[w].ans) \in {"PENDING"} \cup FinalStatuses
      BY <2>1, <3>1, DecisionIsAnOutcome DEF OutcomeAccepted
    <3>3. Answered(job[w].t, job[w].n)'
      BY <2>1, <3>1, <3>2 DEF RecordOutcome, Finalized, Answered, FinalStatuses, TypeOK
    <3>4. recheck'[job[w].t][job[w].n].status # "NONE"
      BY <2>1 DEF IInv, JobInv, Row, Monotone
    <3>5. pc'[w] = "recorded" /\ job'[w] = job[w]
      BY <3>1 DEF Goto, TypeOK
    <3>6. JobKnows(w)'
      BY <3>1, <3>3, <3>4, <3>5 DEF JobKnows, Row, Answered
    <3> QED
      BY <3>1, <3>6, WorkerKnows
  <2> QED
    BY <2>2, <2>3
<1>11. ASSUME NEW w \in Workers, RaiseAlert(w) PROVE JobInv'
  <2>1. pc[w] # "idle" /\ job[w].t \in Txns /\ job[w].n \in Rechecks /\ job[w].op \in Ops
    BY <1>11, JobFacts DEF RaiseAlert, At
  <2>2. pc'[w] = "pausing" /\ job'[w] = job[w] /\ <<job[w].t, job[w].n, job[w].op>> \in alerts'
    BY <1>11 DEF RaiseAlert, Goto, TypeOK
  <2>3. recheck'[job[w].t][job[w].n].status # "NONE"
    BY <2>1 DEF IInv, JobInv, Row, Monotone
  <2>4. JobKnows(w)'
    BY <2>1, <2>2, <2>3 DEF JobKnows, Row
  <2> QED
    BY <1>11, <2>4, WorkerKnows DEF RaiseAlert
<1>12. ASSUME NEW w \in Workers, \/ CompleteClaim(w) \/ DeferClaim(w) \/ PauseClaim(w)
                                 \/ TickFails(w) \/ Crash(w)
       PROVE  JobInv'
  BY <1>2, <1>12, WorkerAdvances DEF CompleteClaim, DeferClaim, PauseClaim, Release, TickFails, Crash, At
<1> QED
  BY <1>1, <1>3, <1>4, <1>5, <1>6, <1>7, <1>8, <1>9, <1>10, <1>11, <1>12
  DEF Next, WorkerStep, Submit, UploadLookup, UploadPrepare, InitialOutcome, LeaseExpires, GrantCredit,
      ToggleBranch, vars

-----------------------------------------------------------------------------
(* The invariant, and the properties it strengthens.                       *)

LEMMA IInvInit == Init => IInv
<1> SUFFICES ASSUME Init PROVE IInv
  OBVIOUS
<1>1. /\ \A t \in Txns, n \in AttemptNos : attempt[t][n].result = "NONE"
      /\ \A t \in Txns, n \in Rechecks : recheck[t][n].status = "NONE"
      /\ \A t \in Txns : txStatus[t] = "NEW" /\ charges[t] = 0 /\ credited[t] = 0
      /\ \A w \in Workers : pc[w] = "idle"
      /\ confirmed = {}
  BY DEF Init, NoAttempt, NoRow
<1>2. \A n \in Rechecks : n \in AttemptNos /\ n - 1 \in AttemptNos
  BY LimitAssumption DEF Rechecks, AttemptNos
<1>3. TypeOK
  BY TypeInit
<1>4. AttemptChain /\ RowChain /\ SchedulesFollowPending /\ JobInv
  BY <1>1, <1>2 DEF AttemptChain, RowChain, SchedulesFollowPending, JobInv
<1>5. ChargedOnce /\ CreditedOnce /\ PendingHasRecheck /\ CompletedWasAnswered /\ StoppedWorkAlerted
  BY <1>1, <1>2, RechecksAreAttempts
  DEF ChargedOnce, CreditedOnce, PendingHasRecheck, CompletedWasAnswered, StoppedWorkAlerted
<1> QED
  BY <1>3, <1>4, <1>5 DEF IInv

LEMMA IInvStep == IInv /\ [Next]_vars => IInv'
<1> SUFFICES ASSUME IInv, [Next]_vars PROVE IInv'
  OBVIOUS
<1>1. TypeOK'
  BY TypeStep DEF IInv
<1>2. Tables'
  BY EffectsPreserve
<1>3. JobInv'
  BY JobInvStep
<1> QED
  BY <1>1, <1>2, <1>3 DEF IInv, Tables

\* The inductive invariant holds in every state the service reaches.
THEOREM PipelineInvariant == Spec => []IInv
BY IInvInit, IInvStep, PTL DEF Spec

\* However uploads and workers interleave, at most one attempt of a transaction is waiting
\* for the provider: all but the last one of the chain are pending.
THEOREM PipelineOneOpenAttempt == Spec => []OneOpenAttempt
<1>1. IInv => OneOpenAttempt
  <2> SUFFICES ASSUME IInv, NEW t \in Txns, NEW m \in AttemptNos, NEW n \in AttemptNos,
                      attempt[t][m].result = "QUEUED", attempt[t][n].result = "QUEUED", m # n
               PROVE  FALSE
    BY DEF OneOpenAttempt
  <2>1. m < n \/ n < m
    BY LimitAssumption DEF AttemptNos
  <2> QED
    BY <2>1 DEF IInv, AttemptChain
<1> QED
  BY <1>1, PipelineInvariant, PTL

\* Outcome and schedule commit together, at every number of rechecks and workers.
THEOREM PipelineSchedulesFollowPending == Spec => []SchedulesFollowPending
<1>1. IInv => SchedulesFollowPending
  BY DEF IInv
<1> QED
  BY <1>1, PipelineInvariant, PTL

\* A verified transaction is confirmed and credited once, and no receipt pays twice.
THEOREM PipelineCreditedOnce == Spec => []CreditedOnce
<1>1. IInv => CreditedOnce
  BY DEF IInv
<1> QED
  BY <1>1, PipelineInvariant, PTL

\* One credit pays for the INITIAL attempt and all its rechecks, however many uploads race.
THEOREM PipelineChargedOnce == Spec => []ChargedOnce
<1>1. IInv => ChargedOnce
  BY DEF IInv
<1> QED
  BY <1>1, PipelineInvariant, PTL

\* A pending transaction always has the recheck that will decide it.
THEOREM PipelinePendingHasRecheck == Spec => []PendingHasRecheck
<1>1. IInv => PendingHasRecheck
  BY DEF IInv
<1> QED
  BY <1>1, PipelineInvariant, PTL

\* A recheck is completed only after an outcome of its attempt committed.
THEOREM PipelineCompletedWasAnswered == Spec => []CompletedWasAnswered
<1>1. IInv => CompletedWasAnswered
  BY DEF IInv
<1> QED
  BY <1>1, PipelineInvariant, PTL

\* Work parked for the provider has its security alert.
THEOREM PipelineStoppedWorkAlerted == Spec => []StoppedWorkAlerted
<1>1. IInv => StoppedWorkAlerted
  BY DEF IInv
<1> QED
  BY <1>1, PipelineInvariant, PTL

-----------------------------------------------------------------------------
(* What no step may do.                                                    *)

\* An answer, once committed, is never written over by a worker that comes late.
THEOREM PipelineAnswersAreImmutable == Spec => AnswersAreImmutable
<1>1. IInv /\ [Next]_vars =>
        [\A t \in Txns, n \in AttemptNos :
           attempt[t][n].result \notin {"NONE", "QUEUED"} => attempt'[t][n] = attempt[t][n]]_vars
  BY EffectsPreserve DEF Monotone, Answered
<1> QED
  BY <1>1, PipelineInvariant, PTL DEF Spec, AnswersAreImmutable

\* The claim on recheck n of t ends, in a step of the worker that holds its live token.
ClaimEnds(t, n) ==
  recheck[t][n].status = "CLAIMED" /\ recheck'[t][n].status # "CLAIMED" =>
    \E w \in Workers : /\ recheck[t][n].token = w /\ recheck[t][n].lease = "live"
                       /\ pc[w] \in {"recorded", "deferring", "pausing"}
                       /\ pc'[w] = "idle"
                       /\ job[w].t = t /\ job[w].n = n

LEMMA ReleaseEndsClaim ==
  ASSUME TypeOK, NEW w \in Workers, pc[w] \in {"recorded", "deferring", "pausing"},
         NEW s \in RowStatuses, Release(w, s), NEW t \in Txns, NEW n \in Rechecks
  PROVE  ClaimEnds(t, n)
<1>1. CASE Throw(w)
  BY <1>1 DEF Throw, dbVars, ClaimEnds
<1>2. CASE ~Throw(w)
  <2> DEFINE r == [Row(w) EXCEPT !.status = s, !.token = None, !.lease = "none"]
  <2>1. /\ Owns(w) /\ Goto(w, "idle")
        /\ recheck' = [recheck EXCEPT ![job[w].t][job[w].n] = r]
    BY <1>2 DEF Release, Row
  <2> HIDE DEF r
  <2>2. job[w].t # t \/ job[w].n # n => recheck'[t][n] = recheck[t][n]
    BY <2>1 DEF TypeOK
  <2>3. pc'[w] = "idle"
    BY <2>1 DEF Goto, TypeOK
  <2> QED
    BY <2>1, <2>2, <2>3 DEF ClaimEnds, Owns, Row
<1> QED
  BY <1>1, <1>2

LEMMA OutcomeKeepsClaims ==
  ASSUME TypeOK, NEW u \in Txns, NEW m \in AttemptNos, NEW a, NEW i,
         OutcomeAccepted(u, m, a, i), RecordOutcome(u, m, a, i),
         Decision(u, a) = "PENDING" => a = "PENDING",
         NEW t \in Txns, NEW n \in Rechecks
  PROVE  ClaimEnds(t, n)
<1>1. CASE Decision(u, a) # "PENDING"
  BY <1>1 DEF RecordOutcome, NextSchedule, ClaimEnds
<1>2. CASE Decision(u, a) = "PENDING"
  <2>1. m + 1 \in Rechecks /\ recheck[u][m + 1].status = "NONE"
    BY <1>2, LimitAssumption DEF OutcomeAccepted, MaySchedule, Rechecks, AttemptNos
  <2>2. recheck' = [recheck EXCEPT ![u][m + 1] = [NoRow EXCEPT !.status = "SCHEDULED"]]
    BY <1>2 DEF RecordOutcome, NextSchedule
  <2>3. t # u \/ n # m + 1 => recheck'[t][n] = recheck[t][n]
    BY <2>2 DEF TypeOK
  <2> QED
    BY <2>1, <2>3 DEF ClaimEnds
<1> QED
  BY <1>1, <1>2

LEMMA RowKeepsStatus ==
  ASSUME TypeOK, NEW u \in Txns, NEW m \in Rechecks, NEW r,
         recheck' = [recheck EXCEPT ![u][m] = r],
         r.status = "CLAIMED", NEW t \in Txns, NEW n \in Rechecks
  PROVE  ClaimEnds(t, n)
<1>1. recheck'[t][n] = r \/ recheck'[t][n] = recheck[t][n]
  BY DEF TypeOK
<1> QED
  BY <1>1 DEF ClaimEnds

LEMMA FencedStep ==
  ASSUME TypeOK, [Next]_vars, NEW t \in Txns, NEW n \in Rechecks
  PROVE  ClaimEnds(t, n)
<1>1. CASE recheck' = recheck
  BY <1>1 DEF ClaimEnds
<1>2. ASSUME NEW u \in Txns, NEW a \in Outcomes, InitialOutcome(u, a) PROVE ClaimEnds(t, n)
  <2>1. Decision(u, a) = "PENDING" => a = "PENDING"
    BY DEF Decision
  <2> QED
    BY <1>2, <2>1, OutcomeKeepsClaims, RechecksAreAttempts DEF InitialOutcome
<1>3. ASSUME NEW u \in Txns, NEW m \in Rechecks, LeaseExpires(u, m) PROVE ClaimEnds(t, n)
  <2> DEFINE r == [recheck[u][m] EXCEPT !.lease = "lapsed"]
  <2>1. recheck' = [recheck EXCEPT ![u][m] = r] /\ r.status = "CLAIMED"
    BY <1>3 DEF LeaseExpires, TypeOK, RecheckRows
  <2> QED
    BY <2>1, RowKeepsStatus
<1>4. ASSUME NEW w \in Workers, NEW u \in Txns, NEW m \in Rechecks, Claim(w, u, m)
      PROVE  ClaimEnds(t, n)
  <2> DEFINE r == [recheck[u][m] EXCEPT !.status = "CLAIMED", !.token = w, !.lease = "live"]
  <2>1. recheck' = [recheck EXCEPT ![u][m] = r] /\ r.status = "CLAIMED"
    BY <1>4 DEF Claim, TypeOK, RecheckRows
  <2> QED
    BY <2>1, RowKeepsStatus
<1>5. ASSUME NEW w \in Workers, Bind(w) PROVE ClaimEnds(t, n)
  <2>1. CASE Throw(w)
    BY <1>1, <2>1 DEF Throw, dbVars
  <2>2. CASE ~Throw(w)
    <3> DEFINE r == [Row(w) EXCEPT !.bound = job[w].n]
    <3>1. job[w].t \in Txns /\ job[w].n \in Rechecks /\ Row(w) \in RecheckRows
      BY <1>5, JobFacts DEF Bind, At
    <3>2. recheck' = [recheck EXCEPT ![job[w].t][job[w].n] = r] /\ r.status = "CLAIMED"
      BY <1>5, <2>2, <3>1 DEF Bind, Owns, Row, RecheckRows
    <3> QED
      BY <3>1, <3>2, RowKeepsStatus
  <2> QED
    BY <2>1, <2>2
<1>6. ASSUME NEW w \in Workers, Persist(w) PROVE ClaimEnds(t, n)
  <2>1. CASE Throw(w)
    BY <1>1, <2>1 DEF Throw, dbVars
  <2>2. CASE ~Throw(w)
    <3>1. job[w].t \in Txns /\ job[w].n \in AttemptNos
      BY <1>6, JobFacts DEF Persist, At
    <3>2. Decision(job[w].t, job[w].ans) = "PENDING" => job[w].ans = "PENDING"
      BY DEF Decision
    <3> QED
      BY <1>6, <2>2, <3>1, <3>2, OutcomeKeepsClaims DEF Persist
  <2> QED
    BY <2>1, <2>2
<1>7. ASSUME NEW w \in Workers, CompleteClaim(w) \/ DeferClaim(w) \/ PauseClaim(w)
      PROVE  ClaimEnds(t, n)
  <2>1. pc[w] # "idle"
    BY <1>7 DEF CompleteClaim, DeferClaim, PauseClaim, At
  <2>2. job[w].hold \in RowStatuses
    BY <2>1, JobFacts DEF RowStatuses
  <2> QED
    BY <1>7, <2>2, ReleaseEndsClaim DEF CompleteClaim, DeferClaim, PauseClaim, At, RowStatuses
<1>8. ASSUME NEW w \in Workers,
             \/ Lookup(w) \/ Resolve(w) \/ ReadWorkItem(w) \/ Reserve(w) \/ MarkSent(w)
             \/ SaveResponse(w) \/ RaiseAlert(w) \/ TickFails(w) \/ Crash(w)
             \/ \E a \in Answers : ProviderAnswers(w, a)
      PROVE  recheck' = recheck
  BY <1>8 DEF Lookup, Resolve, ReadWorkItem, Reserve, MarkSent, SaveResponse, RaiseAlert, TickFails,
              Crash, ProviderAnswers, Throw, dbVars
<1> QED
  BY <1>1, <1>2, <1>3, <1>4, <1>5, <1>6, <1>7, <1>8
  DEF Next, WorkerStep, Submit, UploadLookup, UploadPrepare, GrantCredit, ToggleBranch, vars, dbVars

\* A worker that lost its lease never changes the row it claimed, whoever claimed it since.
THEOREM PipelineLeaseFencing == Spec => LeaseFencing
<1>1. TypeOK /\ [Next]_vars => [\A t \in Txns, n \in Rechecks :
        recheck[t][n].status = "CLAIMED" /\ recheck'[t][n].status # "CLAIMED" =>
          \E w \in Workers : /\ recheck[t][n].token = w /\ recheck[t][n].lease = "live"
                             /\ pc[w] \in {"recorded", "deferring", "pausing"}
                             /\ pc'[w] = "idle"
                             /\ job[w].t = t /\ job[w].n = n]_vars
  BY FencedStep DEF ClaimEnds
<1> QED
  BY <1>1, PipelineTypeCorrect, PTL DEF Spec, LeaseFencing

-----------------------------------------------------------------------------
(* Where two of the documentation's promises end.                          *)

\* At the limit no outcome is PENDING: MaySchedule is a guard of record, not of the schedule alone.
LimitIsDecided == \A t \in Txns : attempt[t][RecheckLimit].result # "PENDING"

\* Where LimitPreservesPending breaks: no attempt at the limit ever records the answer PENDING, by
\* whichever worker (resolveNextRecheckNumber throws inside the transaction of record).
THEOREM NothingPendsAtTheLimit == Spec => []LimitIsDecided
<1>1. RecheckLimit \in AttemptNos /\ RecheckLimit \in Rechecks /\ \A n \in AttemptNos : n <= RecheckLimit
  BY LimitAssumption DEF AttemptNos, Rechecks
<1>2. Init => LimitIsDecided
  BY <1>1 DEF Init, LimitIsDecided, NoAttempt
<1>3. IInv /\ LimitIsDecided /\ [Next]_vars => LimitIsDecided'
  <2> SUFFICES ASSUME IInv, LimitIsDecided, [Next]_vars, NEW t \in Txns
               PROVE  attempt'[t][RecheckLimit].result # "PENDING"
    BY DEF LimitIsDecided
  <2>0. attempt \in [Txns -> [AttemptNos -> AttemptRows]] /\ attempt[t][RecheckLimit].result # "PENDING"
    BY DEF IInv, TypeOK, LimitIsDecided
  <2>1. ASSUME attempt' = attempt PROVE attempt'[t][RecheckLimit].result # "PENDING"
    BY <2>0, <2>1
  <2>2. ASSUME NEW u \in Txns, NEW n \in AttemptNos, NEW r, r.result # "PENDING",
               attempt' = [attempt EXCEPT ![u][n] = r]
        PROVE  attempt'[t][RecheckLimit].result # "PENDING"
    BY <1>1, <2>0, <2>2
  <2>3. ASSUME NEW u \in Txns, NEW n \in AttemptNos, ReserveEffect(u, n)
        PROVE  attempt'[t][RecheckLimit].result # "PENDING"
    <3> DEFINE r == [result |-> "QUEUED", id |-> None]
    <3>1. attempt' = [attempt EXCEPT ![u][n] = r] /\ r.result # "PENDING"
      BY <2>3 DEF ReserveEffect
    <3> HIDE DEF r
    <3> QED
      BY <2>2, <3>1
  <2>4. ASSUME NEW u \in Txns, NEW n \in AttemptNos, NEW a \in Answers \cup {None},
               NEW i \in Ids \cup {None}, OutcomeEffect(u, n, a, i)
        PROVE  attempt'[t][RecheckLimit].result # "PENDING"
    <3> DEFINE d == Decision(u, a)
               r == [result |-> d, id |-> i]
    <3>1. attempt' = [attempt EXCEPT ![u][n] = r] /\ r.result = d
      BY <2>4 DEF OutcomeEffect, RecordOutcome, Finalized
    <3>2. d = "PENDING" => n < RecheckLimit
      BY <2>4, DecisionIsAnOutcome DEF OutcomeEffect, OutcomeAccepted, MaySchedule
    <3> HIDE DEF d, r
    <3>3. CASE d # "PENDING"
      BY <2>2, <3>1, <3>3
    <3>4. CASE d = "PENDING"
      <4>1. n # RecheckLimit
        BY <3>2, <3>4, LimitAssumption DEF AttemptNos
      <4> QED
        BY <1>1, <2>0, <3>1, <4>1
    <3> QED
      BY <3>3, <3>4
  <2> QED
    BY <2>1, <2>3, <2>4, StepEffects DEF Effects, RowEffect, QuietEffect
<1> QED
  BY <1>2, <1>3, PipelineInvariant, PTL DEF Spec

\* Recheck n of t is answered and not released, and the worker that recorded the answer is gone.
Orphaned(t, n) ==
  /\ Answered(t, n) /\ recheck[t][n].status # "COMPLETED"
  /\ \A w \in Workers : pc[w] = "recorded" => job[w].t # t \/ job[w].n # n

\* Only by recording an answer does a worker get to the place where it releases its claim.
LEMMA RecordedByPersist ==
  ASSUME TypeOK, Next, NEW w \in Workers, pc'[w] = "recorded"
  PROVE  \/ pc[w] = "recorded" /\ job'[w] = job[w]
         \/ OutcomeAccepted(job[w].t, job[w].n, job[w].ans, job[w].id) /\ job'[w] = job[w]
<1> DEFINE Same == pc[w] = "recorded" /\ job'[w] = job[w]
<1>1. ASSUME UNCHANGED <<pc, job>> PROVE Same
  BY <1>1
<1>2. ASSUME NEW v \in Workers, NEW q, Goto(v, q), q # "recorded",
             \A u \in Workers \ {v} : job'[u] = job[u]
      PROVE  Same
  <2>1. pc'[v] = q /\ \A u \in Workers \ {v} : pc'[u] = pc[u]
    BY <1>2 DEF Goto, TypeOK
  <2> QED
    BY <1>2, <2>1
<1> HIDE DEF Same
<1>3. ASSUME NEW v \in Workers, Throw(v) PROVE Same
  BY <1>2, <1>3 DEF Throw
<1>4. ASSUME NEW v \in Workers, NEW x \in Txns, NEW n \in Rechecks, Claim(v, x, n) PROVE Same
  BY <1>2, <1>4 DEF Claim, TypeOK
<1>5. ASSUME NEW v \in Workers, Lookup(v) \/ Resolve(v) \/ Bind(v) \/ ReadWorkItem(v) \/ Reserve(v) PROVE Same
  <2>1. CASE Lookup(v)
    BY <1>2, <2>1 DEF Lookup
  <2>2. CASE Resolve(v)
    BY <1>2, <2>2 DEF Resolve, TypeOK
  <2>3. CASE Bind(v)
    BY <1>2, <1>3, <2>3 DEF Bind
  <2>4. CASE ReadWorkItem(v)
    BY <1>2, <2>4 DEF ReadWorkItem, TypeOK
  <2>5. CASE Reserve(v)
    BY <1>2, <1>3, <2>5 DEF Reserve, TypeOK
  <2> QED
    BY <1>5, <2>1, <2>2, <2>3, <2>4, <2>5
<1>6. ASSUME NEW v \in Workers, MarkSent(v) \/ SaveResponse(v) \/ \E a \in Answers : ProviderAnswers(v, a)
      PROVE  Same
  <2>1. CASE MarkSent(v)
    BY <1>2, <1>3, <2>1 DEF MarkSent, TypeOK
  <2>2. CASE SaveResponse(v)
    BY <1>2, <1>3, <2>2 DEF SaveResponse
  <2>3. ASSUME NEW a \in Answers, ProviderAnswers(v, a) PROVE Same
    BY <1>2, <2>3 DEF ProviderAnswers, TypeOK
  <2> QED
    BY <1>6, <2>1, <2>2, <2>3
<1>7. ASSUME NEW v \in Workers, NEW s, Release(v, s) PROVE Same
  BY <1>2, <1>3, <1>7 DEF Release, TypeOK
<1>8. ASSUME NEW v \in Workers, RaiseAlert(v) \/ TickFails(v) \/ Crash(v) PROVE Same
  BY <1>2, <1>8 DEF RaiseAlert, TickFails, Crash, TypeOK
<1>9. ASSUME NEW v \in Workers, Persist(v), ~Throw(v)
      PROVE  /\ v # w => Same
             /\ v = w => OutcomeAccepted(job[w].t, job[w].n, job[w].ans, job[w].id) /\ job'[w] = job[w]
  <2>1. /\ OutcomeAccepted(job[v].t, job[v].n, job[v].ans, job[v].id)
        /\ pc' = [pc EXCEPT ![v] = "recorded"] /\ job' = job
    BY <1>9 DEF Persist, Goto
  <2>2. v # w => pc'[w] = pc[w]
    BY <2>1 DEF TypeOK
  <2> QED
    BY <2>1, <2>2 DEF Same
<1>10. Same \/ (OutcomeAccepted(job[w].t, job[w].n, job[w].ans, job[w].id) /\ job'[w] = job[w])
  BY <1>1, <1>3, <1>4, <1>5, <1>6, <1>7, <1>8, <1>9
  DEF Next, WorkerStep, CompleteClaim, DeferClaim, PauseClaim, Submit, UploadLookup, UploadPrepare,
      InitialOutcome, LeaseExpires, GrantCredit, ToggleBranch, envVars
<1> QED
  BY <1>10 DEF Same

\* Only the worker that recorded its answer completes a recheck.
LEMMA CompletedByRecorded ==
  ASSUME TypeOK, Next, NEW t \in Txns, NEW n \in Rechecks,
         recheck[t][n].status # "COMPLETED", recheck'[t][n].status = "COMPLETED"
  PROVE  \E w \in Workers : pc[w] = "recorded" /\ job[w].t = t /\ job[w].n = n
<1>1. ASSUME NEW u \in Txns, NEW m \in Rechecks, NEW r, r.status # "COMPLETED",
             recheck' = [recheck EXCEPT ![u][m] = r]
      PROVE  FALSE
  <2>1. recheck'[t][n] = r \/ recheck'[t][n] = recheck[t][n]
    BY <1>1 DEF TypeOK
  <2> QED
    BY <1>1, <2>1
<1>2. recheck' # recheck
  OBVIOUS
<1>3. ASSUME NEW u \in Txns, NEW m \in AttemptNos, NEW a, NEW i,
             OutcomeAccepted(u, m, a, i), RecordOutcome(u, m, a, i), Decision(u, a) = "PENDING" => a = "PENDING"
      PROVE  FALSE
  <2>1. Decision(u, a) = "PENDING"
    BY <1>2, <1>3 DEF RecordOutcome, NextSchedule
  <2>2. m + 1 \in Rechecks
    BY <1>3, <2>1, LimitAssumption DEF OutcomeAccepted, MaySchedule, Rechecks, AttemptNos
  <2>3. recheck' = [recheck EXCEPT ![u][m + 1] = [NoRow EXCEPT !.status = "SCHEDULED"]]
    BY <1>3, <2>1 DEF RecordOutcome, NextSchedule
  <2>4. [NoRow EXCEPT !.status = "SCHEDULED"].status # "COMPLETED"
    BY DEF NoRow
  <2> QED
    BY <1>1, <2>2, <2>3, <2>4
<1>4. ASSUME NEW u \in Txns, NEW a \in Outcomes, InitialOutcome(u, a) PROVE FALSE
  <2>1. Decision(u, a) = "PENDING" => a = "PENDING"
    BY DEF Decision
  <2> QED
    BY <1>3, <1>4, <2>1, RechecksAreAttempts DEF InitialOutcome
<1>5. ASSUME NEW w \in Workers, Persist(w) PROVE FALSE
  <2>1. job[w].t \in Txns /\ job[w].n \in AttemptNos
    BY <1>5, JobFacts DEF Persist, At
  <2>2. Decision(job[w].t, job[w].ans) = "PENDING" => job[w].ans = "PENDING"
    BY DEF Decision
  <2> QED
    BY <1>2, <1>3, <1>5, <2>1, <2>2 DEF Persist, Throw, dbVars
<1>6. ASSUME NEW u \in Txns, NEW m \in Rechecks, LeaseExpires(u, m) PROVE FALSE
  <2> DEFINE r == [recheck[u][m] EXCEPT !.lease = "lapsed"]
  <2>1. recheck' = [recheck EXCEPT ![u][m] = r] /\ r.status = "CLAIMED"
    BY <1>6 DEF LeaseExpires, TypeOK, RecheckRows
  <2> QED
    BY <1>1, <2>1
<1>7. ASSUME NEW w \in Workers, NEW u \in Txns, NEW m \in Rechecks, Claim(w, u, m) PROVE FALSE
  <2> DEFINE r == [recheck[u][m] EXCEPT !.status = "CLAIMED", !.token = w, !.lease = "live"]
  <2>1. recheck' = [recheck EXCEPT ![u][m] = r] /\ r.status = "CLAIMED"
    BY <1>7 DEF Claim, TypeOK, RecheckRows
  <2> QED
    BY <1>1, <2>1
<1>8. ASSUME NEW w \in Workers, Bind(w) PROVE FALSE
  <2> DEFINE r == [Row(w) EXCEPT !.bound = job[w].n]
  <2>1. job[w].t \in Txns /\ job[w].n \in Rechecks /\ Row(w) \in RecheckRows
    BY <1>8, JobFacts DEF Bind, At
  <2>2. recheck' = [recheck EXCEPT ![job[w].t][job[w].n] = r] /\ r.status = "CLAIMED"
    BY <1>2, <1>8, <2>1 DEF Bind, Owns, Row, RecheckRows, Throw, dbVars
  <2> QED
    BY <1>1, <2>1, <2>2
<1>9. ASSUME NEW w \in Workers, pc[w] # "idle", NEW s, Release(w, s)
      PROVE  s = "COMPLETED" /\ job[w].t = t /\ job[w].n = n
  <2> DEFINE r == [Row(w) EXCEPT !.status = s, !.token = None, !.lease = "none"]
  <2>1. job[w].t \in Txns /\ job[w].n \in Rechecks /\ Row(w) \in RecheckRows
    BY <1>9, JobFacts
  <2>2. recheck' = [recheck EXCEPT ![job[w].t][job[w].n] = r] /\ r.status = s
    BY <1>2, <1>9, <2>1 DEF Release, Row, RecheckRows, Throw, dbVars
  <2> HIDE DEF r
  <2>3. job[w].t # t \/ job[w].n # n => recheck'[t][n] = recheck[t][n]
    BY <2>1, <2>2 DEF TypeOK
  <2> QED
    BY <1>1, <2>1, <2>2, <2>3
<1>10. ASSUME NEW w \in Workers, DeferClaim(w) \/ PauseClaim(w) PROVE FALSE
  <2>1. pc[w] # "idle"
    BY <1>10 DEF DeferClaim, PauseClaim, At
  <2>2. job[w].hold # "COMPLETED"
    BY <2>1, JobFacts DEF HoldStatuses
  <2> QED
    BY <1>9, <1>10, <2>1, <2>2 DEF DeferClaim, PauseClaim
<1>11. ASSUME NEW w \in Workers, CompleteClaim(w)
       PROVE  pc[w] = "recorded" /\ job[w].t = t /\ job[w].n = n
  BY <1>9, <1>11 DEF CompleteClaim, At
<1>12. ASSUME NEW w \in Workers,
             \/ Lookup(w) \/ Resolve(w) \/ ReadWorkItem(w) \/ Reserve(w) \/ MarkSent(w)
             \/ SaveResponse(w) \/ RaiseAlert(w) \/ TickFails(w) \/ Crash(w)
             \/ \E a \in Answers : ProviderAnswers(w, a)
      PROVE  recheck' = recheck
  BY <1>12 DEF Lookup, Resolve, ReadWorkItem, Reserve, MarkSent, SaveResponse, RaiseAlert, TickFails,
               Crash, ProviderAnswers, Throw, dbVars
<1> QED
  BY <1>2, <1>4, <1>5, <1>6, <1>7, <1>8, <1>10, <1>11, <1>12
  DEF Next, WorkerStep, Submit, UploadLookup, UploadPrepare, GrantCredit, ToggleBranch, vars, dbVars

\* What a step may do to an orphan: nobody completes it and no further answer of it is recorded;
\* its claim ends only when a later worker defers or pauses it.
OrphanRemains(t, n) ==
  /\ Orphaned(t, n)' /\ attempt'[t][n] = attempt[t][n]
  /\ recheck[t][n].status = "CLAIMED" /\ recheck'[t][n].status # "CLAIMED" =>
       \E w \in Workers : pc[w] \in {"deferring", "pausing"} /\ job[w].t = t /\ job[w].n = n

\* Where AnsweredRecheckIsReleased breaks: when the process stops between the recorded answer and
\* the release of its claim, a later claim of the recheck can defer or pause it (and the deferred
\* one is claimed again), but none ever completes it or takes another answer (processNext).
THEOREM OrphansAreNeverCompleted ==
  Spec => [][\A t \in Txns, n \in Rechecks : Orphaned(t, n) => OrphanRemains(t, n)]_vars
<1> DEFINE A == \A t \in Txns, n \in Rechecks : Orphaned(t, n) => OrphanRemains(t, n)
<1>1. IInv /\ [Next]_vars => [A]_vars
  <2> SUFFICES ASSUME IInv, Next, NEW t \in Txns, NEW n \in Rechecks, Orphaned(t, n)
               PROVE  OrphanRemains(t, n)
    BY DEF vars
  <2>1. TypeOK /\ n \in AttemptNos
    BY RechecksAreAttempts DEF IInv
  <2>2. Answered(t, n)' /\ attempt'[t][n] = attempt[t][n]
    BY <2>1, EffectsPreserve DEF Orphaned, Monotone, Answered
  <2>3. recheck'[t][n].status # "COMPLETED"
    BY <2>1, CompletedByRecorded DEF Orphaned
  <2>4. ASSUME NEW w \in Workers, pc'[w] = "recorded" PROVE job'[w].t # t \/ job'[w].n # n
    <3>1. CASE pc[w] = "recorded" /\ job'[w] = job[w]
      BY <3>1 DEF Orphaned
    <3>2. CASE OutcomeAccepted(job[w].t, job[w].n, job[w].ans, job[w].id) /\ job'[w] = job[w]
      BY <3>2 DEF OutcomeAccepted, Orphaned, Answered
    <3> QED
      BY <2>1, <2>4, <3>1, <3>2, RecordedByPersist
  <2>5. ASSUME recheck[t][n].status = "CLAIMED", recheck'[t][n].status # "CLAIMED"
        PROVE  \E w \in Workers : pc[w] \in {"deferring", "pausing"} /\ job[w].t = t /\ job[w].n = n
    <3>1. PICK w \in Workers :
            pc[w] \in {"recorded", "deferring", "pausing"} /\ job[w].t = t /\ job[w].n = n
      BY <2>1, <2>5, FencedStep DEF ClaimEnds, vars
    <3>2. pc[w] # "recorded"
      BY <3>1 DEF Orphaned
    <3> QED
      BY <3>1, <3>2
  <2> QED
    BY <2>2, <2>3, <2>4, <2>5 DEF Orphaned, OrphanRemains
<1> HIDE DEF A
<1>2. Spec => [][A]_vars
  BY <1>1, PipelineInvariant, PTL DEF Spec
<1> QED
  BY <1>2 DEF A

-----------------------------------------------------------------------------
(* The pipeline implements PaymentConfirmation.                            *)

LEMMA OutcomeRefines ==
  ASSUME IInv, NEW t \in Txns, NEW n \in AttemptNos, NEW ans \in Answers \cup {None},
         NEW i \in Ids \cup {None}, OutcomeEffect(t, n, ans, i)
  PROVE  Confirmation!Next \/ UNCHANGED Confirmation!vars
<1> DEFINE d == Decision(t, ans)
<1>1. /\ d \in {"PENDING"} \cup FinalStatuses
      /\ d = "VERIFIED" => \A u \in confirmed \ {t} : ReceiptOf[u] # ReceiptOf[t]
      /\ d = "DUPLICATE" => \E u \in confirmed \ {t} : ReceiptOf[u] = ReceiptOf[t]
      /\ txStatus[t] \notin FinalStatuses
  BY DecisionIsAnOutcome, FinalStays DEF OutcomeEffect, OutcomeAccepted
<1>2. /\ txStatus' = [txStatus EXCEPT ![t] = d]
      /\ credited' = [credited EXCEPT ![t] = IF d = "VERIFIED" THEN @ + 1 ELSE @]
  BY DEF OutcomeEffect, RecordOutcome, LedgerEntries
<1> HIDE DEF d
<1> DEFINE o == [u \in Txns |-> IF txStatus[u] \in FinalStatuses THEN txStatus[u] ELSE "OPEN"]
           p == [u \in Txns |-> IF txStatus'[u] \in FinalStatuses THEN txStatus'[u] ELSE "OPEN"]
<1>3. /\ o[t] = "OPEN"
      /\ p = [o EXCEPT ![t] = IF d = "PENDING" THEN "OPEN" ELSE d]
      /\ credited' = IF d = "VERIFIED" THEN [credited EXCEPT ![t] = @ + 1] ELSE credited
  BY <1>1, <1>2 DEF IInv, TypeOK, FinalStatuses
<1>4. Confirmation!Spent(t) <=> \E u \in confirmed \ {t} : ReceiptOf[u] = ReceiptOf[t]
  <2>1. \A u \in Txns : u \in confirmed <=> o[u] = "VERIFIED"
    BY DEF IInv, CreditedOnce, FinalStatuses
  <2>2. confirmed \subseteq Txns
    BY DEF IInv, TypeOK
  <2> QED
    BY <2>1, <2>2 DEF Confirmation!Spent
<1>5. CASE d = "PENDING"
  BY <1>3, <1>5 DEF Confirmation!vars
<1>6. CASE d = "VERIFIED"
  <2>1. Confirmation!Verify(t)
    BY <1>1, <1>3, <1>4, <1>6 DEF Confirmation!Verify
  <2> QED
    BY <2>1 DEF Confirmation!Next
<1>7. CASE d = "DUPLICATE"
  <2>1. Confirmation!Duplicate(t)
    BY <1>1, <1>3, <1>4, <1>7 DEF Confirmation!Duplicate
  <2> QED
    BY <2>1 DEF Confirmation!Next
<1>8. CASE d = "FAILED"
  <2>1. Confirmation!Fail(t)
    BY <1>1, <1>3, <1>8 DEF Confirmation!Fail
  <2> QED
    BY <2>1 DEF Confirmation!Next
<1> QED
  BY <1>1, <1>5, <1>6, <1>7, <1>8 DEF FinalStatuses

LEMMA StepRefines == IInv /\ [Next]_vars => [Confirmation!Next]_(Confirmation!vars)
<1> SUFFICES ASSUME IInv, [Next]_vars PROVE Confirmation!Next \/ UNCHANGED Confirmation!vars
  OBVIOUS
<1>1. CASE \E t \in Txns, n \in AttemptNos : ReserveEffect(t, n)
  BY <1>1 DEF ReserveEffect, Confirmation!vars, IInv, TypeOK, FinalStatuses
<1>2. CASE \E t \in Txns, n \in AttemptNos, a \in Answers \cup {None}, i \in Ids \cup {None} :
             OutcomeEffect(t, n, a, i)
  BY <1>2, OutcomeRefines
<1>3. CASE \E t \in Txns, n \in Rechecks, r \in RecheckRows : RowEffect(t, n, r)
  BY <1>3 DEF RowEffect, Confirmation!vars
<1>4. CASE QuietEffect
  BY <1>4 DEF QuietEffect, Confirmation!vars
<1> QED
  BY <1>1, <1>2, <1>3, <1>4, StepEffects DEF Effects

\* Attempts, leases, retries and crashes hidden, what the ledger sees is PaymentConfirmation.
THEOREM PipelineConfirms == Spec => ConfirmationSpec
<1>1. Init => Confirmation!Init
  BY DEF Init, Confirmation!Init, FinalStatuses
<1> QED
  BY <1>1, StepRefines, PipelineInvariant, PTL DEF Spec, ConfirmationSpec, Confirmation!Spec
=============================================================================
