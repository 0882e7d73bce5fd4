# PayGuard in TLA+

PayGuard (`src/pay-guard-backend`, NestJS over PostgreSQL) lets the waiters and cashiers of a
business submit customer payments, verifies them with the provider Verify.ET, credits what was
verified to the branch's ledger, and sells the branches the verification credits this costs.
This directory holds TLA+ models of the parts of it where several actors meet over the same
rows, the TLC runs that check them on small instances, and TLAPS proofs for every instance.
Paths below are relative to `src/pay-guard-backend/src` unless they start with `docs/` or
`database/`, which are in `src/pay-guard-backend`.

Run everything inside this directory:

    tlc -workers 2 -config PipelineRace.cfg MCVerificationPipeline.tla
    tlapm VerificationPipelineProofs.tla

`PROJECT.json` lists the runs with their properties, a mutant for each property of each passing
run, the source lines of every definition, the hazards, the findings and the theorems.

## 1. Inventory

The system is a set of stateless processes over one PostgreSQL database: API processes that
handle requests, and worker processes that poll on timers. All domain state is rows. A service
method is usually one database transaction, so the atomic step of most models is one
transaction, or one awaited call outside of a transaction (to Verify.ET, Firebase, the object
storage). Where two transactions meet in the middle (a lock that is waited for, a row read before
it is locked), the transaction is split there. A transaction whose code throws rolls back: in the
models it changes nothing but the place of its caller. Files live in an object storage that takes
no part in transactions; the web client keeps its session in the browser's cookies.

| component | state it keeps | operations | interacts through | hard behaviour | correct when |
| --- | --- | --- | --- | --- | --- |
| Customer verification (`verifications/`) | transaction status, attempts, recheck rows with claim, token and lease | prepare, record outcome, schedule, claim, bind, complete, defer, pause | called by uploads and by the worker; charges credits; posts to the ledger | attempt looked up before the row lock; leases that lapse; outcome, schedule and claim in three transactions | one open attempt; a recheck follows every PENDING; claims fenced; scheduled work ends |
| Verified payment posting (`verifications/verified-payment-posting.service.ts`) | confirmations, duplicates, ledger entry | post | in the outcome's transaction | two transactions of one receipt at once | a receipt credits once |
| Verify.ET worker (`verify-et/`) | provider requests with unique keys and ids, alerts | reserve, mark sent, call, complete, plan retry | timer; provider; claims | crash between any two calls, timeouts, repeated ids | stopped work is alerted, retries end |
| Proof upload and review (`qr-processing/`, `transactions/receipt-review-case.*`) | objects, receipts, match decisions, review cases and their history | inspect, store, record, match, prepare; acknowledge, resolve | storage; calls prepare; reviewers | three transactions with a compensation in between; concurrent uploads | a payment is prepared on evidence that stays; a mismatch is reviewed |
| PDF worker (`qr-processing/pdf-qr-worker.client.ts`) | pending calls, timers, the worker thread | run, ready, reply, time out, die, destroy | messages between two threads | hanging or dying thread, late messages | no call waits for ever |
| Transaction submission and query (`transactions/`) | customer transactions | create, list | start of the pipeline | a submitter removed meanwhile | rows by people in post, read in scope |
| Subscription purchase and verification (`subscriptions/`) | orders, proofs, verifications, subscriptions, invoices | create, add proof, verify (prepare, call, record) | charges and grants credits; fraud | overlapping verify calls; one payment for two orders | a payment activates one order; an order pays one credit |
| Credit lifecycle (`credits/`) | lots, wallet, events, deferrals, threshold alerts | grant, charge, defer, settle, expire | called by both verifications | last credit wanted twice; lapsed but unswept lots; many statements per grant | wallet is the sum of its lots; nothing spent after expiry |
| Subscription fraud and recovery codes (`subscriptions/subscription-fraud.dao.ts`, `fraud/`) | reuse attempts, flags, alerts, purchase locks, codes | record attempt, issue, revoke, redeem | in the outcome of a subscription verification; platform administrators; owners | attempts counted against a threshold; lock read without a row lock; codes that expire | one lock in force, released by a live code only |
| Ledger (`ledger/`) | accounts' balances, entries with running balance | post, reverse, assert replay, project a balance | postings of verification and of the manual operations | concurrent postings, replays | running balances chain to the calculated one |
| Settlement and platform accounts (`banks/v2-banks.service.ts`) | accounts in two tables, reference banks | create, update, deactivate | named by submissions and postings | one number entered twice at once in two tables | a number belongs to one account |
| Manual deposits, withdrawals, corrections, reversals | records of operations, evidence of corrections | create, approve a reversal | post to the ledger under the account's row lock | stale projections, keys sent again, second reversal | posted once, as shown, never overdrawn, by a person in post |
| Daily reconciliation (`reconciliations/`) | snapshots, status history | draft, submit, decide, supersede | sums ledger entries; evidence of corrections | late entries, several drafts of a day, opening balances | numbers follow the account and stay what was confirmed |
| Notifications (`notifications/`) | notifications with lease, delivery attempts, devices, preferences | notify, register, claim, send, complete, fail | committed with the operations above; Firebase | lapsed leases, duplicates, devices that change hands | a push reaches its recipient and ends |
| Reports and exports (`reports/`) | jobs with lease, files | request, claim, build, store, complete, expire, download | storage | as above; a key shared by all attempts | a ready export has its file |
| Archive (`archive/`) | jobs with lease, batches, records, deletions | claim, pack, store, read back, complete, delete sources, retrieve | storage | lost acknowledgement of a commit; two claims of a month | evidence is never lost |
| Sessions (`auth/`) | sessions, refresh token hashes | login, select, begin, insert, rotate, logout | guards the API | two devices at once; login against removal and suspension | single use tokens, no session outlives a post |
| Businesses, branches, users | status, memberships, roles, assignments | register, change status, create branch, create and remove staff | read by everything | concurrent removals | a branch keeps a manager |
| Scope of requests (guards, `lockScope`, `scope()` of each service) | – | admit, begin, write, read | token, then the rows | removal between check, begin and lock | writers in post, readers in scope |
| Migrations (`database/migrate.ts`) | `schema_migrations` and the schema | up, down, status | advisory lock | several releases at once, stops | rows tell the schema |
| Web client's session (`src/pay-guard-web`) | three cookies | sign in, refresh, sign out | answers set cookies | several tabs, answers out of order | a portal can refresh |
| Webhooks, incidents (`verify-et/*webhook*`, `*incident*`) | deliveries, incidents | store, acknowledge | nothing in the source applies them | duplicates | – |
| Rate limit, audit rows, metrics, storage, config, screens, Android shell | counters, rows, files | – | in front of or after the rest | – | – |

The hazards of the code, each at its line, with the properties that would catch it going wrong
or the reason why none covers it, are in `PROJECT.json` under `hazards`.

## 2. The modules

| module | what it is |
| --- | --- |
| `PaymentConfirmation` | abstract: one final outcome per transaction, one credit per receipt |
| `VerificationPipeline` | customer verification, posting, worker and request history |
| `SubscriptionCredits` | purchase, subscription verification and the credits of one branch |
| `PurchaseLock` | reuse attempts, purchase locks and recovery codes of one business |
| `SettlementLedger` | settlement accounts, their ledger and the operations that post to it |
| `Reconciliation` | extends `SettlementLedger` with daily snapshots and the evidence of corrections |
| `WorkLeases` | what the queues of the background worker share: lease, claim, token |
| `ReportExport`, `ReceiptArchive`, `NotificationDelivery` | extend `WorkLeases`: one queue each |
| `PdfWorker` | the client of the PDF worker thread |
| `ProofIntake` | uploads of proofs and the review of those that do not match |
| `StaffAccess` | business, branches, staff, logins, sessions |
| `BranchScope` | what requests may do and read in a branch |
| `AccountRegistry` | account numbers over two tables |
| `SchemaMigrations` | the migration runner |
| `WebSession` | the session of a browser |
| `MCVerificationPipeline`, `MCSubscriptionCredits`, `MCReconciliation` | instances of one module |
| `MCLedgerAndLocks` | instance of `SettlementLedger` and `PurchaseLock` |
| `MCBackgroundWorker` | instance of the three queues |
| `MCWorkDrains` | what must end: the queues, the PDF worker, and the pipeline as an `INSTANCE` |
| `MCBackOffice` | instance of `Reconciliation` and the six modules from `ProofIntake` to `WebSession` |
| `VerificationPipelineProofs`, `SubscriptionCreditsProofs` | types, invariant, safety and refinement of each |
| `PurchaseLockProofs`, `SettlementLedgerProofs`, `ReconciliationProofs` | invariant and theorems of each |
| `WorkQueueProofs` | `ReportExport`, `ReceiptArchive`, `NotificationDelivery`, the three of them in `MCBackgroundWorker`, and `PdfWorker` |
| `OfficeProofs` | `AccountRegistry`, `BranchScope`, `SchemaMigrations`, `ProofIntake`, `WebSession`, `StaffAccess` |
| `FiniteSums` | lemmas on finite sets, least numbers and sums that the proofs cite |

`PaymentConfirmation` is implemented twice, by `VerificationPipeline` (transactions and receipts)
and by `SubscriptionCredits` (orders and payments, `credited` being the credit grants), through
`INSTANCE ... WITH` refinement mappings. `Reconciliation` composes snapshots with `SettlementLedger`
and implements `LedgerSpec`. Each component has a specification of its own (`Spec`, `LedgerSpec`,
`ExportSpec`, `AccessSpec`, ...); the proofs are about these. Components that share no variable
are put next to each other in an `MC` module, whose behaviours work on one of them and leave the
others in an initial state: since every property speaks of one component, this checks exactly the
component's own specification, in one run.

### VerificationPipeline

A transaction's life: `Submit`; a proof upload (`UploadLookup`, then `UploadPrepare` under the
row locks) charges one credit and reserves attempt 0; its outcome (`InitialOutcome`, whose caller
is not in the source and is external) is final or PENDING; PENDING schedules recheck 1; a worker
takes it through `processNext`, one action per awaited call:

    Claim -> Lookup -> Resolve -> Bind -> ReadWorkItem -> Reserve -> MarkSent
      -> ProviderAnswers -> SaveResponse -> Persist -> CompleteClaim
                                       \-> DeferClaim, or RaiseAlert -> PauseClaim

A step that throws goes to `threw`, where `TickFails` is the runner's catch; the claim stays until
its lease lapses (`LeaseExpires`) and another `Claim` takes the row over. `Crash` ends a worker at
any place. `RecordOutcome` is the whole transaction of record/post: attempt, status, next recheck,
confirmation and ledger entry. The database's unique indexes are guards (`IdFree`, `idOk` in
`SaveResponse`). Provider payloads are reduced to the answers the code tells apart: PENDING,
FAILED, VERIFIED, MISMATCH (verified, but of another amount, account or time), RETRY and STOP
errors. A recheck's due time is abstracted: a SCHEDULED row may be claimed at any moment.

### SubscriptionCredits

The three operations of an order (`Create`, `AddProof`, `Verify`) and what else moves the branch's
credits (`ServeCustomer`, `ExpireDue`). A verify call is two transactions around the provider call:
`PrepareAgain`, `PrepareCharged`, `PrepareDeferred` or `PrepareThrows`; `ProviderAnswers`; then
`RecordNothing` (the replay, or an exception), `RecordFailed`, `RecordDuplicate` or `Activate`. Calls
overlap freely. `Activate` is the whole transaction: statuses, lot, wallet, grant event, settlement
of the deferred credit and threshold alerts. The clock ticks, so a lot may lapse before `ExpireDue`
sweeps it.

### PurchaseLock

A reuse attempt is two actions, `Count` (the advisory lock is taken, earlier attempts are counted,
the lock of the business is read) and `Record` (its transaction commits: flag, alert and, at the
threshold, the purchase lock), or `RollBack`. Between them `Issue`, `Revoke` and `Redeem`, which
take no advisory lock, may commit. `now()` in an attempt is taken to be when it counts. The new
purchase that reads the lock is not part of this module.

### SettlementLedger

A manual operation is `Ask` (the projection its author is shown; `form` remembers account and balance),
`LockScope` (the transaction reads the account `FOR UPDATE`; `scope` remembers what it read) and one of
`CreateDeposit`, `CreateWithdrawal`, `CreateCorrection`, `ApproveReversal`, which make the checks of
the code and commit everything, or `EndWithin`: a replay, a refusal or a failure. Other transactions
run between lock and commit; what serialises those of one account is `MayLock`, and a mutant
without it overdraws. The same request may ask and lock again until it is posted, and lock again
after it, which is the client that repeats a key. `PostVerified` is the posting of a verified payment;
when it happens is `VerificationPipeline`'s subject. `OpenAccount` and `Deactivate` are the owner's.

### Reconciliation

`CreateDraft` is the whole of `createWithin`: totals, number, the SUPERSEDED status of the last
returned snapshot with its history, the new row with its own. `Submit` and `Decide` are
`submitWithin` and `decideWithin`, `CorrectWithEvidence` the correction with its evidence. Entries are
dated in days, a day being the period between two closes. Whatever a draft sums, it sums from
entries; the difference to the bank is fixed in it.

### WorkLeases, ReportExport, ReceiptArchive, NotificationDelivery

The three runners of the worker process poll, claim a row under a fresh token with `FOR UPDATE SKIP
LOCKED`, work on it and end the claim with an UPDATE that names the token. `Claimable`, `Claim`,
`Released` and `Holds` are those statements; a worker holds one claim at a time, so its name is the
token. A lease lapses at any moment while its worker goes on, and `Stop...` ends a claim with its
process. One action per awaited call:

    export:  ClaimExport -> Generate -> Store -> Complete | CompleteFails | CompleteUnacknowledged
                 -> Undo (deleteObject) -> Fail;   ClaimExpired -> DeleteExpired
    archive: claim, pack, store, read back, record the batch and the deletions, end the job;
             delete a source, or put its deletion off
    push:    ClaimPush -> Send -> Deliver | DeliverFails -> FailPush

An object of the storage is what was put under its key last. All attempts of an export share one key
(the finding `ExportIsStored`); each package of the archive has a fresh one. `CompleteUnacknowledged`
is the commit whose answer is lost. Devices and preferences change between claim and send.

### PdfWorker

`Run` starts the thread with the first file and posts to it; `Boot` and `Handle` are the thread, which
may also hang or die at any point; `ReadReady` and `ReadAnswer` are its messages in the order sent;
`StartupTimeout` and `JobTimeout` the two timers, `PostFails` a message that cannot be posted. Any of
them but an answer disables decoding for the process. What the thread replies is the constant `Replies`:
`pdf-qr-worker.mjs` answers with a decoding or an error, and the client also reads messages that are no
answer ("malformed") and decodings whose candidates it refuses ("invalid"). The latter take their
call out of the map before they are refused (`CallTakenOut`), so the call is neither pending nor settled:
"forgotten".

### ProofIntake

An upload is `Inspect` (scan, decode, parse), `Put`, `CreateReceipt` (or its compensation
`DeleteObject`), `MatchReceipt` (decision, and the case of a mismatch, in one transaction),
`Prepare`; each call may fail, also after it took effect, and `Stop` ends the process between two. A
payload is, per field, what it says relative to the transaction: nothing, the same, another value, a
malformed one or two values; `ParsedStatus`, `Decision` and `Matches` are the parser and the matcher
over it. `Agrees` is the reference they are checked against. `Acknowledge` and `Resolve` are the
reviewers'.

### StaffAccess

Registration, review and status of one business, its branches, staff and everyone's sessions.
Logins and removals are split at the rows they wait for: `BeginSession` takes the user's advisory
lock and shares membership, role and business, `InsertSession` waits for the assignment and for
sessions others have updated, `CommitSession` ends it; `BeginRemoval` locks the branch and the
assignment and revokes what is committed, `CommitRemoval` waits for the shared role. `BreakDeadlock`
is PostgreSQL's abort when the two wait for each other. `Refresh` and `Rotate` are the look-up and the
compare-and-set of a refresh token.

### BranchScope

A request that writes is admitted on its token (`Ask...`, one action per operation), begins its
transaction by reading the post again (`Begin`, `Rechecked`) and inserts when it gets its lock
(`WriteRows`). A person may be removed and a business suspended in between. Each `Read...` answers
with the rows its service and DAO select; `answer` remembers which kind of query it was, since a summary
counts the purchase locks of the whole business and the audit list shows an administrator rows of
every kind. A verification of a subscription (`AskVerification`) leaves an invoice, a case of reuse or a
purchase lock. What an operation does to money is `SettlementLedger`'s.

### AccountRegistry, SchemaMigrations, WebSession

`AccountRegistry` has the two tables of accounts, their partial unique indexes and the trigger that
looks into the other table under an advisory lock on the fingerprint; an insert stays open until
its audit row is written. `SchemaMigrations` has deployments of different releases running `up`,
`down` and `status` under the session lock; a file and its row are one transaction, and a run may stop
anywhere. `WebSession` has tabs whose calls carry the cookies of the moment they were made and
change the cookies when their answer arrives, in any order or never; cookies and grants end by time.

## 3. The runs

| run | instance | shows |
| --- | --- | --- |
| `PipelineRace` | 1 transaction, 2 workers, 2 rechecks, 2 polls, 1 lapsed lease under a working worker, same and fresh poll ids | attempts one at a time; a PENDING transaction has its recheck; the stale worker does not change the row |
| `PipelineRecovery` | 2 transactions of one receipt, 2 uploads each, 1 crash, 1 suspension, 1 credit | one charge, one ledger entry, alerts before pauses; implements `PaymentConfirmation` |
| `CreditLifecycle` | 3 orders (two of one payment), 2 calls, plans of 4 and 1 credits, 2 ticks, 3 customers, 1 suspension | wallet and lots, one credit per order, one activation per payment, no credit spent after its expiry; implements `PaymentConfirmation` |
| `LedgerAndLocks` | 2 accounts opened with 0 or 2, 3 manual operations of 1 or 2, 1 verified payment; 4 attempts, threshold 2, window and code life of 1 tick, 2 codes, 2 owners, 3 ticks | running balances chain; nothing overdrawn or posted twice; operations start from the balance shown; one lock in force, codes and locks in step, the threshold locks, only a live code unlocks |
| `WorkQueues` | 2 workers per queue, 1 export, 2 receipts in 2 packages, 1 event and 1 device, 1 stopped process, lost acknowledgements | a ready export has its file; evidence is kept; a push goes to its recipient; claims are ended by their holder |
| `WorkDrains` | 2 workers, 1 job per queue, 1 stopped process; 3 PDFs and every kind of reply; 1 transaction with 2 racing uploads, 2 rechecks and 2 polls, the business suspended and activated | under fairness every job, decode and recheck ends, but for a recheck that a late upload strands and a decode whose own reply is invalid |
| `BackOffice` | 2 calls and 2 people per part (and the owner), 2 days, 2 snapshots, 2 numbers at 2 banks, 2 uploads and receipts, 3 migrations, 2 tabs, 2 businesses of 2 branches | the thirteen properties of the parts of the office |
| `LimitIsPreserved`, `AnsweredRelease`, `LapsedCredits`, `ExportIsStored`, `OpeningBalance` | the smallest instance each | one finding each, see section 6 |

**What the properties of `BackOffice` say.** `SnapshotFollowsAccount`: the opening balance of a new
snapshot and its totals by entry type give its calculated balance, so that an entry dated at the edge of
a period is counted once, and that is the account's balance as of its day, whatever is posted late or
meanwhile (up to the opening balance, see the findings). `OneWaiterSession`, `RemovalEndsSessions`,
`SessionsStartInForce`, `TokensAreSingleUse`, `BranchKeepsManager`: sessions and staff under concurrent
logins, removals and suspensions. `AccountsAreApart`: a number is in one table only.
`PreparedHasEvidence`, `FlaggedIsReviewed`: uploads and reviews. `RowsMatchSchema`: a file is in effect
exactly once if it has a row, and not at all otherwise. `PortalHasToken`: a browser admitted to a portal
holds a refresh token. `AuthorsWereInPost`: who may write in a branch. `ReadersStayInScope`: an answer stays in the business,
branch and role of the reader's token, except that a summary counts locks of the whole business and
an administrator reads submissions, fraud and the audit list of all.

**Bounds.** Rechecks are bounded by the code itself (3); the runs use 1 or 2, which has a first, a
middle and a last one where that matters. Two workers are enough for one to be stale while the
other owns the row, one stalled lease for the stale one to finish late. Two transactions and two
uploads make every pair that can collide on a receipt, a credit or an attempt. Three orders have a
pair with a common payment and one apart; a plan of 4 crosses the thresholds 75, 90 and 100 at
different credits and a plan of 1 all at once, in the grant itself when it settles its deferral. Four
attempts around a threshold of 2 reach it, pass it, and reach it again after a redemption; three ticks
with a window and a code life of one let attempts leave the window and codes expire. Three operations on
an account of 2 make a debit, its reversal and a second debit that no longer fits; two accounts show
that a key posts on one of them only. Two days and two snapshots have an entry before, in and after a
period, dated in any order, and a draft that replaces a returned one. Three attempts per job are the
code's own; two receipts in packages of one make two claims of a month overlap. `BatchSize` and `MaxDeletes`
are 100 and 10 in the code and smaller here. `MaxInFlight` bounds logins, refreshes and removals under way
to three at once in `BackOffice`, two of them calls, and `Callers` leaves the administrator out of those who
log in (no property speaks of the administrator's sessions but `TokensAreSingleUse`, which everybody
else's exercise). Its queries of a branch are asked only while no request is under way, which
hides nothing, because an answer depends on the rows alone. The other sizes of
tables (`MaxReceipts`, `MaxSignIns`, `MaxSessions`, all 2) let every pair of rows that
a property relates exist; `MaxRecords` is 3, for the verification of a proof of an order and the decision on a
submitted snapshot, and `ThirdIsAboutBoth` asks for a third row only about the second. The other `Max...` constants bound the environment only (crashes, stalls,
toggles, ticks, customers served, rollbacks); what they cut off are longer repetitions of events that
occur. The proofs have none of these limits.

`CHECK_DEADLOCK FALSE` in every cfg: the instances do stop, when every transaction or order is
final and the budgets of the environment are used up. `SYMMETRY` is used for safety only and over
sets whose members the constants do not tell apart (workers, calls, keys, accounts, people; not orders,
whose plans differ). In the runs of several components, sets of different components are given the same
model values, which TLC then permutes together: a behaviour uses one component, so this is sound. In
`BackOffice`, `{c1, c2}` are the calls, requests, deployments, tabs and businesses, `{s1, s2}` the staff,
users, persons and account numbers.

**Fairness.** Pipeline: `WF(WorkerStep(w))`, a worker process keeps running, and a provider call ends
by its timeout; `WF(~AtWork /\ LeaseExpires)`, the clock passes an abandoned lease; `SF` of claiming a
row, by any worker: the timer polls for ever, and `claimNext` takes the oldest due row first, so a
row that is due again and again is not passed over for ever; weak fairness would not do, because
a row is not continuously claimable. Nothing is assumed of uploads, of what the provider answers,
of credits or of activations. The recheck part of `WorkDrains` assumes no crash, no lapsed lease under a
working worker and poll answers with fresh ids: the finding `AnsweredRelease` is what goes wrong
otherwise, and a repeated id loses its poll (see the hazards). `EveryRecheckSettles` covers rechecks below
the limit, since `LimitIsPreserved` is the last one, and excepts one more case, which occurs in the run:
`Stranded`, a transaction that a late upload moved to PAUSED_BRANCH while its recheck was under way (section 6).
Neither `prepare(RECHECK)` nor an outcome but FAILED is accepted then, every step of the worker may throw, and
the row may stay CLAIMED for ever without a crash or a stall. Queues: `WF` of each worker's step, of lapsing and of becoming due:
the runners poll by `setInterval` and the clock passes. Nothing is assumed of users, and the
properties name what may lawfully stay: a job whose third worker stopped, a push nobody can get.
PDF: `WF` of the two timers only, nothing of the thread, which also posts messages that are no answer and
invalid candidates there; `LeftUnanswered` excepts the one call whose own candidates ended all decoding, which
is never settled (section 6), and asks that no other call is left. The other components make no liveness
claim: every operation of theirs is a request of a person or a command.

## 4. What is proved

All proofs assume only the named assumptions of the modules: the limits are positive, the constant
functions are total, the model values that stand for SQL NULL (`None`, `Nowhere`, `Missing`) are no
ordinary values (nor, in `ReportExport`, a stored report), and the sets of attempts (`PurchaseLock`) and
of orders (`SubscriptionCredits`), whose rows are counted and summed, are finite. The pattern is the
same throughout: an inductive invariant that holds the property and what it rests on, one lemma per
action or kind of step, a temporal theorem by `PTL`, and the property as its consequence.

**Pipeline.** `IInv` is the conjunction of the type invariant, the properties and three facts that
make them inductive: `AttemptChain` (only the last attempt of a transaction may be anything but
PENDING) and `RowChain` (a recheck stands on pending attempts only), without which an outcome could
be recorded between two others; and `JobInv` (what a worker knows at each place: the row it works
on exists, at `recorded` its attempt is answered, on its way to a provider pause an alert exists).
`StepEffects` shows that every step has one of four effects on the payment tables: reserve an
attempt, record an outcome, update one row of rechecks, or none; each conjunct is then proved for
four cases. From `IInv` follow `OneOpenAttempt`, `SchedulesFollowPending`, `CreditedOnce`,
`ChargedOnce`, `PendingHasRecheck`, `CompletedWasAnswered`, `StoppedWorkAlerted`, the action properties
`AnswersAreImmutable` and `LeaseFencing`, and `PipelineConfirms`, the refinement.

**Credits.** `IInv` adds to the type invariant `OrderShape` (credit decision and verification row appear
together, grants follow the status), `LotShape` (a lot is inserted whole, only the sweep expires
credits) and `WalletBalanced` (the CHECK of the wallet). From it follow `OrderPaysOnce`,
`VerifiedIsGranted`, `AlertsFollowUsage`, `CreditsSpentInForce` and the refinement `CreditsActivation`.
`CreditsWalletMatchesLots` rests on it too: each operation changes one term of the sums (`OneLot`:
consuming, expiring and granting write one lot; `OnePaid`: one order is charged or settled), and adds
the same difference to the wallet.

**Purchase lock.** `LockInv` holds the properties together with `Serial` (who holds the advisory
lock, and that rows appear at the commit) and `CodesHaveLocks`. `LockAtThreshold` is a counting
argument: in every set of started attempts that lie in one window, one has a number of at least
the size of the set (`Numbered`). The attempt that counts now is the only one not recorded, so all
others of such a set are among those it counts; an attempt with a number at the threshold made a
lock or saw one (`ReachedLocks`).

**Ledger.** `LedgerInv` adds three groups to the type invariant. `LockInv`: a request that holds a row
has read its present balance (`HoldersReadBalance`), and no two hold one (`OneHolder`), so what is
compared at the commit is what was locked. `MoneyInv`: `BalancesChain`, `NeverOverdrawn`, `PostedAsShown`
and that accounts are opened before they are posted to. `EntryInv`: `PostedOnce`, and
`ReversalsPointBack`, from which `ReversedOnce` follows by counting. `StepPostsOrNot` shows that a step
posts one entry that fits (`Posting`) or leaves the books alone (`Bookless`); each group is proved for
these two cases.

**Reconciliation.** `ReconciliationKeepsLedger` shows that every step is a step of the ledger or
stutters on it, so the ledger's theorems hold here too. `SnapshotInv` holds the rows' shape, the histories
and that MATCHED means no difference; every step changes rows in one of three ways (`RowsChange`:
the same, drafted, moved along the workflow). `NumberInv` adds that numbers never exceed the
count of their account and day, without which a new draft might not be later than the one it
supersedes. `ReconciliationEvidence` uses the ledger's type theorem and that rows keep their account.
`ReconciliationFollowsAccount` needs that the running balance of an account's last entry is the sum of its
entries (`RunningIsSum`: the first entry at which it were not cannot exist, because `BalancesChain` links it to
the one before), and `DraftAddsUp`: the entries up to a day are those before the
period and those within it, and these fall into one class per entry type. `ReconciliationAddsUp` carries the
latter to every later state.
`ReconciliationTypeCorrect` uses the sums' lemmas for the numbers of a draft.

**Queues** (`WorkQueueProofs`). Common to the three: a row that is claimed has the status that says it
is worked on (of exports and archived months also conversely). *Exports*: `ExportInv` adds what a worker
knows at each place, and that no file is marked deleted before it was there; then a READY job has its
file although an insert may come from a worker whose claim lapsed. *Archive*: `ArchiveInv` follows the
worker's package (`ArchiversKnow`): it holds the worker's records and no record names it before its
commit, no two workers write one package (`OwnPackages`, the reason why keys are fresh), a source goes
only when its receipt has a record (`DeletedIsArchived`), and a record leads to its package or its
commit was unacknowledged (`ArchivedIsPacked`). `EvidenceKept` follows. *Push*: `PushInv` ties the
device a worker holds to the recipient of its row (`SendersKnowTheirRow`). `QueuesAreFenced` composes
the three invariants in the specification of the worker process.

**PDF client** (`WorkQueueProofs`). `PdfInv` has three parts. `TimersCoverCalls`: while the worker
starts, its own timer covers every call, afterwards exactly the pending calls have one, and without a worker
nothing is pending. `ReadinessIsFirst`: the thread's first message is its readiness, and there is no
other. `CallsAreInFlight`: the file of a pending call, and of no other, is posted or answered, never both
and never twice. It holds for all replies. From it follow `AnswersMeetCalls`: `handleMessage` disables decoding
at an answer whose call is gone, and the theorem shows that there is no such answer, because whatever
ends a call otherwise ends the thread too; and `PendingIsTimed`, the safety half of `EveryDecodeSettles`,
which assumes that the thread's candidates are valid, as those of `pdf-qr-worker.mjs` are.

**Sums** (`FiniteSums`). `SumFunctionOnSet` takes the elements of a set in an order of its own choice, and an
induction over the set would need a theorem with an operator parameter. The lemmas use a smallest
counterexample instead: strict inclusion of finite sets is well-founded (a fact of the library), so a
set of finite sets has a smallest member (`SmallestSet`). From it follow that a sum is the sum without one
element plus that element's term (`SumWithout`), that changing one term changes the sum by as much
(`SumChanges`), and that the sum over a partition is the sum of the sums (`SumOfPieces`, `SumOfClasses`), and so is a sum of terms that are themselves the sum of two
(`SumOfSums`).

**What the findings leave standing.** A refuted statement is more useful with its limits, so each finding has a
theorem that says where it ends.
- `NothingPendsAtTheLimit` (finding 1): no attempt at the limit ever records PENDING, by whichever worker and
  for every limit; the document's promise is kept in no behaviour, not only in the one TLC shows.
- `OrphansAreNeverCompleted` (2): a recheck that is answered, not completed, and whose worker has stopped stays
  so in every step, and its answer is not written over. Its claim can still end, by a deferral or a pause of a
  later worker, when the provider answers that one with an error; a deferred one is claimed again.
- `ThrowsOnLapsedLots` (3): a preparation throws only while a lot whose period is over still holds
  credits. It rests on `CreditsAreInLots` (a wallet all of whose lots are spent is empty) and on
  `EndedLotsAreSpent` (a lot that was swept or used up holds nothing).
- `ReconciliationFollowsAccount` (4): apart from the opening balance of the account no amount is missing.
- `ExportsAreStoredInTime` (5): as long as no worker outlives its lease and no answer to a commit is lost,
  every downloadable export has its object (`StoredInv`: a worker holds what it works on and has stored what
  it is about to record). `ArchivedIsRetrievable` is the like for the archive: only the lost
  answer costs evidence there, and lapsed leases do not, since its keys are fresh.

The two exceptions of the liveness properties have theirs. `PipelineChargedOnce`: a late upload may pause the
transaction, but never charges it again. `OneCallIsForgotten`: for every thread, once decoding has ended no call
is left in the map, and at most one was taken out of it without an answer.

**Office** (`OfficeProofs`). *Accounts*: `RegistryInv` adds to `AccountsAreApart` what open inserts
know: their number is in no table (`OpenNumbersAreNew`), they are apart from each other (`OpenAreApart`,
by the advisory lock and the index waits) and from the rows of their table (`OpenDoNotCollide`).
*Scope*: `ScopeInv` carries the facts of a request from its admission (`AdmittedInBranch`) to its
transaction (`BegunInPost`), so that the row it writes inherits them; posts change only by ending.
*Migrations*: `MigrationInv` has that one run is past the lock (`OneRun`) and that its view of the rows
is current (`VerifiedIsCurrent`), without which `up` could execute a file twice. *Evidence*:
`EvidenceInv` ties an upload's step to what exists by then (`UploadsAreBacked`), with slots of their own
(`OwnSlots`), so that a compensation deletes no other upload's object (`DecisionsAreBacked`);
`MatchedAgrees` is the lemma on parser and matcher. *Review*: `ReviewInv` equates the history with the
status, case by case. *Browser*: `WebInv` has that every answer under way that sets a role brings a
token (`AnswersBringTokens`). *Staff*: `AccessInv` says what a login (`CallsKnow`) and a removal
(`RemovalsKnow`) under way may count on because of the rows they hold: the context a login shares is in
force until it ends, and a removal has seen every active session of its person. Logins of one person
(`LoginsTakeTurns`, the administrator's apart) and removals in one branch (`RemovalsTakeTurns`) exclude
each other; without the first a waiter gets two sessions, without the second a branch loses both its
managers. `SpentAreBehind` has that an accepted refresh token is behind the one its session holds.

**Only model-checked.** Liveness (`EveryJobEnds`, `EveryDecodeSettles`, `EveryRecheckSettles`) is out of
the prover's reach, as is `ENABLED`; and the five refuted statements are refuted by TLC's behaviours. Every
invariant and every safety property of the passing runs is stated by a theorem.

Some theorems state properties that no run lists any more, because another run's property is deeper
(`SchedulesFollowPending`, `CompletedWasAnswered`, `AnswersAreImmutable`, `AlertsFollowUsage`,
`LockIsReviewable`, `ReversedOnce`, `HistoryIsWorkflow`, `SnapshotsAreImmutable`, `SupersededIsReplaced`,
`CorrectionsCiteTheirAccount`, `CategoriesAddUp`): they hold for every instance.
The type invariants of all modules are proved too (`PipelineTypeCorrect`, `LedgerTypeCorrect`, ...), and the
inductive invariants under the names the text above gives; PROJECT.json lists the results to begin with.

## 5. Abstractions to know of

Request replays that change nothing (idempotency keys of create, upload, issue) are left out, as
are audit rows, notifications and payloads. Transactions are atomic where the rows they read are
locked; where the code reads without a lock before it writes, the read is an action of its own
(`UploadLookup`, `Lookup`, `Count`). Row-lock deadlocks inside a transaction are aborts by
PostgreSQL and so steps without effect. `CompletedIds` is a choice among all ids the lateral join
may fall back to. In the pipeline the business's credits are a number; their lots are in
`SubscriptionCredits`, where in turn a customer's transaction is one step (`ServeCustomer`).

In the ledger the details of a request (kind, amount, date) are chosen at its commit, since nothing
before depends on them; only account and shown balance are remembered. The projection the client sends
differs from the shown balance by the amount, so one comparison stands for the two of the code. A key
reused with other details is refused by `assertReplay` and ends like any refusal. A verified payment
reads and commits in one step: its row lock lets nothing between. Roles (they are `BranchScope`'s),
notifications, accounts of the main business, the explanation of a difference and the clock are left
out: an operation may be dated in any of the days. OPENING_BALANCE is no type of entry here, because
nothing in the source posts one, and no row becomes ARCHIVED.

`StaffAccess` has one business, and a person has one post in it; `BranchScope` has several businesses but
posts that only end. A revoked session forgets its token, passwords always match, and the account
lock-out is left out. In `ProofIntake` amount, date and time are one field, as the code treats them alike, and
files are scanned clean, infected or not at all. `ReportExport` keeps of a report which rows were in
its scope. In `WebSession` the access token is a session's name that the backend accepts while the
session lives; its fifteen minutes end by `AccessExpires`. Audit rows are written in the transactions of the
modelled operations and read by nothing but the audit list (`AuditOf`), which is modelled as the
operations it tells of, for a branch, a business or, to an administrator, all businesses. In `BranchScope` a
submission stands for its verification attempts and its review case, and
a lock keeps the site of the verification that made it, although its row names the business only:
`Wide` drops the branch where the queries do.

## 6. Findings

1. `LimitIsPreserved`: the PENDING answer of the last recheck cannot be recorded, because the worker
   passes `nextRecheckAt` for every PENDING answer; the document promises that PENDING is preserved.
2. `AnsweredRelease`: a worker that stops between the committed outcome and `completeClaim` leaves
   a recheck that is reclaimed, asked and refused again, with nothing to end this but an error of the
   provider, which defers or pauses it; it is never completed.
3. `LapsedCredits`: a wallet that counts only credits of lapsed lots can neither be charged nor
   deferred, so the branch cannot verify its renewal until the sweep runs; nothing in the source
   runs the sweep.
4. `OpeningBalance`: a reconciliation sums ledger entries, and the opening balance of an account is
   none, so every snapshot misses it: a bank balance that agrees with the account's own calculated
   balance is recorded as a DISCREPANCY. `ReconciliationFollowsAccount` proves that there is no other gap.
5. `ExportIsStored`: all attempts of an export store under one key, and a worker whose lease lapsed
   deletes that object when its own commit fails, although its successor's file is READY.

Two divergences have no run of their own; they are the exceptions of `EveryRecheckSettles` and
`EveryDecodeSettles`, which TLC refutes without them.
- `Stranded`: an upload that looked for the attempt before another one reserved it goes through eligibility once
  more and, when the branch was suspended meanwhile, moves the prepared transaction to PAUSED_BRANCH, although
  docs/PHASE-3-VERIFICATIONS-VALIDATION.md:85 says that a replay bypasses status mutation. A recheck under way
  can then neither record its outcome nor be prepared again.
- `LeftUnanswered`: a reply whose candidates are invalid ends all decoding, but its own call has left the map by
  then and is neither resolved nor rejected, although docs/PHASE-3-VALIDATION.md:253 says that every queued
  request is rejected. Latent: the present `pdf-qr-worker.mjs` trims, bounds and counts its candidates.

Smaller divergences are in the models and described under the hazards: the summary of a branch counts
the purchase locks of its whole business; an expired recovery
code is replaced only after an administrator revoked it; a request of a person who is removed while it
waits for its lock still posts; a process that stops after a receipt's row leaves it without a
decision; the late answer to a refused refresh signs the browser out; a business that goes from
REGISTRATION by way of INACTIVE to ACTIVE never gets its owner activated; and no code of the V2 API
ever makes a branch ACTIVE, which submissions and purchases require.

## 7. Not modelled, and what could follow

Not modelled: the services of the legacy schema behind the facades; request limits; webhooks and
incidents of Verify.ET, which nothing applies to an attempt; lists and reports beyond their scope;
decoding of images; HTTP, configuration, metrics, health and cutover checks; the screens of the web
client and the Android shell, which keep no domain state. Deposit attachments are modelled as to who
may attach and read, not as to their storage, which repeats the pattern of a proof's.

What could follow: the purchase in `PurchaseLock`, whose read of the lock the attempt
does not wait for; a composition of `VerificationPipeline` with `SettlementLedger` at `PostVerified`.
