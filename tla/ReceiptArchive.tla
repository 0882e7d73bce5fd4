--------------------------- MODULE ReceiptArchive ---------------------------
(***************************************************************************)
(* The archive of receipt evidence.  A worker leases the job of a month,   *)
(* packs the receipts older than a year, stores the encrypted package      *)
(* under a fresh key, reads it back and records the batch; after that, and *)
(* on a retry schedule of its own, the source objects are deleted.         *)
(***************************************************************************)
EXTENDS WorkLeases

CONSTANTS
  Receipts,   \* transaction_receipts
  Months,     \* bound: months that begin
  MaxBatches, \* bound: packages that are stored
  BatchSize,  \* receipts a package takes at most: 100 in the code
  MaxDeletes, \* attempts at deleting a source: 10 in the code
  CommitLost  \* whether the answer to a commit may be lost

ASSUME ArchiveNumbers == Months \in Nat \ {0} /\ MaxBatches \in Nat /\ BatchSize \in Nat \ {0}
                         /\ MaxDeletes \in Nat \ {0}
ASSUME CommitLostAssumption == CommitLost \in BOOLEAN

VARIABLES
  month,        \* the month of the clock
  old,          \* receipts older than a year
  archiveJob,   \* archive_jobs by month: status
  archiveLease, \* their leases
  record,       \* archive_batch_records: the batch of a receipt
  deletion,     \* archive_source_deletions of a receipt
  source,       \* receipts whose evidence is still in storage
  package,      \* what storage holds under a package's key: receipts, or nothing
  unsure,       \* packages whose commit was not acknowledged
  archiver,     \* the worker's call of processNext
  archiveStops  \* claims that ended with their process

archiveVars == <<month, old, archiveJob, archiveLease, record, deletion, source, package,
                 unsure, archiver, archiveStops>>

Batches         == 1..MaxBatches
NoDeletion      == [status |-> "none", attempts |-> 0, due |-> FALSE]
IdleArchiver    == [step |-> "idle", month |-> 0, records |-> {}, batch |-> 0, receipt |-> None]

\* archived_at is set in the transaction that writes the record.
Archived == {r \in Receipts : record[r] # 0}

ArchiveInit ==
  /\ month        = 1
  /\ old          = {}
  /\ archiveJob   = [m \in 1..Months |-> "none"]
  /\ archiveLease = [m \in 1..Months |-> FreshLease]
  /\ record       = [r \in Receipts |-> 0]
  /\ deletion     = [r \in Receipts |-> NoDeletion]
  /\ source       = Receipts
  /\ package      = [b \in Batches |-> {}]
  /\ unsure       = {}
  /\ archiver     = [w \in Workers |-> IdleArchiver]
  /\ archiveStops = 0

ArchiverGoes(w, step) == archiver' = [archiver EXCEPT ![w].step = step]
ArchiverRests(w)      == archiver' = [archiver EXCEPT ![w] = IdleArchiver]
-----------------------------------------------------------------------------
(* Deleting the sources comes first in processNext.                        *)

Deletable(r) == deletion[r].status = "pending" /\ deletion[r].due
                /\ deletion[r].attempts < MaxDeletes

\* claimSourceDeletion: one more attempt, due again in five minutes; there is no token.
ClaimDeletion(w, r) ==
  /\ archiver[w].step = "idle" /\ Deletable(r)
  /\ deletion' = [deletion EXCEPT ![r].attempts = @ + 1, ![r].due = FALSE]
  /\ archiver' = [archiver EXCEPT ![w].step = "delete", ![w].receipt = r]
  /\ UNCHANGED <<month, old, archiveJob, archiveLease, record, source, package, unsure,
                 archiveStops>>

\* deleteObject, which may fail with or without effect: the failure is only noted on the row.
DeleteSource(w) ==
  /\ archiver[w].step = "delete"
  /\ \/ source' = source \ {archiver[w].receipt} /\ ArchiverGoes(w, "deleted")
     \/ source' \in {source, source \ {archiver[w].receipt}} /\ ArchiverRests(w)
  /\ UNCHANGED <<month, old, archiveJob, archiveLease, record, deletion, package, unsure,
                 archiveStops>>

\* markSourceDeleted, or markSourceDeleteFailed when it throws.
MarkDeleted(w) ==
  /\ archiver[w].step = "deleted" /\ ArchiverRests(w)
  /\ deletion' \in {deletion, [deletion EXCEPT ![archiver[w].receipt].status = "deleted"]}
  /\ UNCHANGED <<month, old, archiveJob, archiveLease, record, source, package, unsure,
                 archiveStops>>
-----------------------------------------------------------------------------
(* One batch.                                                              *)

NoDeletionDue == ~ \E r \in Receipts : Deletable(r)

ArchiveClaimable(m) == Claimable(archiveLease[m], archiveJob[m] = "QUEUED",
                                 archiveJob[m] = "RUNNING")

\* ensureCurrentJob: the month gets its job once.
EnsureJob(w) ==
  /\ archiver[w].step = "idle" /\ NoDeletionDue
  /\ archiveJob[month] = "none"
  /\ archiveJob' = [archiveJob EXCEPT ![month] = "QUEUED"]
  /\ UNCHANGED <<month, old, archiveLease, record, deletion, source, package, unsure, archiver,
                 archiveStops>>

\* claimNext takes the oldest month that no other claim has locked.
ClaimMonth(w, m) ==
  /\ archiver[w].step = "idle" /\ NoDeletionDue /\ archiveJob[month] # "none"
  /\ ArchiveClaimable(m) /\ \A n \in 1..(m - 1) : ~ArchiveClaimable(n)
  /\ archiveJob'   = [archiveJob EXCEPT ![m] = "RUNNING"]
  /\ archiveLease' = [archiveLease EXCEPT ![m] = Claim(@, w)]
  /\ archiver'     = [archiver EXCEPT ![w].step = "list", ![w].month = m]
  /\ UNCHANGED <<month, old, record, deletion, source, package, unsure, archiveStops>>

\* listEligible, of any month: old receipts without a record.
Eligible == old \ Archived

\* completeJob once nothing is left: the token guards it.
CompleteJob(w) ==
  /\ archiver[w].step = "list" /\ Eligible = {} /\ ArchiverRests(w)
  /\ LET m == archiver[w].month IN
     IF Holds(archiveLease[m], w)
     THEN /\ archiveJob'   = [archiveJob EXCEPT ![m] = "COMPLETED"]
          /\ archiveLease' = [archiveLease EXCEPT ![m] = FreshLease]
     ELSE UNCHANGED <<archiveJob, archiveLease>>
  /\ UNCHANGED <<month, old, record, deletion, source, package, unsure, archiveStops>>

\* The oldest receipts, up to the size of a package.
List(w, S) ==
  /\ archiver[w].step = "list" /\ S \subseteq Eligible
  /\ IF Cardinality(Eligible) <= BatchSize THEN S = Eligible ELSE Cardinality(S) = BatchSize
  /\ S # {}
  /\ archiver' = [archiver EXCEPT ![w].step = "pack", ![w].records = S]
  /\ UNCHANGED <<month, old, archiveJob, archiveLease, record, deletion, source, package,
                 unsure, archiveStops>>

\* package: every source object is read and its hash compared.
ReadsSources(S) == S \subseteq source

\* Mutant: the key does not tell packages apart.
OneKey == {1}

\* Keys are random: one that nothing refers to.
FreeKeys == {b \in Batches : /\ package[b] = {} /\ b \notin unsure
                             /\ \A r \in Receipts : record[r] # b
                             /\ \A w \in Workers : archiver[w].batch # b}

\* The package is stored under a fresh key and verified; an error before leaves nothing.
Pack(w) ==
  /\ archiver[w].step = "pack"
  /\ LET S == archiver[w].records IN
     \/ /\ ReadsSources(S) /\ FreeKeys # {}
        /\ LET b == CHOOSE b \in FreeKeys : \A c \in FreeKeys : b <= c IN
           /\ package' = [package EXCEPT ![b] = S \cap source]
           /\ \E step \in {"commit", "undo"} :
                archiver' = [archiver EXCEPT ![w].step = step, ![w].batch = b]
     \/ ArchiverGoes(w, "fail") /\ UNCHANGED package
  /\ UNCHANGED <<month, old, archiveJob, archiveLease, record, deletion, source, unsure,
                 archiveStops>>

\* The INSERT that selects the job by its token returns a row, or throws.
RecordsBatch(w) == Holds(archiveLease[archiver[w].month], w)
                   /\ archiveJob[archiver[w].month] = "RUNNING"

\* UNIQUE (source_type, source_record_id).
OnlyOnce(S) == S \cap Archived = {}

\* completeBatch: batch, records, archived_at and deletions; the job is queued again.
Recorded(w) ==
  LET m == archiver[w].month
      S == archiver[w].records IN
  /\ RecordsBatch(w) /\ OnlyOnce(S)
  /\ record'   = [r \in Receipts |-> IF r \in S THEN archiver[w].batch ELSE record[r]]
  /\ deletion' = [r \in Receipts |-> IF r \in S
                    THEN [status |-> "pending", attempts |-> 0, due |-> TRUE] ELSE deletion[r]]
  /\ archiveJob'   = [archiveJob EXCEPT ![m] = "QUEUED"]
  /\ archiveLease' = [archiveLease EXCEPT ![m] = FreshLease]

CompleteBatch(w) ==
  /\ archiver[w].step = "commit" /\ Recorded(w) /\ ArchiverRests(w)
  /\ UNCHANGED <<month, old, source, package, unsure, archiveStops>>

CompleteBatchFails(w) ==
  /\ archiver[w].step = "commit" /\ ArchiverGoes(w, "undo")
  /\ UNCHANGED <<month, old, archiveJob, archiveLease, record, deletion, source, package,
                 unsure, archiveStops>>

\* It commits and the connection breaks: the catch runs although the batch is recorded.
CompleteBatchUnacknowledged(w) ==
  /\ CommitLost /\ archiver[w].step = "commit"
  /\ Recorded(w) /\ ArchiverGoes(w, "undo")
  /\ unsure' = unsure \cup {archiver[w].batch}
  /\ UNCHANGED <<month, old, source, package, archiveStops>>

\* The catch deletes the package; an error is only logged.
UndoPackage(w) ==
  /\ archiver[w].step = "undo" /\ ArchiverGoes(w, "fail")
  /\ package' \in {package, [package EXCEPT ![archiver[w].batch] = {}]}
  /\ UNCHANGED <<month, old, archiveJob, archiveLease, record, deletion, source, unsure,
                 archiveStops>>

FailBatch(w) ==
  /\ archiver[w].step = "fail" /\ ArchiverRests(w)
  /\ LET m == archiver[w].month IN
     IF Holds(archiveLease[m], w)
     THEN /\ archiveLease' = [archiveLease EXCEPT ![m] = Released(@)]
          /\ archiveJob' = [archiveJob EXCEPT ![m] =
               IF archiveLease[m].attempts >= MaxAttempts THEN "FAILED" ELSE "QUEUED"]
     ELSE UNCHANGED <<archiveJob, archiveLease>>
  /\ UNCHANGED <<month, old, record, deletion, source, package, unsure, archiveStops>>

ArchiverStep(w) ==
  \/ \E r \in Receipts : ClaimDeletion(w, r)
  \/ DeleteSource(w) \/ MarkDeleted(w) \/ EnsureJob(w) \/ CompleteJob(w)
  \/ \E m \in 1..Months : ClaimMonth(w, m)
  \/ \E S \in SUBSET Receipts : List(w, S)
  \/ Pack(w) \/ CompleteBatch(w) \/ CompleteBatchFails(w) \/ CompleteBatchUnacknowledged(w)
  \/ UndoPackage(w) \/ FailBatch(w)

StopArchiver(w) ==
  /\ archiver[w].step # "idle" /\ archiveStops < MaxStops
  /\ archiveStops' = archiveStops + 1 /\ ArchiverRests(w)
  /\ UNCHANGED <<month, old, archiveJob, archiveLease, record, deletion, source, package, unsure>>
-----------------------------------------------------------------------------
(* Time.                                                                   *)

\* A receipt turns a year old.
Ages(r) ==
  /\ r \notin old /\ old' = old \cup {r}
  /\ UNCHANGED <<month, archiveJob, archiveLease, record, deletion, source, package, unsure,
                 archiver, archiveStops>>

MonthBegins ==
  /\ month < Months /\ month' = month + 1
  /\ UNCHANGED <<old, archiveJob, archiveLease, record, deletion, source, package, unsure,
                 archiver, archiveStops>>

\* Ten minutes since the claim, or the backoff of a failed batch, pass.
ArchiveTime(m) ==
  /\ \/ archiveJob[m] = "RUNNING" /\ ~archiveLease[m].lapsed
        /\ archiveLease' = [archiveLease EXCEPT ![m].lapsed = TRUE]
     \/ archiveJob[m] = "QUEUED" /\ ~archiveLease[m].due
        /\ archiveLease' = [archiveLease EXCEPT ![m].due = TRUE]
  /\ UNCHANGED <<month, old, archiveJob, record, deletion, source, package, unsure, archiver,
                 archiveStops>>

\* Five minutes pass since an attempt to delete.
DeletionDue(r) ==
  /\ deletion[r].status = "pending" /\ ~deletion[r].due
  /\ deletion' = [deletion EXCEPT ![r].due = TRUE]
  /\ UNCHANGED <<month, old, archiveJob, archiveLease, record, source, package, unsure,
                 archiver, archiveStops>>

ArchiveNext ==
  \/ \E w \in Workers : ArchiverStep(w) \/ StopArchiver(w)
  \/ \E r \in Receipts : Ages(r) \/ DeletionDue(r)
  \/ MonthBegins
  \/ \E m \in 1..Months : ArchiveTime(m)

ArchiveFairness ==
  /\ \A w \in Workers : WF_archiveVars(ArchiverStep(w))
  /\ \A m \in 1..Months : WF_archiveVars(ArchiveTime(m))
  /\ \A r \in Receipts : WF_archiveVars(DeletionDue(r))

ArchiveSpec == ArchiveInit /\ [][ArchiveNext]_archiveVars /\ ArchiveFairness
-----------------------------------------------------------------------------
\* ArchiveService.retrieve: the receipt's record leads to a package that holds its evidence.
Retrievable(r) == r \in Archived /\ r \in package[record[r]]

\* Evidence is never lost: it is still at its source, or an administrator can retrieve it, unless
\* the answer to the commit of its batch was lost and the catch deleted the package.
EvidenceKept ==
  \A r \in Receipts :
    r \in source \/ Retrievable(r) \/ (r \in Archived /\ record[r] \in unsure)

\* The claim of a month ends by a step of its worker, or is taken over once its lease lapsed;
\* a record is never changed (completeBatch, completeJob, fail).
ArchiveFenced ==
  /\ \A m \in 1..Months :
       archiveLease[m].token \notin {None, archiveLease'[m].token} =>
         \/ archiveLease[m].lapsed
         \/ archiver[archiveLease[m].token].month = m
            /\ archiver'[archiveLease[m].token] # archiver[archiveLease[m].token]
  /\ \A r \in Archived : record'[r] = record[r]

ArchiveAbandoned(m) ==
  /\ archiveJob[m] = "RUNNING" /\ archiveLease[m].attempts = MaxAttempts
  /\ archiver[archiveLease[m].token].month # m

\* No job is left to list the receipt before the next month begins.
NoJobLeft ==
  \A m \in 1..month : \/ archiveJob[m] \in {"COMPLETED", "FAILED"} \/ ArchiveAbandoned(m)
                      \/ archiveJob[m] = "none" /\ m < month

\* An old receipt is archived, or every job of the months so far has ended; a source that was
\* archived is deleted, or ten attempts were used up (ArchiveWorkerRunner).
EveryReceiptIsArchived ==
  \A r \in Receipts :
    /\ (r \in old ~> (r \in Archived \/ NoJobLeft))
    /\ (deletion[r].status = "pending" ~>
         (deletion[r].status = "deleted" \/ deletion[r].attempts = MaxDeletes))
=============================================================================
