---------------------------- MODULE ReportExport ----------------------------
(***************************************************************************)
(* Report exports of a business.  An authorised user asks for a summary    *)
(* with an idempotency key; a worker leases the job, computes the summary, *)
(* stores it under a key made of the job's id alone and records the file,  *)
(* which is downloadable until it expires.                                 *)
(***************************************************************************)
EXTENDS WorkLeases

CONSTANTS
  Exports,   \* requesters with an idempotency key: the identity of a job
  Branches,  \* branches of the business
  Business,  \* scope of the whole business
  AckLost    \* whether the answer to a commit may be lost

ASSUME ScopesApart == Business \notin Branches /\ None \notin Exports
ASSUME AckLostAssumption == AckLost \in BOOLEAN

VARIABLES
  rows,        \* rows the two reports add up: report type and branch
  export,      \* report_generation_jobs
  exportLease, \* its lease
  file,        \* report_files, at most one for a job
  object,      \* what object storage holds under the job's key
  exporter,    \* the worker's call of processNext
  exportStops  \* claims that ended with their process

exportVars == <<rows, export, exportLease, file, object, exporter, exportStops>>

ReportTypes    == {"FINANCIAL_SUMMARY", "OPERATIONAL_SUMMARY"}
Scopes         == Branches \cup {Business}

\* A stored report is not NULL, whichever rows entered it.
ASSUME ReportIsNoNull == \A report \in SUBSET (ReportTypes \X Branches) : report # None

NoExport     == [status |-> "none", type |-> None, scope |-> None]
NoFile       == [body |-> None, past |-> FALSE, deleted |-> FALSE]
IdleExporter == [step |-> "idle", job |-> None, body |-> None]

ExportInit ==
  /\ rows        = {}
  /\ export      = [x \in Exports |-> NoExport]
  /\ exportLease = [x \in Exports |-> FreshLease]
  /\ file        = [x \in Exports |-> NoFile]
  /\ object      = [x \in Exports |-> None]
  /\ exporter    = [w \in Workers |-> IdleExporter]
  /\ exportStops = 0
-----------------------------------------------------------------------------
(* What the reports add up.                                                *)

\* A ledger entry or a verification attempt is written.
PostRow(t, b) ==
  /\ <<t, b>> \notin rows
  /\ rows' = rows \cup {<<t, b>>}
  /\ UNCHANGED <<export, exportLease, file, object, exporter, exportStops>>

InScope(s) == IF s = Business THEN Branches ELSE {s}

\* The figures of a report are the rows that enter them.
FinancialSummary(s)   == {r \in rows : r[1] = "FINANCIAL_SUMMARY" /\ r[2] \in InScope(s)}
OperationalSummary(s) == {r \in rows : r[1] = "OPERATIONAL_SUMMARY" /\ r[2] \in InScope(s)}

Report(x) == IF export[x].type = "FINANCIAL_SUMMARY"
             THEN FinancialSummary(export[x].scope) ELSE OperationalSummary(export[x].scope)
-----------------------------------------------------------------------------
(* The requester's side: ReportExportService.                              *)

\* A selected branch cannot be overridden; managers and cashiers need one.
AuthorizedScopes(role, branch) ==
  IF branch # Business THEN {branch}
  ELSE IF role \in {"MANAGER", "CASHIER"} THEN {} ELSE Scopes

\* create: the row of a new key; a repeated key finds its row and changes nothing.
RequestExport(x, role, branch, t, s) ==
  /\ s \in AuthorizedScopes(role, branch)
  /\ export[x].status = "none"
  /\ export' = [export EXCEPT ![x] = [status |-> "QUEUED", type |-> t, scope |-> s]]
  /\ UNCHANGED <<rows, exportLease, file, object, exporter, exportStops>>

Downloadable(x) ==
  /\ export[x].status = "READY"
  /\ file[x].body # None /\ ~file[x].deleted /\ ~file[x].past
-----------------------------------------------------------------------------
(* The worker: ReportExportWorker.processNext and ReportExportDao.         *)

Goes(w, step) == exporter' = [exporter EXCEPT ![w].step = step]
Rests(w)      == exporter' = [exporter EXCEPT ![w] = IdleExporter]

Expirable(x) == file[x].body # None /\ file[x].past /\ ~file[x].deleted

\* claimExpired, before any job is claimed.
ClaimExpired(w, x) ==
  /\ exporter[w].step = "idle" /\ Expirable(x)
  /\ file'     = [file EXCEPT ![x].deleted = TRUE]
  /\ export'   = [export EXCEPT ![x].status = IF @ = "READY" THEN "EXPIRED" ELSE @]
  /\ exporter' = [exporter EXCEPT ![w] = [step |-> "expire", job |-> x, body |-> None]]
  /\ UNCHANGED <<rows, exportLease, object, exportStops>>

\* The object is deleted; an error is only logged.
DeleteExpired(w) ==
  /\ exporter[w].step = "expire"
  /\ object' \in {object, [object EXCEPT ![exporter[w].job] = None]}
  /\ Rests(w)
  /\ UNCHANGED <<rows, export, exportLease, file, exportStops>>

ExportClaimable(x) == Claimable(exportLease[x], export[x].status = "QUEUED",
                                export[x].status = "PROCESSING")

\* claimNext; the order of the queue is left out.
ClaimExport(w, x) ==
  /\ exporter[w].step = "idle" /\ ~ \E y \in Exports : Expirable(y)
  /\ ExportClaimable(x)
  /\ export'      = [export EXCEPT ![x].status = "PROCESSING"]
  /\ exportLease' = [exportLease EXCEPT ![x] = Claim(@, w)]
  /\ exporter'    = [exporter EXCEPT ![w] = [step |-> "generate", job |-> x, body |-> None]]
  /\ UNCHANGED <<rows, file, object, exportStops>>

\* The summary is computed, or its query fails before there is an object key.
Generate(w) ==
  /\ exporter[w].step = "generate"
  /\ \/ exporter' = [exporter EXCEPT ![w].step = "store",
                                     ![w].body = Report(exporter[w].job)]
     \/ Goes(w, "fail")
  /\ UNCHANGED <<rows, export, exportLease, file, object, exportStops>>

\* putObject overwrites; one that fails may have stored the object or not.
Store(w) ==
  /\ exporter[w].step = "store"
  /\ LET stored == [object EXCEPT ![exporter[w].job] = exporter[w].body] IN
     \/ object' = stored /\ Goes(w, "complete")
     \/ object' \in {object, stored} /\ Goes(w, "undo")
  /\ UNCHANGED <<rows, export, exportLease, file, exportStops>>

\* Mutant: the row is there already and is written again.
AnyFile(x) == TRUE

\* report_files.job_id is unique.
FirstFile(x) == file[x].body = None

\* complete: the file's row is inserted even when the job went to another worker, because the
\* count of the token's UPDATE is not looked at.
Completed(w, x) ==
  /\ FirstFile(x)
  /\ file' = [file EXCEPT ![x].body = exporter[w].body]
  /\ IF Holds(exportLease[x], w)
     THEN /\ export' = [export EXCEPT ![x].status = "READY"]
          /\ exportLease' = [exportLease EXCEPT ![x].token = None, ![x].lapsed = FALSE]
     ELSE UNCHANGED <<export, exportLease>>

Complete(w) ==
  /\ exporter[w].step = "complete"
  /\ Completed(w, exporter[w].job) /\ Rests(w)
  /\ UNCHANGED <<rows, object, exportStops>>

\* The file's row exists, or the transaction fails for another reason.
CompleteFails(w) ==
  /\ exporter[w].step = "complete" /\ Goes(w, "undo")
  /\ UNCHANGED <<rows, export, exportLease, file, object, exportStops>>

\* It commits, and the connection breaks before the worker knows.
CompleteUnacknowledged(w) ==
  /\ AckLost /\ exporter[w].step = "complete"
  /\ Completed(w, exporter[w].job) /\ Goes(w, "undo")
  /\ UNCHANGED <<rows, object, exportStops>>

\* The catch deletes whatever is stored under the job's key; an error is dropped.
Undo(w) ==
  /\ exporter[w].step = "undo" /\ Goes(w, "fail")
  /\ object' \in {object, [object EXCEPT ![exporter[w].job] = None]}
  /\ UNCHANGED <<rows, export, exportLease, file, exportStops>>

\* fail: back to the queue, or FAILED after the third attempt.
Fail(w) ==
  /\ exporter[w].step = "fail" /\ Rests(w)
  /\ LET x == exporter[w].job IN
     IF Holds(exportLease[x], w)
     THEN /\ exportLease' = [exportLease EXCEPT ![x] = Released(@)]
          /\ export' = [export EXCEPT ![x].status =
                          IF exportLease[x].attempts >= MaxAttempts THEN "FAILED" ELSE "QUEUED"]
     ELSE UNCHANGED <<export, exportLease>>
  /\ UNCHANGED <<rows, file, object, exportStops>>

ExporterStep(w) ==
  \/ \E x \in Exports : ClaimExpired(w, x) \/ ClaimExport(w, x)
  \/ DeleteExpired(w) \/ Generate(w) \/ Store(w) \/ Complete(w) \/ CompleteFails(w)
  \/ CompleteUnacknowledged(w) \/ Undo(w) \/ Fail(w)

\* The process ends, or a call nobody catches throws: the claim stays as it is.
StopExporter(w) ==
  /\ exporter[w].step # "idle" /\ exportStops < MaxStops
  /\ exportStops' = exportStops + 1 /\ Rests(w)
  /\ UNCHANGED <<rows, export, exportLease, file, object>>
-----------------------------------------------------------------------------
(* Time.                                                                   *)

\* Five minutes pass since the claim.
LapseExport(x) ==
  /\ export[x].status = "PROCESSING" /\ ~exportLease[x].lapsed
  /\ exportLease' = [exportLease EXCEPT ![x].lapsed = TRUE]
  /\ UNCHANGED <<rows, export, file, object, exporter, exportStops>>

\* next_attempt_at is reached.
RetryExport(x) ==
  /\ export[x].status = "QUEUED" /\ ~exportLease[x].due
  /\ exportLease' = [exportLease EXCEPT ![x].due = TRUE]
  /\ UNCHANGED <<rows, export, file, object, exporter, exportStops>>

\* Thirty days pass.
FilePasses(x) ==
  /\ file[x].body # None /\ ~file[x].past
  /\ file' = [file EXCEPT ![x].past = TRUE]
  /\ UNCHANGED <<rows, export, exportLease, object, exporter, exportStops>>

ExportNext ==
  \/ \E t \in ReportTypes, b \in Branches : PostRow(t, b)
  \/ \E x \in Exports, role \in {"PRIMARY_OWNER", "MANAGER"}, branch \in Scopes,
        t \in ReportTypes, s \in Scopes : RequestExport(x, role, branch, t, s)
  \/ \E w \in Workers : ExporterStep(w) \/ StopExporter(w)
  \/ \E x \in Exports : LapseExport(x) \/ RetryExport(x) \/ FilePasses(x)

\* The runner polls; leases lapse and backoffs pass with the clock.
ExportFairness ==
  /\ \A w \in Workers : WF_exportVars(ExporterStep(w))
  /\ \A x \in Exports : WF_exportVars(LapseExport(x)) /\ WF_exportVars(RetryExport(x))

ExportSpec == ExportInit /\ [][ExportNext]_exportVars /\ ExportFairness
-----------------------------------------------------------------------------
\* A job that is READY has a file nobody expired, although stale workers insert files and files
\* expire under jobs that are still worked on (complete, claimExpired).
ReadyHasItsFile ==
  \A x \in Exports : export[x].status = "READY" => file[x].body # None /\ ~file[x].deleted

\* The claim of a job ends by a step of its worker, or is taken over once its lease lapsed; an
\* ended job only expires (complete, fail, claimExpired).
ExportFenced ==
  \A x \in Exports :
    /\ exportLease[x].token \notin {None, exportLease'[x].token} =>
         \/ exportLease[x].lapsed
         \/ exporter[exportLease[x].token].job = x
            /\ exporter'[exportLease[x].token] # exporter[exportLease[x].token]
    /\ export[x].status \in {"READY", "FAILED", "EXPIRED"} =>
         export'[x].status \in {export[x].status, "EXPIRED"}

ExportAbandoned(x) ==
  /\ export[x].status = "PROCESSING" /\ exportLease[x].attempts = MaxAttempts
  /\ exporter[exportLease[x].token].job # x

\* A requested export is ready or failed in the end, unless its third worker stopped
\* (ReportExportWorkerRunner).
EveryExportEnds ==
  \A x \in Exports : export[x].status = "QUEUED" ~>
    export[x].status \in {"READY", "FAILED", "EXPIRED"} \/ ExportAbandoned(x)

\* What a requester may download is in storage, as the file's row describes it.
ExportIsStored == \A x \in Exports : Downloadable(x) => object[x] = file[x].body
=============================================================================
