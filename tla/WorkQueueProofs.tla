--------------------------- MODULE WorkQueueProofs ---------------------------
(***************************************************************************)
(* What TLAPS proves of the three queues of the worker process: what their *)
(* rows, files, packages and messages promise although leases lapse under  *)
(* working workers, processes stop and answers to commits are lost; what   *)
(* they promise when none of that happens; that claims are fenced, in each *)
(* queue and in the process that runs all; and that no call of the PDF     *)
(* worker gets the answer of another file, or waits without a timer unless *)
(* a reply with invalid candidates made the client forget it.              *)
(***************************************************************************)
EXTENDS MCBackgroundWorker, PdfWorker, FiniteSums, SequenceTheorems, TLAPS

-----------------------------------------------------------------------------
(* Report exports.                                                         *)

Reports == SUBSET (ReportTypes \X Branches)
Leases  == [attempts : Nat, token : Workers \cup {None}, due : BOOLEAN, lapsed : BOOLEAN]
Jobs    == [status : {"none", "QUEUED", "PROCESSING", "READY", "FAILED", "EXPIRED"},
            type : ReportTypes \cup {None}, scope : Scopes \cup {None}]
FileRows  == [body : Reports \cup {None}, past : BOOLEAN, deleted : BOOLEAN]
Exporting == [step : {"idle", "expire", "generate", "store", "complete", "undo", "fail"},
              job : Exports \cup {None}, body : Reports \cup {None}]

ExportTypeOK ==
  /\ rows \in Reports
  /\ export \in [Exports -> Jobs]
  /\ exportLease \in [Exports -> Leases]
  /\ file \in [Exports -> FileRows]
  /\ object \in [Exports -> Reports \cup {None}]
  /\ exporter \in [Workers -> Exporting]
  /\ exportStops \in Nat

\* A job has a claim exactly while it is worked on.
ExportsAreClaimed == \A x \in Exports : exportLease[x].token # None <=> export[x].status = "PROCESSING"

\* A worker that is not idle has a job, and from the storing on a report.
ExportersKnowTheirJob ==
  \A w \in Workers :
    /\ exporter[w].step # "idle" => exporter[w].job \in Exports
    /\ exporter[w].step \in {"store", "complete"} => exporter[w].body \in Reports

\* Only a file that exists expires.
DeletedFilesExist == \A x \in Exports : file[x].deleted => file[x].body # None

ExportInv ==
  ExportTypeOK /\ ExportsAreClaimed /\ ExportersKnowTheirJob /\ DeletedFilesExist /\ ReadyHasItsFile

LEMMA FreshLeaseType == FreshLease \in Leases
BY DEF Leases, FreshLease

LEMMA LeaseTypes ==
  ASSUME NEW l \in Leases
  PROVE  /\ \A w \in Workers : Claim(l, w) \in Leases
         /\ Released(l) \in Leases
         /\ [l EXCEPT !.lapsed = TRUE] \in Leases
         /\ [l EXCEPT !.due = TRUE] \in Leases
         /\ [l EXCEPT !.token = None, !.lapsed = FALSE] \in Leases
<1>1. \A w \in Workers : Claim(l, w) \in Leases
  BY DEF Leases, Claim
<1>2. Released(l) \in Leases
  BY DEF Leases, Released
<1>3. [l EXCEPT !.lapsed = TRUE] \in Leases /\ [l EXCEPT !.due = TRUE] \in Leases
  BY DEF Leases
<1>4. [l EXCEPT !.token = None, !.lapsed = FALSE] \in Leases
  BY DEF Leases
<1> QED
  BY <1>1, <1>2, <1>3, <1>4

LEMMA LeaseEnds ==
  ASSUME NEW l \in Leases
  PROVE  /\ Released(l).token = None
         /\ [l EXCEPT !.token = None, !.lapsed = FALSE].token = None
         /\ [l EXCEPT !.lapsed = TRUE].token = l.token
         /\ [l EXCEPT !.due = TRUE].token = l.token
<1>1. Released(l).token = None
  BY DEF Leases, Released
<1>2. [l EXCEPT !.token = None, !.lapsed = FALSE].token = None
  BY DEF Leases
<1>3. [l EXCEPT !.lapsed = TRUE].token = l.token /\ [l EXCEPT !.due = TRUE].token = l.token
  BY DEF Leases
<1> QED
  BY <1>1, <1>2, <1>3

LEMMA ReportIsReport ==
  ASSUME ExportTypeOK, NEW x \in Exports
  PROVE  Report(x) \in Reports
BY DEF ExportTypeOK, Report, FinancialSummary, OperationalSummary, Reports

LEMMA JobTypes ==
  ASSUME NEW j \in Jobs, NEW status \in {"none", "QUEUED", "PROCESSING", "READY", "FAILED", "EXPIRED"}
  PROVE  [j EXCEPT !.status = status] \in Jobs
BY DEF Jobs

LEMMA FileTypes ==
  ASSUME NEW f \in FileRows
  PROVE  /\ [f EXCEPT !.past = TRUE] \in FileRows
         /\ [f EXCEPT !.deleted = TRUE] \in FileRows
         /\ \A r \in Reports : [f EXCEPT !.body = r] \in FileRows
BY DEF FileRows

LEMMA ExportingTypes ==
  ASSUME NEW e \in Exporting
  PROVE  /\ \A step \in {"complete", "undo", "fail"} : [e EXCEPT !.step = step] \in Exporting
         /\ \A r \in Reports : [e EXCEPT !.step = "store", !.body = r] \in Exporting
         /\ e.body \in Reports \cup {None}
BY DEF Exporting

LEMMA ExportingStarts ==
  /\ IdleExporter \in Exporting
  /\ \A x \in Exports, step \in {"expire", "generate"} :
       [step |-> step, job |-> x, body |-> None] \in Exporting
BY DEF Exporting, IdleExporter

LEMMA ExportStarts == ExportInit => ExportInv
<1> SUFFICES ASSUME ExportInit PROVE ExportInv
  OBVIOUS
<1>1. NoExport \in Jobs /\ NoFile \in FileRows /\ {} \in Reports
  BY DEF NoExport, NoFile, Jobs, FileRows, Reports
<1>2. ExportTypeOK
  BY <1>1, FreshLeaseType, ExportingStarts DEF ExportInit, ExportTypeOK
<1>3. ExportsAreClaimed /\ ExportersKnowTheirJob /\ DeletedFilesExist /\ ReadyHasItsFile
  BY DEF ExportInit, ExportsAreClaimed, ExportersKnowTheirJob, DeletedFilesExist, ReadyHasItsFile,
         NoExport, NoFile, IdleExporter, FreshLease
<1> QED
  BY <1>2, <1>3 DEF ExportInv

LEMMA ExporterTypes ==
  ASSUME ExportTypeOK, ExportersKnowTheirJob, NEW w \in Workers, ExporterStep(w) \/ StopExporter(w)
  PROVE  ExportTypeOK'
<1> DEFINE x == exporter[w].job
<1> USE ExportingStarts DEF ExportTypeOK
<1>1. /\ exporter[w].step # "idle" => x \in Exports
      /\ exporter[w].step \in {"store", "complete"} => exporter[w].body \in Reports
      /\ exporter[w] \in Exporting
  BY DEF ExportersKnowTheirJob
<1>2. /\ IdleExporter \in Exporting
      /\ \A step \in {"complete", "undo", "fail"} : [exporter[w] EXCEPT !.step = step] \in Exporting
      /\ \A r \in Reports : [exporter[w] EXCEPT !.step = "store", !.body = r] \in Exporting
  BY <1>1, ExportingTypes
<1>3. ASSUME NEW y \in Exports
      PROVE  /\ \A v \in Workers : Claim(exportLease[y], v) \in Leases
             /\ Released(exportLease[y]) \in Leases
             /\ [exportLease[y] EXCEPT !.token = None, !.lapsed = FALSE] \in Leases
  BY LeaseTypes
<1>4. ASSUME NEW y \in Exports
      PROVE  /\ [file[y] EXCEPT !.deleted = TRUE] \in FileRows
             /\ \A r \in Reports : [file[y] EXCEPT !.body = r] \in FileRows
  BY FileTypes
<1>5. ASSUME NEW y \in Exports, NEW s \in {"none", "QUEUED", "PROCESSING", "READY", "FAILED", "EXPIRED"}
      PROVE  [export[y] EXCEPT !.status = s] \in Jobs
  BY JobTypes
<1>6. ASSUME NEW y \in Exports, ClaimExpired(w, y) PROVE ExportTypeOK'
  <2>1. export' \in [Exports -> Jobs]
    <3>1. export[y].status \in {"none", "QUEUED", "PROCESSING", "READY", "FAILED", "EXPIRED"}
      BY DEF Jobs
    <3> QED
      BY <1>5, <1>6, <3>1 DEF ClaimExpired
  <2>2. file' \in [Exports -> FileRows]
    BY <1>4, <1>6 DEF ClaimExpired
  <2> QED
    BY <1>6, <2>1, <2>2 DEF ClaimExpired
<1>7. ASSUME NEW y \in Exports, ClaimExport(w, y) PROVE ExportTypeOK'
  <2>1. export' \in [Exports -> Jobs]
    BY <1>5, <1>7 DEF ClaimExport
  <2>2. exportLease' \in [Exports -> Leases]
    BY <1>3, <1>7 DEF ClaimExport
  <2>3. [step |-> "generate", job |-> y, body |-> None] \in Exporting
    BY DEF Exporting
  <2>4. exporter' \in [Workers -> Exporting]
    BY <1>7, <2>3 DEF ClaimExport
  <2> QED
    BY <1>7, <2>1, <2>2, <2>4 DEF ClaimExport
<1>8. CASE DeleteExpired(w)
  <2>1. exporter' \in [Workers -> Exporting]
    BY <1>2, <1>8 DEF DeleteExpired, Rests
  <2>2. object' \in [Exports -> Reports \cup {None}]
    BY <1>1, <1>8 DEF DeleteExpired
  <2> QED
    BY <1>8, <2>1, <2>2 DEF DeleteExpired
<1>9. CASE Generate(w)
  <2>1. Report(x) \in Reports
    BY <1>1, <1>9, ReportIsReport DEF Generate
  <2>2. [exporter[w] EXCEPT !.step = "store", !.body = Report(x)] \in Exporting
    BY <1>2, <2>1
  <2>3. exporter' \in [Workers -> Exporting]
    BY <1>2, <1>9, <2>2 DEF Generate, Goes
  <2> QED
    BY <1>9, <2>3 DEF Generate
<1>10. CASE Store(w)
  <2>1. exporter' \in [Workers -> Exporting]
    BY <1>2, <1>10 DEF Store, Goes
  <2>2. object' \in [Exports -> Reports \cup {None}]
    BY <1>1, <1>10 DEF Store
  <2> QED
    BY <1>10, <2>1, <2>2 DEF Store
<1>11. CASE Complete(w)
  BY <1>1, <1>2, <1>3, <1>4, <1>5, <1>11 DEF Complete, Completed, Rests
<1>12. CASE CompleteFails(w)
  BY <1>1, <1>2, <1>12 DEF CompleteFails, Goes
<1>13. CASE CompleteUnacknowledged(w)
  BY <1>1, <1>2, <1>3, <1>4, <1>5, <1>13 DEF CompleteUnacknowledged, Completed, Goes
<1>14. CASE Undo(w)
  BY <1>1, <1>2, <1>14 DEF Undo, Goes
<1>15. CASE Fail(w)
  BY <1>1, <1>2, <1>3, <1>5, <1>15 DEF Fail, Rests
<1>16. CASE StopExporter(w)
  <2>1. exporter' \in [Workers -> Exporting]
    BY <1>2, <1>16 DEF StopExporter, Rests
  <2>2. exportStops' \in Nat
    BY <1>16, StopsBounded DEF StopExporter
  <2> QED
    BY <1>16, <2>1, <2>2 DEF StopExporter
<1> QED
  BY <1>6, <1>7, <1>8, <1>9, <1>10, <1>11, <1>12, <1>13, <1>14, <1>15, <1>16 DEF ExporterStep

LEMMA ExporterKeeps ==
  ASSUME ExportInv, NEW w \in Workers, ExporterStep(w) \/ StopExporter(w)
  PROVE  ExportInv'
<1> DEFINE x == exporter[w].job
<1> USE DEF ExportInv
<1>1. ExportTypeOK'
  BY ExporterTypes
<1>2. /\ exporter[w].step # "idle" => x \in Exports
      /\ exporter[w].step \in {"store", "complete"} => exporter[w].body \in Reports
  BY DEF ExportersKnowTheirJob
<1>3. ExportersKnowTheirJob'
  <2>1. \A v \in Workers \ {w} : exporter'[v] = exporter[v]
    BY DEF ExportTypeOK, ExporterStep, StopExporter, ClaimExpired, DeleteExpired, ClaimExport,
           Generate, Store, Complete, CompleteFails, CompleteUnacknowledged, Undo, Fail, Goes, Rests
  <2>2. /\ exporter'[w].step # "idle" => exporter'[w].job \in Exports
        /\ exporter'[w].step \in {"store", "complete"} => exporter'[w].body \in Reports
    <3>1. exporter[w] \in Exporting
      BY DEF ExportTypeOK
    <3>2. ASSUME NEW step, Goes(w, step)
          PROVE  /\ exporter'[w].step = step /\ exporter'[w].job = exporter[w].job
                 /\ exporter'[w].body = exporter[w].body
      BY <3>1, <3>2 DEF Goes, ExportTypeOK, Exporting
    <3>3. ASSUME Rests(w) PROVE exporter'[w].step = "idle"
      BY <3>3 DEF Rests, ExportTypeOK, IdleExporter
    <3>4. ASSUME NEW y \in Exports, ClaimExpired(w, y) \/ ClaimExport(w, y)
          PROVE  exporter'[w].job \in Exports /\ exporter'[w].step \notin {"store", "complete"}
      BY <3>4 DEF ClaimExpired, ClaimExport, ExportTypeOK
    <3>5. CASE Generate(w)
      <4>1. x \in Exports
        BY <1>2, <3>5 DEF Generate
      <4>2. CASE exporter' = [exporter EXCEPT ![w].step = "store", ![w].body = Report(x)]
        <5>1. exporter'[w].job = x /\ exporter'[w].body = Report(x)
          BY <3>1, <4>2 DEF ExportTypeOK, Exporting
        <5> QED
          BY <4>1, <5>1, ReportIsReport
      <4> QED
        BY <3>2, <3>5, <4>1, <4>2 DEF Generate
    <3>6. CASE Store(w)
      BY <1>2, <3>2, <3>6 DEF Store
    <3> QED
      BY <1>2, <3>2, <3>3, <3>4, <3>5, <3>6
         DEF ExporterStep, StopExporter, DeleteExpired, Complete, CompleteFails,
             CompleteUnacknowledged, Undo, Fail
  <2> QED
    BY <2>1, <2>2 DEF ExportersKnowTheirJob
<1> USE DEF ExportsAreClaimed, DeletedFilesExist, ReadyHasItsFile
<1>4. ASSUME NEW y \in Exports, ClaimExpired(w, y)
      PROVE  ExportsAreClaimed' /\ DeletedFilesExist' /\ ReadyHasItsFile'
  <2>1. /\ export'[y].status = IF export[y].status = "READY" THEN "EXPIRED" ELSE export[y].status
        /\ \A z \in Exports \ {y} : export'[z] = export[z]
    BY <1>4 DEF ClaimExpired, ExportTypeOK, Jobs
  <2>2. /\ file[y].body # None /\ file'[y].body = file[y].body
        /\ \A z \in Exports \ {y} : file'[z] = file[z]
    BY <1>4 DEF ClaimExpired, Expirable, ExportTypeOK, FileRows
  <2>3. exportLease' = exportLease
    BY <1>4 DEF ClaimExpired
  <2> QED
    BY <2>1, <2>2, <2>3
<1>5. ASSUME NEW y \in Exports, ClaimExport(w, y)
      PROVE  ExportsAreClaimed' /\ DeletedFilesExist' /\ ReadyHasItsFile'
  <2>1. export'[y].status = "PROCESSING" /\ \A z \in Exports \ {y} : export'[z] = export[z]
    BY <1>5 DEF ClaimExport, ExportTypeOK, Jobs
  <2>2. exportLease'[y].token = w /\ \A z \in Exports \ {y} : exportLease'[z] = exportLease[z]
    BY <1>5 DEF ClaimExport, Claim, ExportTypeOK
  <2>3. file' = file
    BY <1>5 DEF ClaimExport
  <2> QED
    BY <2>1, <2>2, <2>3, NoneIsNoWorker
<1>6. ASSUME exporter[w].step = "complete", Completed(w, x)
      PROVE  ExportsAreClaimed' /\ DeletedFilesExist' /\ ReadyHasItsFile'
  <2>1. x \in Exports /\ exporter[w].body \in Reports
    BY <1>2, <1>6
  <2>2. /\ file[x].body = None /\ file'[x].body # None /\ file'[x].deleted = file[x].deleted
        /\ \A z \in Exports \ {x} : file'[z] = file[z]
    BY <1>6, <2>1, ReportIsNoNull DEF Completed, FirstFile, ExportTypeOK, FileRows, Reports
  <2>3. CASE Holds(exportLease[x], w)
    <3>1. export'[x].status = "READY" /\ \A z \in Exports \ {x} : export'[z] = export[z]
      BY <1>6, <2>1, <2>3 DEF Completed, ExportTypeOK, Jobs
    <3>2. exportLease'[x].token = None /\ \A z \in Exports \ {x} : exportLease'[z] = exportLease[z]
      BY <1>6, <2>1, <2>3 DEF Completed, ExportTypeOK, Leases
    <3> QED
      BY <2>2, <3>1, <3>2
  <2>4. CASE ~Holds(exportLease[x], w)
    BY <1>6, <2>1, <2>2, <2>4 DEF Completed
  <2> QED
    BY <2>3, <2>4
<1>7. ASSUME Fail(w)
      PROVE  ExportsAreClaimed' /\ DeletedFilesExist' /\ ReadyHasItsFile'
  <2>1. x \in Exports /\ file' = file
    BY <1>2, <1>7 DEF Fail
  <2>2. CASE Holds(exportLease[x], w)
    <3>1. export'[x].status \in {"FAILED", "QUEUED"} /\ \A z \in Exports \ {x} : export'[z] = export[z]
      BY <1>7, <2>1, <2>2 DEF Fail, ExportTypeOK, Jobs
    <3>2. exportLease'[x].token = None /\ \A z \in Exports \ {x} : exportLease'[z] = exportLease[z]
      BY <1>7, <2>1, <2>2, LeaseEnds DEF Fail, ExportTypeOK
    <3> QED
      BY <2>1, <3>1, <3>2
  <2>3. CASE ~Holds(exportLease[x], w)
    BY <1>7, <2>1, <2>3 DEF Fail
  <2> QED
    BY <2>2, <2>3
<1>8. ASSUME UNCHANGED <<export, exportLease, file>>
      PROVE  ExportsAreClaimed' /\ DeletedFilesExist' /\ ReadyHasItsFile'
  BY <1>8
<1> HIDE DEF ExportsAreClaimed, DeletedFilesExist, ReadyHasItsFile
<1>9. ExportsAreClaimed' /\ DeletedFilesExist' /\ ReadyHasItsFile'
  BY <1>4, <1>5, <1>6, <1>7, <1>8
     DEF ExporterStep, StopExporter, DeleteExpired, Generate, Store, Complete, CompleteFails,
         CompleteUnacknowledged, Undo
<1> QED
  BY <1>1, <1>3, <1>9

LEMMA ExportKeeps == ExportInv /\ [ExportNext]_exportVars => ExportInv'
<1> SUFFICES ASSUME ExportInv, [ExportNext]_exportVars PROVE ExportInv'
  OBVIOUS
<1> USE DEF ExportInv
<1>1. ASSUME NEW t \in ReportTypes, NEW b \in Branches, PostRow(t, b) PROVE ExportInv'
  <2>1. rows' \in Reports
    BY <1>1 DEF PostRow, ExportTypeOK, Reports
  <2> QED
    BY <1>1, <2>1
       DEF PostRow, ExportTypeOK, ExportsAreClaimed, ExportersKnowTheirJob, DeletedFilesExist,
           ReadyHasItsFile
<1>2. ASSUME NEW x \in Exports, NEW role \in {"PRIMARY_OWNER", "MANAGER"}, NEW branch \in Scopes,
             NEW t \in ReportTypes, NEW s \in Scopes, RequestExport(x, role, branch, t, s)
      PROVE  ExportInv'
  <2>1. [status |-> "QUEUED", type |-> t, scope |-> s] \in Jobs
    BY DEF Jobs
  <2>2. ExportTypeOK'
    BY <1>2, <2>1 DEF RequestExport, ExportTypeOK
  <2>3. /\ export[x].status = "none" /\ export'[x].status = "QUEUED"
        /\ \A z \in Exports \ {x} : export'[z] = export[z]
    BY <1>2 DEF RequestExport, ExportTypeOK
  <2> QED
    BY <1>2, <2>2, <2>3
       DEF RequestExport, ExportsAreClaimed, ExportersKnowTheirJob, DeletedFilesExist,
           ReadyHasItsFile
<1>3. ASSUME NEW w \in Workers, ExporterStep(w) \/ StopExporter(w) PROVE ExportInv'
  BY <1>3, ExporterKeeps
<1>4. ASSUME NEW x \in Exports, LapseExport(x) \/ RetryExport(x) PROVE ExportInv'
  <2>1. /\ exportLease' \in [Exports -> Leases]
        /\ exportLease'[x].token = exportLease[x].token
        /\ \A z \in Exports \ {x} : exportLease'[z] = exportLease[z]
    <3>1. /\ [exportLease[x] EXCEPT !.lapsed = TRUE] \in Leases
          /\ [exportLease[x] EXCEPT !.due = TRUE] \in Leases
      BY LeaseTypes DEF ExportTypeOK
    <3>2. /\ [exportLease[x] EXCEPT !.lapsed = TRUE].token = exportLease[x].token
          /\ [exportLease[x] EXCEPT !.due = TRUE].token = exportLease[x].token
      BY LeaseEnds DEF ExportTypeOK
    <3> QED
      BY <1>4, <3>1, <3>2 DEF LapseExport, RetryExport, ExportTypeOK
  <2>2. UNCHANGED <<rows, export, file, object, exporter, exportStops>>
    BY <1>4 DEF LapseExport, RetryExport
  <2> QED
    BY <2>1, <2>2
       DEF ExportTypeOK, ExportsAreClaimed, ExportersKnowTheirJob, DeletedFilesExist,
           ReadyHasItsFile
<1>5. ASSUME NEW x \in Exports, FilePasses(x) PROVE ExportInv'
  <2>1. /\ file' \in [Exports -> FileRows]
        /\ file'[x].body = file[x].body /\ file'[x].deleted = file[x].deleted
        /\ \A z \in Exports \ {x} : file'[z] = file[z]
    <3>1. [file[x] EXCEPT !.past = TRUE] \in FileRows
      BY FileTypes DEF ExportTypeOK
    <3>2. /\ [file[x] EXCEPT !.past = TRUE].body = file[x].body
          /\ [file[x] EXCEPT !.past = TRUE].deleted = file[x].deleted
      BY DEF ExportTypeOK, FileRows
    <3> QED
      BY <1>5, <3>1, <3>2 DEF FilePasses, ExportTypeOK
  <2> QED
    BY <1>5, <2>1
       DEF FilePasses, ExportTypeOK, ExportsAreClaimed, ExportersKnowTheirJob, DeletedFilesExist,
           ReadyHasItsFile
<1>6. CASE UNCHANGED exportVars
  BY <1>6
     DEF exportVars, ExportTypeOK, ExportsAreClaimed, ExportersKnowTheirJob, DeletedFilesExist,
         ReadyHasItsFile
<1> QED
  BY <1>1, <1>2, <1>3, <1>4, <1>5, <1>6 DEF ExportNext

\* What the export queue maintains: a job is claimed exactly while it is worked on, its worker
\* has what it stores, and a file is deleted only after it was there (claimNext, complete).
THEOREM ExportInvariant == ExportSpec => []ExportInv
BY ExportStarts, ExportKeeps, PTL DEF ExportSpec

\* A READY job has its file, whatever stale workers insert and however files expire
\* (complete, claimExpired).
THEOREM ExportsHaveFiles == ExportSpec => []ReadyHasItsFile
<1>1. ExportInv => ReadyHasItsFile
  BY DEF ExportInv
<1> QED
  BY <1>1, ExportInvariant, PTL

-----------------------------------------------------------------------------
(* Where a stored report is not lost.                                      *)

\* A claim lapses only when its worker is no longer at the job.
WorkEndsInTime ==
  \A x \in Exports : exportLease[x].lapsed => exporter[exportLease[x].token].job # x

\* A worker at a job holds it, and has stored what it is about to record.
ExporterHolds(w) ==
  LET x == exporter[w].job IN
  /\ exporter[w].step \notin {"idle", "expire"} =>
       export[x].status = "PROCESSING" /\ exportLease[x].token = w
  /\ exporter[w].step = "expire" => file[x].deleted
  /\ exporter[w].step = "complete" => object[x] = exporter[w].body

ExportersHold == \A w \in Workers : ExporterHolds(w)

FilesOfEnded == \A x \in Exports : file[x].body # None => export[x].status \in {"READY", "EXPIRED"}

ReadyIsStored == \A x \in Exports : export[x].status = "READY" => object[x] = file[x].body

StoredInv == ExportersHold /\ FilesOfEnded /\ ReadyIsStored

\* A worker goes on at its job.
LEMMA WorkerGoesOn ==
  ASSUME ExportInv, StoredInv, NEW w \in Workers, exporter[w].step \notin {"idle", "expire"},
         exporter'[w].job = exporter[w].job, exporter'[w].body = exporter[w].body,
         exporter'[w].step \in {"complete", "undo", "fail"},
         \A v \in Workers \ {w} : exporter'[v] = exporter[v],
         export' = export, exportLease' = exportLease, file' = file,
         \A x \in Exports : x # exporter[w].job => object'[x] = object[x],
         exporter'[w].step = "complete" => object'[exporter[w].job] = exporter[w].body
  PROVE  StoredInv'
<1> DEFINE x == exporter[w].job
<1>1. x \in Exports /\ export[x].status = "PROCESSING" /\ exportLease[x].token = w
  BY DEF ExportInv, ExportersKnowTheirJob, StoredInv, ExportersHold, ExporterHolds
<1>2. ExporterHolds(w)'
  BY <1>1 DEF ExporterHolds
<1>3. ASSUME NEW v \in Workers \ {w} PROVE ExporterHolds(v)'
  <2>1. ExporterHolds(v) /\ exporter'[v] = exporter[v]
    BY DEF StoredInv, ExportersHold
  <2>2. exporter[v].step # "idle" => exporter[v].job \in Exports
    BY DEF ExportInv, ExportersKnowTheirJob
  <2>3. exporter[v].step = "complete" => exporter[v].job # x
    BY <1>1, <2>1 DEF ExporterHolds
  <2> QED
    BY <2>1, <2>2, <2>3 DEF ExporterHolds
<1>4. ExportersHold'
  BY <1>2, <1>3 DEF ExportersHold
<1>5. ReadyIsStored'
  BY <1>1 DEF StoredInv, ReadyIsStored
<1> QED
  BY <1>4, <1>5 DEF StoredInv, FilesOfEnded

\* A worker rests: nobody else is at its job, whatever becomes of it.
LEMMA WorkerRests ==
  ASSUME ExportInv, StoredInv, NEW w \in Workers, exporter[w].step # "idle",
         exporter' = [exporter EXCEPT ![w] = IdleExporter],
         NEW x \in Exports, x = exporter[w].job,
         \A y \in Exports : y # x => /\ export'[y] = export[y] /\ exportLease'[y] = exportLease[y]
                                     /\ object'[y] = object[y] /\ file'[y] = file[y],
         \/ exporter[w].step # "expire" /\ (file'[x].body # None => export'[x].status \in {"READY", "EXPIRED"})
            /\ (export'[x].status = "READY" => object'[x] = file'[x].body)
         \/ export'[x] = export[x] /\ exportLease'[x] = exportLease[x] /\ file'[x] = file[x]
            /\ (object'[x] = object[x] \/ file[x].deleted)
  PROVE  StoredInv'
<1>1. /\ exporter'[w].step = "idle" /\ \A v \in Workers \ {w} : exporter'[v] = exporter[v]
      /\ x \in Exports
  BY DEF ExportInv, ExportTypeOK, ExportersKnowTheirJob, IdleExporter
<1>2. file[x].deleted => export[x].status # "READY" /\ export[x].status # "PROCESSING"
  BY <1>1 DEF ExportInv, ReadyHasItsFile, DeletedFilesExist, StoredInv, FilesOfEnded
<1>3. exporter[w].step # "expire" => exportLease[x].token = w /\ export[x].status = "PROCESSING"
  BY DEF StoredInv, ExportersHold, ExporterHolds
<1>4. ASSUME NEW v \in Workers \ {w} PROVE ExporterHolds(v)'
  <2>1. ExporterHolds(v) /\ exporter'[v] = exporter[v]
    BY <1>1 DEF StoredInv, ExportersHold
  <2>2. exporter[v].step # "idle" => exporter[v].job \in Exports
    BY DEF ExportInv, ExportersKnowTheirJob
  <2>3. CASE exporter[v].step = "idle"
    BY <2>1, <2>3 DEF ExporterHolds
  <2>4. CASE exporter[v].step # "idle" /\ exporter[v].job # x
    BY <2>1, <2>2, <2>4 DEF ExporterHolds
  <2>5. CASE exporter[v].step # "idle" /\ exporter[v].job = x
    <3>1. exporter[w].step = "expire" \/ exporter[v].step = "expire"
      BY <1>3, <2>1, <2>5 DEF ExporterHolds
    <3>2. CASE exporter[w].step = "expire"
      BY <1>2, <2>1, <2>5, <3>2 DEF ExporterHolds
    <3>3. CASE exporter[w].step # "expire" /\ exporter[v].step = "expire"
      BY <1>2, <1>3, <2>1, <2>5, <3>3 DEF ExporterHolds
    <3> QED
      BY <3>1, <3>2, <3>3
  <2> QED
    BY <2>3, <2>4, <2>5
<1>5. ExportersHold'
  BY <1>1, <1>4 DEF ExportersHold, ExporterHolds
<1>6. FilesOfEnded'
  BY <1>1 DEF StoredInv, FilesOfEnded
<1>7. ReadyIsStored'
  BY <1>1, <1>2 DEF StoredInv, ReadyIsStored
<1> QED
  BY <1>5, <1>6, <1>7 DEF StoredInv

LEMMA WorkerEnds ==
  ASSUME ExportInv, StoredInv, NEW w \in Workers, exporter[w].step \notin {"idle", "expire"},
         exporter' = [exporter EXCEPT ![w] = IdleExporter],
         \A y \in Exports : y # exporter[w].job =>
           /\ export'[y] = export[y] /\ exportLease'[y] = exportLease[y]
           /\ object'[y] = object[y] /\ file'[y] = file[y],
         file'[exporter[w].job].body # None => export'[exporter[w].job].status \in {"READY", "EXPIRED"},
         export'[exporter[w].job].status = "READY" => object'[exporter[w].job] = file'[exporter[w].job].body
  PROVE  StoredInv'
<1> DEFINE x == exporter[w].job
<1>1. /\ x = exporter[w].job /\ exporter[w].step # "idle" /\ exporter[w].step # "expire"
      /\ \A y \in Exports : y # x => /\ export'[y] = export[y] /\ exportLease'[y] = exportLease[y]
                                     /\ object'[y] = object[y] /\ file'[y] = file[y]
      /\ file'[x].body # None => export'[x].status \in {"READY", "EXPIRED"}
      /\ export'[x].status = "READY" => object'[x] = file'[x].body
  OBVIOUS
<1> HIDE DEF x
<1>2. \/ exporter[w].step # "expire" /\ (file'[x].body # None => export'[x].status \in {"READY", "EXPIRED"})
         /\ (export'[x].status = "READY" => object'[x] = file'[x].body)
      \/ export'[x] = export[x] /\ exportLease'[x] = exportLease[x] /\ file'[x] = file[x]
         /\ (object'[x] = object[x] \/ file[x].deleted)
  BY <1>1
<1>3. x \in Exports
  BY DEF ExportInv, ExportersKnowTheirJob, x
<1> QED
  BY <1>1, <1>2, <1>3, WorkerRests

LEMMA StoredStarts == ExportInit => StoredInv
BY DEF ExportInit, StoredInv, ExportersHold, ExporterHolds, FilesOfEnded, ReadyIsStored,
       IdleExporter, NoExport, NoFile

\* A job is claimed: its last worker is not at it any more.
LEMMA ClaimStores ==
  ASSUME ExportInv, StoredInv, WorkEndsInTime, NEW w \in Workers, NEW x \in Exports,
         ClaimExport(w, x)
  PROVE  StoredInv'
<1> DEFINE e == [step |-> "generate", job |-> x, body |-> None]
<1>1. /\ exporter' = [exporter EXCEPT ![w] = e] /\ exporter[w].step = "idle"
      /\ export' = [export EXCEPT ![x].status = "PROCESSING"]
      /\ exportLease' = [exportLease EXCEPT ![x] = Claim(exportLease[x], w)]
      /\ file' = file /\ object' = object
      /\ export[x].status \in {"QUEUED", "PROCESSING"}
      /\ export[x].status = "PROCESSING" => exportLease[x].lapsed
  BY DEF ClaimExport, ExportClaimable, Claimable
<1>2. e.step = "generate" /\ e.job = x
  OBVIOUS
<1> HIDE DEF e
<1>3. exporter'[w] = e /\ \A v \in Workers \ {w} : exporter'[v] = exporter[v]
  BY <1>1 DEF ExportInv, ExportTypeOK
<1>4. /\ export'[x].status = "PROCESSING" /\ exportLease'[x].token = w
      /\ \A y \in Exports : y # x => export'[y] = export[y] /\ exportLease'[y] = exportLease[y]
  BY <1>1 DEF ExportInv, ExportTypeOK, Jobs, Claim
<1>5. ASSUME NEW v \in Workers, exporter[v].step \notin {"idle", "expire"} PROVE exporter[v].job # x
  BY <1>1, <1>5 DEF StoredInv, ExportersHold, ExporterHolds, WorkEndsInTime
<1>6. ASSUME NEW v \in Workers \ {w} PROVE ExporterHolds(v)'
  <2>1. ExporterHolds(v) /\ exporter'[v] = exporter[v]
    BY <1>3 DEF StoredInv, ExportersHold
  <2>2. exporter[v].step # "idle" => exporter[v].job \in Exports
    BY DEF ExportInv, ExportersKnowTheirJob
  <2> QED
    BY <1>1, <1>4, <1>5, <2>1, <2>2 DEF ExporterHolds
<1>7. ExportersHold'
  BY <1>2, <1>3, <1>4, <1>6 DEF ExportersHold, ExporterHolds
<1>8. FilesOfEnded' /\ ReadyIsStored'
  BY <1>1, <1>4 DEF StoredInv, FilesOfEnded, ReadyIsStored
<1> QED
  BY <1>7, <1>8 DEF StoredInv

\* A file that passed is marked; its job is not READY any more.
LEMMA ExpiryStores ==
  ASSUME ExportInv, StoredInv, NEW w \in Workers, NEW x \in Exports, ClaimExpired(w, x)
  PROVE  StoredInv'
<1> DEFINE e == [step |-> "expire", job |-> x, body |-> None]
<1>1. /\ exporter' = [exporter EXCEPT ![w] = e] /\ exporter[w].step = "idle"
      /\ export' = [export EXCEPT ![x].status = IF @ = "READY" THEN "EXPIRED" ELSE @]
      /\ file' = [file EXCEPT ![x].deleted = TRUE]
      /\ exportLease' = exportLease /\ object' = object
      /\ file[x].body # None
  BY DEF ClaimExpired, Expirable
<1>2. e.step = "expire" /\ e.job = x
  OBVIOUS
<1> HIDE DEF e
<1>3. exporter'[w] = e /\ \A v \in Workers \ {w} : exporter'[v] = exporter[v]
  BY <1>1 DEF ExportInv, ExportTypeOK
<1>4. export[x].status \in {"READY", "EXPIRED"}
  BY <1>1 DEF StoredInv, FilesOfEnded
<1>5. /\ export'[x].status = "EXPIRED" /\ file'[x].deleted
      /\ \A y \in Exports : y # x => export'[y] = export[y] /\ file'[y] = file[y]
  BY <1>1, <1>4 DEF ExportInv, ExportTypeOK, Jobs, FileRows
<1>6. ASSUME NEW v \in Workers \ {w} PROVE ExporterHolds(v)'
  <2>1. ExporterHolds(v) /\ exporter'[v] = exporter[v]
    BY <1>3 DEF StoredInv, ExportersHold
  <2>2. exporter[v].step # "idle" => exporter[v].job \in Exports
    BY DEF ExportInv, ExportersKnowTheirJob
  <2>3. exporter[v].step \notin {"idle", "expire"} => exporter[v].job # x
    BY <1>4, <2>1 DEF ExporterHolds
  <2> QED
    BY <1>1, <1>5, <2>1, <2>2, <2>3 DEF ExporterHolds
<1>7. ExportersHold'
  BY <1>2, <1>3, <1>5, <1>6 DEF ExportersHold, ExporterHolds
<1>8. FilesOfEnded' /\ ReadyIsStored'
  BY <1>1, <1>5 DEF StoredInv, FilesOfEnded, ReadyIsStored
<1> QED
  BY <1>7, <1>8 DEF StoredInv

\* What the requester and the clock do.
LEMMA OthersStore ==
  ASSUME ExportInv, StoredInv, exporter' = exporter, object' = object,
         \A x \in Exports :
           /\ exportLease'[x].token = exportLease[x].token
           /\ export'[x].status = export[x].status \/ (export[x].status = "none" /\ export'[x].status = "QUEUED")
           /\ file'[x].body = file[x].body /\ file'[x].deleted = file[x].deleted
  PROVE  StoredInv'
<1>1. ASSUME NEW x \in Exports, file[x].body # None PROVE export'[x].status = export[x].status
  BY <1>1 DEF StoredInv, FilesOfEnded
<1>2. FilesOfEnded'
  BY <1>1 DEF StoredInv, FilesOfEnded
<1>3. ReadyIsStored'
  BY DEF StoredInv, ReadyIsStored
<1>4. ASSUME NEW w \in Workers PROVE ExporterHolds(w)'
  <2>1. ExporterHolds(w) /\ (exporter[w].step # "idle" => exporter[w].job \in Exports)
    BY DEF StoredInv, ExportersHold, ExportInv, ExportersKnowTheirJob
  <2> QED
    BY <2>1 DEF ExporterHolds
<1> QED
  BY <1>2, <1>3, <1>4 DEF StoredInv, ExportersHold

LEMMA WorkerStores ==
  ASSUME ExportInv, StoredInv, WorkEndsInTime, ~AckLost,
         NEW w \in Workers, ExporterStep(w) \/ StopExporter(w)
  PROVE  StoredInv'
<1> DEFINE x == exporter[w].job
<1>1. /\ exporter[w].step # "idle" => x \in Exports
      /\ exporter[w].step \notin {"idle", "expire"} =>
           /\ export[x].status = "PROCESSING" /\ exportLease[x].token = w
           /\ file[x].body = None
      /\ exporter[w].step = "expire" => file[x].deleted
      /\ exporter[w].step = "complete" => object[x] = exporter[w].body
  BY DEF ExportInv, ExportersKnowTheirJob, StoredInv, ExportersHold, ExporterHolds, FilesOfEnded
<1>2. ASSUME NEW step, exporter' = [exporter EXCEPT ![w].step = step]
      PROVE  /\ exporter'[w].step = step /\ exporter'[w].job = x /\ exporter'[w].body = exporter[w].body
             /\ \A v \in Workers \ {w} : exporter'[v] = exporter[v]
  BY <1>2 DEF ExportInv, ExportTypeOK, Exporting
<1>3. CASE DeleteExpired(w)
  <2>1. /\ exporter[w].step = "expire" /\ exporter' = [exporter EXCEPT ![w] = IdleExporter]
        /\ export' = export /\ exportLease' = exportLease /\ file' = file
        /\ \A y \in Exports : y # x => object'[y] = object[y]
    BY <1>3 DEF DeleteExpired, Rests, ExportInv, ExportTypeOK
  <2> QED
    BY <1>1, <2>1, WorkerRests
<1>4. CASE Generate(w)
  <2>1. exporter[w].step = "generate" /\ UNCHANGED <<export, exportLease, file, object>>
    BY <1>4 DEF Generate
  <2>2. CASE Goes(w, "fail")
    <3>1. exporter' = [exporter EXCEPT ![w].step = "fail"]
      BY <2>2 DEF Goes
    <3>2. /\ exporter'[w].step = "fail" /\ exporter'[w].job = x /\ exporter'[w].body = exporter[w].body
          /\ \A v \in Workers \ {w} : exporter'[v] = exporter[v]
      BY <1>2, <3>1
    <3> QED
      BY <2>1, <3>2, WorkerGoesOn
  <2>3. CASE exporter' = [exporter EXCEPT ![w].step = "store", ![w].body = Report(x)]
    <3>1. /\ exporter'[w].step = "store" /\ exporter'[w].job = x
          /\ \A v \in Workers \ {w} : exporter'[v] = exporter[v]
      BY <2>3 DEF ExportInv, ExportTypeOK, Exporting
    <3>2. ASSUME NEW v \in Workers \ {w} PROVE ExporterHolds(v)'
      BY <2>1, <3>1 DEF StoredInv, ExportersHold, ExporterHolds
    <3>3. ExporterHolds(w)'
      BY <1>1, <2>1, <3>1 DEF ExporterHolds
    <3> QED
      BY <2>1, <3>2, <3>3 DEF StoredInv, ExportersHold, FilesOfEnded, ReadyIsStored
  <2> QED
    BY <1>4, <2>2, <2>3 DEF Generate
<1>5. CASE Store(w)
  <2>1. /\ exporter[w].step = "store" /\ UNCHANGED <<export, exportLease, file>>
        /\ \A y \in Exports : y # x => object'[y] = object[y]
    BY <1>5 DEF Store, ExportInv, ExportTypeOK
  <2>2. \/ object'[x] = exporter[w].body /\ exporter' = [exporter EXCEPT ![w].step = "complete"]
        \/ exporter' = [exporter EXCEPT ![w].step = "undo"]
    BY <1>1, <1>5, <2>1 DEF Store, Goes, ExportInv, ExportTypeOK
  <2>3. /\ exporter'[w].step \in {"complete", "undo"} /\ exporter'[w].job = x
        /\ exporter'[w].body = exporter[w].body
        /\ exporter'[w].step = "complete" => object'[x] = exporter[w].body
        /\ \A v \in Workers \ {w} : exporter'[v] = exporter[v]
    BY <1>2, <2>2
  <2> QED
    BY <2>1, <2>3, WorkerGoesOn
<1>6. CASE Complete(w)
  <2>1. /\ exporter[w].step = "complete" /\ exporter' = [exporter EXCEPT ![w] = IdleExporter]
        /\ object' = object /\ Completed(w, x)
    BY <1>6 DEF Complete, Rests
  <2>2. /\ file' = [file EXCEPT ![x].body = exporter[w].body]
        /\ export' = [export EXCEPT ![x].status = "READY"]
        /\ exportLease' = [exportLease EXCEPT ![x].token = None, ![x].lapsed = FALSE]
    BY <1>1, <2>1 DEF Completed, Holds
  <2>3. /\ file'[x].body = exporter[w].body /\ export'[x].status = "READY"
        /\ \A y \in Exports : y # x => /\ export'[y] = export[y] /\ exportLease'[y] = exportLease[y]
                                       /\ object'[y] = object[y] /\ file'[y] = file[y]
    BY <1>1, <2>1, <2>2 DEF ExportInv, ExportTypeOK, FileRows, Jobs
  <2>4. object'[x] = file'[x].body
    BY <1>1, <2>1, <2>3
  <2>5. /\ exporter[w].step \notin {"idle", "expire"}
        /\ file'[x].body # None => export'[x].status \in {"READY", "EXPIRED"}
        /\ export'[x].status = "READY" => object'[x] = file'[x].body
    BY <2>1, <2>3, <2>4
  <2>6. exporter' = [exporter EXCEPT ![w] = IdleExporter]
    BY <2>1
  <2> QED
    BY <2>3, <2>5, <2>6, WorkerEnds
<1>7. CASE CompleteFails(w)
  <2>1. /\ exporter[w].step = "complete" /\ exporter' = [exporter EXCEPT ![w].step = "undo"]
        /\ UNCHANGED <<export, exportLease, file, object>>
    BY <1>7 DEF CompleteFails, Goes
  <2>2. /\ exporter'[w].step = "undo" /\ exporter'[w].job = x /\ exporter'[w].body = exporter[w].body
        /\ \A v \in Workers \ {w} : exporter'[v] = exporter[v]
    BY <1>2, <2>1
  <2> QED
    BY <2>1, <2>2, WorkerGoesOn
<1>8. CASE Undo(w)
  <2>1. /\ exporter[w].step = "undo" /\ exporter' = [exporter EXCEPT ![w].step = "fail"]
        /\ UNCHANGED <<export, exportLease, file>>
        /\ \A y \in Exports : y # x => object'[y] = object[y]
    BY <1>8 DEF Undo, Goes, ExportInv, ExportTypeOK
  <2>2. /\ exporter'[w].step = "fail" /\ exporter'[w].job = x /\ exporter'[w].body = exporter[w].body
        /\ \A v \in Workers \ {w} : exporter'[v] = exporter[v]
    BY <1>2, <2>1
  <2> QED
    BY <2>1, <2>2, WorkerGoesOn
<1>9. CASE Fail(w)
  <2>1. /\ exporter[w].step = "fail" /\ exporter' = [exporter EXCEPT ![w] = IdleExporter]
        /\ file' = file /\ object' = object
        /\ exportLease' = [exportLease EXCEPT ![x] = Released(exportLease[x])]
        /\ export' = [export EXCEPT ![x].status =
                        IF exportLease[x].attempts >= MaxAttempts THEN "FAILED" ELSE "QUEUED"]
    BY <1>1, <1>9 DEF Fail, Rests, Holds
  <2>2. /\ file'[x].body = None /\ export'[x].status # "READY"
        /\ \A y \in Exports : y # x => /\ export'[y] = export[y] /\ exportLease'[y] = exportLease[y]
                                       /\ object'[y] = object[y] /\ file'[y] = file[y]
    BY <1>1, <2>1 DEF ExportInv, ExportTypeOK, Jobs
  <2>3. /\ exporter[w].step \notin {"idle", "expire"}
        /\ file'[x].body # None => export'[x].status \in {"READY", "EXPIRED"}
        /\ export'[x].status = "READY" => object'[x] = file'[x].body
    BY <2>1, <2>2
  <2>4. exporter' = [exporter EXCEPT ![w] = IdleExporter]
    BY <2>1
  <2> QED
    BY <2>2, <2>3, <2>4, WorkerEnds
<1>10. CASE StopExporter(w)
  <2>1. /\ exporter[w].step # "idle" /\ exporter' = [exporter EXCEPT ![w] = IdleExporter]
        /\ UNCHANGED <<export, exportLease, file, object>>
    BY <1>10 DEF StopExporter, Rests
  <2> QED
    BY <1>1, <2>1, WorkerRests
<1> QED
  BY <1>3, <1>4, <1>5, <1>6, <1>7, <1>8, <1>9, <1>10, ClaimStores, ExpiryStores
  DEF ExporterStep, CompleteUnacknowledged

LEMMA StoredKeeps ==
  ASSUME ~AckLost, ExportInv, StoredInv, WorkEndsInTime, [ExportNext]_exportVars
  PROVE  StoredInv'
<1>1. ASSUME NEW t \in ReportTypes, NEW b \in Branches, PostRow(t, b) PROVE StoredInv'
  BY <1>1, OthersStore DEF PostRow
<1>2. ASSUME NEW x \in Exports, NEW role, NEW branch, NEW t, NEW s, RequestExport(x, role, branch, t, s)
      PROVE  StoredInv'
  <2>1. /\ export[x].status = "none"
        /\ export' = [export EXCEPT ![x] = [status |-> "QUEUED", type |-> t, scope |-> s]]
        /\ UNCHANGED <<rows, exportLease, file, object, exporter>>
    BY <1>2 DEF RequestExport
  <2>2. /\ export'[x].status = "QUEUED" /\ \A y \in Exports : y # x => export'[y] = export[y]
    BY <2>1 DEF ExportInv, ExportTypeOK
  <2> QED
    BY <2>1, <2>2, OthersStore
<1>3. ASSUME NEW x \in Exports, LapseExport(x) \/ RetryExport(x) PROVE StoredInv'
  <2>1. /\ \/ exportLease' = [exportLease EXCEPT ![x] = [exportLease[x] EXCEPT !.lapsed = TRUE]]
           \/ exportLease' = [exportLease EXCEPT ![x] = [exportLease[x] EXCEPT !.due = TRUE]]
        /\ UNCHANGED <<rows, export, file, object, exporter>>
    BY <1>3 DEF LapseExport, RetryExport
  <2>2. /\ [exportLease[x] EXCEPT !.lapsed = TRUE].token = exportLease[x].token
        /\ [exportLease[x] EXCEPT !.due = TRUE].token = exportLease[x].token
    BY LeaseEnds DEF ExportInv, ExportTypeOK
  <2>3. \A y \in Exports : exportLease'[y].token = exportLease[y].token
    BY <2>1, <2>2 DEF ExportInv, ExportTypeOK
  <2> QED
    BY <2>1, <2>3, OthersStore
<1>4. ASSUME NEW x \in Exports, FilePasses(x) PROVE StoredInv'
  <2>1. /\ file' = [file EXCEPT ![x].past = TRUE]
        /\ UNCHANGED <<rows, export, exportLease, object, exporter>>
    BY <1>4 DEF FilePasses
  <2>2. \A y \in Exports : file'[y].body = file[y].body /\ file'[y].deleted = file[y].deleted
    BY <2>1 DEF ExportInv, ExportTypeOK, FileRows
  <2> QED
    BY <2>1, <2>2, OthersStore
<1>5. CASE UNCHANGED exportVars
  BY <1>5, OthersStore DEF exportVars
<1> QED
  BY <1>1, <1>2, <1>3, <1>4, <1>5, WorkerStores DEF ExportNext

\* Where ExportIsStored breaks: only a worker that outlives its lease, or a commit whose answer is
\* lost, takes a READY job's object away (complete, putObject and the catch of processNext).
THEOREM ExportsAreStoredInTime ==
  ASSUME ~AckLost
  PROVE  ExportSpec /\ []WorkEndsInTime => []ExportIsStored
<1>1. StoredInv => ExportIsStored
  BY DEF StoredInv, ReadyIsStored, ExportIsStored, Downloadable
<1>2. ExportInv /\ StoredInv /\ WorkEndsInTime /\ [ExportNext]_exportVars => StoredInv'
  BY StoredKeeps
<1> QED
  BY <1>1, <1>2, StoredStarts, ExportInvariant, PTL DEF ExportSpec

-----------------------------------------------------------------------------
(* The claims of exports.                                                  *)

\* The token is the fence of a claim.
LEMMA ExportFences ==
  ASSUME ExportInv, [ExportNext]_exportVars
  PROVE  ExportFenced
<1> USE DEF ExportInv
<1> SUFFICES ASSUME NEW x \in Exports
             PROVE  /\ exportLease[x].token \notin {None, exportLease'[x].token} =>
                         \/ exportLease[x].lapsed
                         \/ exporter[exportLease[x].token].job = x
                            /\ exporter'[exportLease[x].token] # exporter[exportLease[x].token]
                    /\ export[x].status \in {"READY", "FAILED", "EXPIRED"} =>
                         export'[x].status \in {export[x].status, "EXPIRED"}
  BY DEF ExportFenced
<1>1. CASE exportLease'[x].token = exportLease[x].token /\ export'[x].status = export[x].status
  BY <1>1
<1>2. ASSUME NEW w \in Workers, NEW y \in Exports, ClaimExpired(w, y)
      PROVE  /\ exportLease'[x].token = exportLease[x].token
             /\ export'[x].status \in {export[x].status, "EXPIRED"}
  BY <1>2 DEF ClaimExpired, ExportTypeOK, Jobs
<1>3. ASSUME NEW w \in Workers, NEW y \in Exports, ClaimExport(w, y), y = x
      PROVE  /\ export[x].status \in {"QUEUED", "PROCESSING"}
             /\ exportLease[x].token = None \/ exportLease[x].lapsed
  BY <1>3 DEF ClaimExport, ExportClaimable, Claimable, ExportsAreClaimed
<1>4. ASSUME NEW w \in Workers, NEW y \in Exports, ClaimExport(w, y), y # x
      PROVE  exportLease'[x].token = exportLease[x].token /\ export'[x].status = export[x].status
  BY <1>4 DEF ClaimExport, ExportTypeOK
<1>5. ASSUME NEW w \in Workers, exporter[w].job # x \/ ~Holds(exportLease[x], w),
             Complete(w) \/ CompleteUnacknowledged(w) \/ Fail(w)
      PROVE  exportLease'[x].token = exportLease[x].token /\ export'[x].status = export[x].status
  BY <1>5 DEF Complete, CompleteUnacknowledged, Completed, Fail, ExportTypeOK
<1>6. ASSUME NEW w \in Workers, exporter[w].job = x, Holds(exportLease[x], w),
             Complete(w) \/ CompleteUnacknowledged(w) \/ Fail(w)
      PROVE  /\ export[x].status = "PROCESSING"
             /\ exportLease[x].token = w /\ exporter'[w] # exporter[w]
  <2>1. exportLease[x].token = w /\ export[x].status = "PROCESSING"
    BY <1>6, NoneIsNoWorker DEF Holds, ExportsAreClaimed
  <2>2. exporter[w] \in Exporting /\ exporter \in [Workers -> Exporting]
    BY DEF ExportTypeOK
  <2>3. exporter[w].step \in {"complete", "fail"} /\ exporter'[w].step \in {"idle", "undo"}
    BY <1>6, <2>2
       DEF Complete, CompleteUnacknowledged, Fail, Rests, Goes, IdleExporter, Exporting
  <2> QED
    BY <2>1, <2>3
<1>7. ASSUME NEW w \in Workers, ExporterStep(w) \/ StopExporter(w)
      PROVE  \/ exportLease'[x].token = exportLease[x].token /\ export'[x].status = export[x].status
             \/ \E y \in Exports : ClaimExpired(w, y) \/ ClaimExport(w, y)
             \/ Complete(w) \/ CompleteUnacknowledged(w) \/ Fail(w)
  BY <1>7 DEF ExporterStep, StopExporter, DeleteExpired, Generate, Store, CompleteFails, Undo
<1>8. ASSUME NEW y \in Exports, LapseExport(y) \/ RetryExport(y)
      PROVE  exportLease'[x].token = exportLease[x].token /\ export'[x].status = export[x].status
  <2>1. /\ [exportLease[y] EXCEPT !.lapsed = TRUE].token = exportLease[y].token
        /\ [exportLease[y] EXCEPT !.due = TRUE].token = exportLease[y].token
    BY LeaseEnds DEF ExportTypeOK
  <2> QED
    BY <1>8, <2>1 DEF LapseExport, RetryExport, ExportTypeOK
<1>9. ASSUME NEW y \in Exports, NEW role, NEW branch, NEW t, NEW s,
             RequestExport(y, role, branch, t, s)
      PROVE  /\ exportLease'[x].token = exportLease[x].token
             /\ export'[x].status # export[x].status => export[x].status = "none"
  BY <1>9 DEF RequestExport, ExportTypeOK
<1>10. ASSUME UNCHANGED exportVars \/ (\E y \in Exports : FilePasses(y))
                \/ (\E t \in ReportTypes, b \in Branches : PostRow(t, b))
       PROVE  exportLease'[x].token = exportLease[x].token /\ export'[x].status = export[x].status
  BY <1>10 DEF exportVars, FilePasses, PostRow
<1> QED
  BY <1>1, <1>2, <1>3, <1>4, <1>5, <1>6, <1>7, <1>8, <1>9, <1>10 DEF ExportNext

-----------------------------------------------------------------------------
(* The archive.                                                            *)

ArchiveStatuses == {"none", "QUEUED", "RUNNING", "COMPLETED", "FAILED"}
Deletions == [status : {"none", "pending", "deleted"}, attempts : Nat, due : BOOLEAN]
Archiving == [step : {"idle", "delete", "deleted", "list", "pack", "commit", "undo", "fail"},
              month : 0..Months, records : SUBSET Receipts, batch : 0..MaxBatches,
              receipt : Receipts \cup {None}]

ArchiveTypeOK ==
  /\ month \in 1..Months
  /\ old \in SUBSET Receipts
  /\ archiveJob \in [1..Months -> ArchiveStatuses]
  /\ archiveLease \in [1..Months -> Leases]
  /\ record \in [Receipts -> 0..MaxBatches]
  /\ deletion \in [Receipts -> Deletions]
  /\ source \in SUBSET Receipts
  /\ package \in [Batches -> SUBSET Receipts]
  /\ unsure \in SUBSET Batches
  /\ archiver \in [Workers -> Archiving]
  /\ archiveStops \in Nat

\* A job has a claim exactly while it is running.
MonthsAreClaimed ==
  \A m \in 1..Months : archiveLease[m].token # None <=> archiveJob[m] = "RUNNING"

\* What a worker knows on its way: its month, the archived receipt whose source it deletes, the
\* package that holds its records, and that no record names a package it will take back,
\* unless the answer to their commit was lost.
ArchiverKnows(w) ==
  /\ archiver[w].step \in {"list", "pack", "commit", "undo", "fail"} => archiver[w].month \in 1..Months
  /\ archiver[w].step \in {"delete", "deleted"} => archiver[w].receipt \in Archived
  /\ archiver[w].step = "commit" =>
       /\ archiver[w].batch \in Batches /\ archiver[w].batch \notin unsure
       /\ archiver[w].records \subseteq package[archiver[w].batch]
       /\ \A r \in Receipts : record[r] # archiver[w].batch
  /\ archiver[w].step = "undo" =>
       /\ archiver[w].batch \in Batches
       /\ archiver[w].batch \in unsure \/ \A r \in Receipts : record[r] # archiver[w].batch

ArchiversKnow == \A w \in Workers : ArchiverKnows(w)

\* Nobody works on the package of somebody else.
OwnPackages ==
  \A v, w \in Workers : v # w /\ archiver[w].batch # 0 => archiver[v].batch # archiver[w].batch

\* Only what has a record is deleted at its source.
DeletedIsArchived ==
  \A r \in Receipts :
    /\ deletion[r].status # "none" => r \in Archived
    /\ r \notin source => r \in Archived

\* A record leads to its package.
ArchivedIsPacked == \A r \in Archived : r \in package[record[r]] \/ record[r] \in unsure

ArchiveInv ==
  /\ ArchiveTypeOK /\ MonthsAreClaimed /\ ArchiversKnow /\ OwnPackages
  /\ DeletedIsArchived /\ ArchivedIsPacked

LEMMA ArchivingTypes ==
  ASSUME NEW a \in Archiving
  PROVE  /\ \A step \in {"deleted", "fail", "undo"} : [a EXCEPT !.step = step] \in Archiving
         /\ \A r \in Receipts : [a EXCEPT !.step = "delete", !.receipt = r] \in Archiving
         /\ \A m \in 1..Months : [a EXCEPT !.step = "list", !.month = m] \in Archiving
         /\ \A S \in SUBSET Receipts : [a EXCEPT !.step = "pack", !.records = S] \in Archiving
         /\ \A b \in Batches, step \in {"commit", "undo"} :
              [a EXCEPT !.step = step, !.batch = b] \in Archiving
<1>1. \A step \in {"deleted", "fail", "undo"} : [a EXCEPT !.step = step] \in Archiving
  BY DEF Archiving
<1>2. \A r \in Receipts : [a EXCEPT !.step = "delete", !.receipt = r] \in Archiving
  BY DEF Archiving
<1>3. \A m \in 1..Months : [a EXCEPT !.step = "list", !.month = m] \in Archiving
  <2> SUFFICES ASSUME NEW m \in 1..Months
               PROVE  [a EXCEPT !.step = "list", !.month = m] \in Archiving
    OBVIOUS
  <2>1. m \in 0..Months
    BY ArchiveNumbers
  <2> QED
    BY <2>1 DEF Archiving
<1>4. \A S \in SUBSET Receipts : [a EXCEPT !.step = "pack", !.records = S] \in Archiving
  BY DEF Archiving
<1>5. \A b \in Batches, step \in {"commit", "undo"} :
        [a EXCEPT !.step = step, !.batch = b] \in Archiving
  <2> SUFFICES ASSUME NEW b \in Batches, NEW step \in {"commit", "undo"}
               PROVE  [a EXCEPT !.step = step, !.batch = b] \in Archiving
    OBVIOUS
  <2>1. b \in 0..MaxBatches
    BY ArchiveNumbers DEF Batches
  <2> QED
    BY <2>1 DEF Archiving
<1> QED
  BY <1>1, <1>2, <1>3, <1>4, <1>5

LEMMA ArchivingSteps ==
  ASSUME NEW a \in Archiving, NEW step
  PROVE  /\ [a EXCEPT !.step = step].step = step
         /\ [a EXCEPT !.step = step].month = a.month
         /\ [a EXCEPT !.step = step].records = a.records
         /\ [a EXCEPT !.step = step].batch = a.batch
         /\ [a EXCEPT !.step = step].receipt = a.receipt
BY DEF Archiving

LEMMA DeletionTypes ==
  ASSUME NEW d \in Deletions
  PROVE  /\ [d EXCEPT !.attempts = d.attempts + 1, !.due = FALSE] \in Deletions
         /\ [d EXCEPT !.due = TRUE] \in Deletions
         /\ [d EXCEPT !.status = "deleted"] \in Deletions
<1>1. [d EXCEPT !.attempts = d.attempts + 1, !.due = FALSE] \in Deletions
  <2>1. d.attempts \in Nat
    BY DEF Deletions
  <2>2. d.attempts + 1 \in Nat
    BY <2>1
  <2> QED
    BY <2>2 DEF Deletions
<1>2. [d EXCEPT !.due = TRUE] \in Deletions
  BY DEF Deletions
<1>3. [d EXCEPT !.status = "deleted"] \in Deletions
  BY DEF Deletions
<1> QED
  BY <1>1, <1>2, <1>3

LEMMA ArchiveStarts == ArchiveInit => ArchiveInv
<1> SUFFICES ASSUME ArchiveInit PROVE ArchiveInv
  OBVIOUS
<1>1. IdleArchiver \in Archiving
  BY ArchiveNumbers DEF IdleArchiver, Archiving
<1>2. NoDeletion \in Deletions
  BY DEF NoDeletion, Deletions
<1>3. 1 \in 1..Months /\ 0 \in 0..MaxBatches
  BY ArchiveNumbers
<1>4. ArchiveTypeOK
  BY <1>1, <1>2, <1>3, FreshLeaseType DEF ArchiveInit, ArchiveTypeOK, ArchiveStatuses
<1>5. Archived = {}
  BY DEF ArchiveInit, Archived
<1>6. \A w \in Workers : archiver[w].step = "idle" /\ archiver[w].batch = 0
  BY DEF ArchiveInit, IdleArchiver
<1>7. MonthsAreClaimed
  BY DEF ArchiveInit, MonthsAreClaimed, FreshLease
<1>8. \A r \in Receipts : deletion[r].status = "none" /\ r \in source
  BY DEF ArchiveInit, NoDeletion
<1> QED
  BY <1>4, <1>5, <1>6, <1>7, <1>8
     DEF ArchiveInv, ArchiversKnow, ArchiverKnows, OwnPackages, DeletedIsArchived, ArchivedIsPacked

\* The key a package is stored under is free.
LEMMA KeyIsFree ==
  ASSUME FreeKeys # {}
  PROVE  (CHOOSE b \in FreeKeys : \A c \in FreeKeys : b <= c) \in FreeKeys
<1>1. FreeKeys \in SUBSET Nat
  BY ArchiveNumbers DEF FreeKeys, Batches
<1>2. \E b \in FreeKeys : \A c \in FreeKeys : b <= c
  BY <1>1, LeastNumber
<1> QED
  BY <1>2

\* What a step of a worker does to its own call.
LEMMA ArchiverMoves ==
  ASSUME ArchiveTypeOK, NEW w \in Workers
  PROVE  /\ \A step : ArchiverGoes(w, step) =>
              /\ archiver'[w] = [archiver[w] EXCEPT !.step = step]
              /\ archiver'[w].step = step /\ archiver'[w].month = archiver[w].month
              /\ archiver'[w].records = archiver[w].records
              /\ archiver'[w].batch = archiver[w].batch
              /\ archiver'[w].receipt = archiver[w].receipt
              /\ \A v \in Workers \ {w} : archiver'[v] = archiver[v]
         /\ ArchiverRests(w) =>
              /\ archiver'[w].step = "idle" /\ archiver'[w].batch = 0
              /\ \A v \in Workers \ {w} : archiver'[v] = archiver[v]
         /\ \A step \in {"deleted", "fail", "undo"} : ArchiverGoes(w, step) =>
              archiver' \in [Workers -> Archiving]
         /\ ArchiverRests(w) => archiver' \in [Workers -> Archiving]
<1>1. archiver \in [Workers -> Archiving] /\ archiver[w] \in Archiving
  BY DEF ArchiveTypeOK
<1>2. IdleArchiver \in Archiving
  BY ArchiveNumbers DEF IdleArchiver, Archiving
<1>3. ASSUME NEW step, ArchiverGoes(w, step)
      PROVE  /\ archiver'[w] = [archiver[w] EXCEPT !.step = step]
             /\ \A v \in Workers \ {w} : archiver'[v] = archiver[v]
  BY <1>1, <1>3 DEF ArchiverGoes
<1>4. ASSUME NEW step, ArchiverGoes(w, step)
      PROVE  /\ archiver'[w].step = step /\ archiver'[w].month = archiver[w].month
             /\ archiver'[w].records = archiver[w].records
             /\ archiver'[w].batch = archiver[w].batch
             /\ archiver'[w].receipt = archiver[w].receipt
  <2>1. archiver[w] \in Archiving /\ archiver'[w] = [archiver[w] EXCEPT !.step = step]
    BY <1>1, <1>3, <1>4
  <2> QED
    BY <2>1, ArchivingSteps
<1>5. ASSUME ArchiverRests(w)
      PROVE  /\ archiver'[w].step = "idle" /\ archiver'[w].batch = 0
             /\ \A v \in Workers \ {w} : archiver'[v] = archiver[v]
             /\ archiver' \in [Workers -> Archiving]
  BY <1>1, <1>2, <1>5 DEF ArchiverRests, IdleArchiver
<1>6. ASSUME NEW step \in {"deleted", "fail", "undo"}, ArchiverGoes(w, step)
      PROVE  archiver' \in [Workers -> Archiving]
  <2>1. [archiver[w] EXCEPT !.step = step] \in Archiving
    BY <1>1, ArchivingTypes
  <2> QED
    BY <1>1, <1>6, <2>1 DEF ArchiverGoes
<1> QED
  BY <1>3, <1>4, <1>5, <1>6

LEMMA ArchiveDeletes ==
  ASSUME ArchiveInv, NEW w \in Workers, NEW r \in Receipts, ClaimDeletion(w, r)
  PROVE  ArchiveInv'
<1> USE DEF ArchiveInv
<1>1. archiver[w] \in Archiving /\ deletion[r] \in Deletions
  BY DEF ArchiveTypeOK
<1>2. [archiver[w] EXCEPT !.step = "delete", !.receipt = r] \in Archiving
  BY <1>1, ArchivingTypes
<1>3. [deletion[r] EXCEPT !.attempts = deletion[r].attempts + 1, !.due = FALSE] \in Deletions
  BY <1>1, DeletionTypes
<1>4. archiver' \in [Workers -> Archiving] /\ deletion' \in [Receipts -> Deletions]
  BY <1>2, <1>3 DEF ClaimDeletion, ArchiveTypeOK
<1>5. UNCHANGED <<month, old, archiveJob, archiveLease, record, source, package, unsure, archiveStops>>
  BY DEF ClaimDeletion
<1>6. /\ archiver'[w].step = "delete" /\ archiver'[w].receipt = r
      /\ archiver'[w].batch = archiver[w].batch
      /\ \A v \in Workers \ {w} : archiver'[v] = archiver[v]
  BY <1>1 DEF ClaimDeletion, ArchiveTypeOK, Archiving
<1>7. /\ deletion'[r].status = deletion[r].status /\ deletion[r].status = "pending"
      /\ \A q \in Receipts \ {r} : deletion'[q] = deletion[q]
  BY <1>1 DEF ClaimDeletion, Deletable, ArchiveTypeOK, Deletions
<1>8. ArchiveTypeOK'
  BY <1>4, <1>5 DEF ArchiveTypeOK
<1>9. r \in Archived /\ Archived' = Archived
  BY <1>5, <1>7 DEF DeletedIsArchived, Archived
<1>10. ArchiversKnow'
  BY <1>5, <1>6, <1>9 DEF ArchiversKnow, ArchiverKnows
<1>11. OwnPackages'
  BY <1>6 DEF OwnPackages
<1>12. DeletedIsArchived' /\ ArchivedIsPacked' /\ MonthsAreClaimed'
  BY <1>5, <1>7, <1>9 DEF DeletedIsArchived, ArchivedIsPacked, MonthsAreClaimed
<1> QED
  BY <1>8, <1>10, <1>11, <1>12

\* A step that writes no record, deletion, source or package.
LEMMA ArchiverWalks ==
  ASSUME ArchiveInv, NEW w \in Workers,
         UNCHANGED <<month, old, record, deletion, source, package, unsure>>,
         archiver' \in [Workers -> Archiving], \A v \in Workers \ {w} : archiver'[v] = archiver[v],
         archiver'[w].batch \in {0, archiver[w].batch}, ArchiverKnows(w)',
         archiveJob' \in [1..Months -> ArchiveStatuses], archiveLease' \in [1..Months -> Leases],
         MonthsAreClaimed', archiveStops' \in Nat
  PROVE  ArchiveInv'
<1> USE DEF ArchiveInv
<1>1. ArchiveTypeOK'
  BY DEF ArchiveTypeOK
<1>2. Archived' = Archived
  BY DEF Archived
<1>3. ArchiversKnow'
  BY <1>2 DEF ArchiversKnow, ArchiverKnows
<1>4. OwnPackages'
  BY DEF OwnPackages
<1>5. DeletedIsArchived' /\ ArchivedIsPacked'
  BY <1>2 DEF DeletedIsArchived, ArchivedIsPacked
<1> QED
  BY <1>1, <1>3, <1>4, <1>5

\* A step that ends or begins the claim of a month.
LEMMA MonthChanges ==
  ASSUME ArchiveTypeOK, MonthsAreClaimed, NEW m \in 1..Months, NEW s \in ArchiveStatuses,
         NEW l \in Leases, l.token # None <=> s = "RUNNING",
         archiveJob' = [archiveJob EXCEPT ![m] = s], archiveLease' = [archiveLease EXCEPT ![m] = l]
  PROVE  /\ archiveJob' \in [1..Months -> ArchiveStatuses]
         /\ archiveLease' \in [1..Months -> Leases] /\ MonthsAreClaimed'
<1>1. archiveJob' \in [1..Months -> ArchiveStatuses] /\ archiveLease' \in [1..Months -> Leases]
  BY DEF ArchiveTypeOK
<1>2. /\ archiveJob'[m] = s /\ archiveLease'[m] = l
      /\ \A n \in (1..Months) \ {m} : archiveJob'[n] = archiveJob[n] /\ archiveLease'[n] = archiveLease[n]
  BY DEF ArchiveTypeOK
<1> QED
  BY <1>1, <1>2 DEF MonthsAreClaimed

LEMMA ArchiverWalksOn ==
  ASSUME ArchiveInv, NEW w \in Workers,
         \/ EnsureJob(w) \/ CompleteJob(w) \/ FailBatch(w) \/ CompleteBatchFails(w) \/ StopArchiver(w)
         \/ \E m \in 1..Months : ClaimMonth(w, m)
         \/ \E S \in SUBSET Receipts : List(w, S)
  PROVE  ArchiveInv'
<1> USE DEF ArchiveInv
<1>1. /\ archiver \in [Workers -> Archiving] /\ archiver[w] \in Archiving
      /\ archiveJob \in [1..Months -> ArchiveStatuses] /\ archiveLease \in [1..Months -> Leases]
      /\ archiveStops \in Nat /\ month \in 1..Months
  BY DEF ArchiveTypeOK
<1>2. ArchiverKnows(w)
  BY DEF ArchiversKnow
<1>3. ASSUME EnsureJob(w) PROVE ArchiveInv'
  <2>1. /\ archiveJob[month] = "none" /\ archiveJob' = [archiveJob EXCEPT ![month] = "QUEUED"]
        /\ UNCHANGED <<month, old, archiveLease, record, deletion, source, package, unsure, archiver,
                       archiveStops>>
    BY <1>3 DEF EnsureJob
  <2>2. archiveLease[month].token = None
    BY <1>1, <2>1 DEF MonthsAreClaimed
  <2>3. archiveLease[month] \in Leases /\ archiveLease' = [archiveLease EXCEPT ![month] = archiveLease[month]]
    BY <1>1, <2>1
  <2>4. /\ archiveJob' \in [1..Months -> ArchiveStatuses]
        /\ archiveLease' \in [1..Months -> Leases] /\ MonthsAreClaimed'
    <3>1. "QUEUED" \in ArchiveStatuses
      BY DEF ArchiveStatuses
    <3> QED
      BY <1>1, <2>1, <2>2, <2>3, <3>1, MonthChanges
  <2>5. ArchiverKnows(w)'
    BY <1>2, <2>1 DEF ArchiverKnows, Archived
  <2> QED
    BY <1>1, <2>1, <2>4, <2>5, ArchiverWalks
<1>4. ASSUME CompleteJob(w) \/ FailBatch(w) PROVE ArchiveInv'
  <2> DEFINE m == archiver[w].month
  <2>1. /\ m \in 1..Months
        /\ UNCHANGED <<month, old, record, deletion, source, package, unsure, archiveStops>>
        /\ ArchiverRests(w)
    BY <1>2, <1>4 DEF CompleteJob, FailBatch, ArchiverKnows
  <2>2. /\ archiver' \in [Workers -> Archiving] /\ archiver'[w].step = "idle" /\ archiver'[w].batch = 0
        /\ \A v \in Workers \ {w} : archiver'[v] = archiver[v]
    BY <2>1, ArchiverMoves
  <2>3. ArchiverKnows(w)'
    BY <2>2 DEF ArchiverKnows
  <2>4. /\ archiveJob' \in [1..Months -> ArchiveStatuses]
        /\ archiveLease' \in [1..Months -> Leases] /\ MonthsAreClaimed'
    <3>1. CASE ~Holds(archiveLease[m], w)
      BY <1>1, <1>4, <3>1 DEF CompleteJob, FailBatch, MonthsAreClaimed
    <3>2. CASE Holds(archiveLease[m], w) /\ CompleteJob(w)
      <4>1. /\ archiveJob' = [archiveJob EXCEPT ![m] = "COMPLETED"]
            /\ archiveLease' = [archiveLease EXCEPT ![m] = FreshLease]
        BY <3>2 DEF CompleteJob
      <4>2. "COMPLETED" \in ArchiveStatuses /\ FreshLease.token = None /\ FreshLease \in Leases
        BY FreshLeaseType DEF ArchiveStatuses, FreshLease
      <4> HIDE DEF m
      <4> QED
        BY <2>1, <4>1, <4>2, MonthChanges
    <3>3. CASE Holds(archiveLease[m], w) /\ FailBatch(w)
      <4> DEFINE s == IF archiveLease[m].attempts >= MaxAttempts THEN "FAILED" ELSE "QUEUED"
                 l == Released(archiveLease[m])
      <4>1. archiveJob' = [archiveJob EXCEPT ![m] = s] /\ archiveLease' = [archiveLease EXCEPT ![m] = l]
        BY <1>1, <2>1, <3>3 DEF FailBatch
      <4>2. s \in ArchiveStatuses /\ s # "RUNNING"
        BY DEF ArchiveStatuses
      <4>3. l \in Leases /\ l.token = None
        BY <1>1, <2>1, LeaseTypes, LeaseEnds
      <4> HIDE DEF m, s, l
      <4> QED
        BY <2>1, <4>1, <4>2, <4>3, MonthChanges
    <3> QED
      BY <1>4, <3>1, <3>2, <3>3
  <2> QED
    BY <1>1, <2>1, <2>2, <2>3, <2>4, ArchiverWalks
<1>5. ASSUME CompleteBatchFails(w) PROVE ArchiveInv'
  <2>1. /\ archiver[w].step = "commit" /\ ArchiverGoes(w, "undo")
        /\ UNCHANGED <<month, old, archiveJob, archiveLease, record, deletion, source, package, unsure,
                       archiveStops>>
    BY <1>5 DEF CompleteBatchFails
  <2>2. /\ archiver' \in [Workers -> Archiving] /\ archiver'[w].step = "undo"
        /\ archiver'[w].month = archiver[w].month /\ archiver'[w].batch = archiver[w].batch
        /\ \A v \in Workers \ {w} : archiver'[v] = archiver[v]
    BY <2>1, ArchiverMoves
  <2>3. ArchiverKnows(w)'
    BY <1>2, <2>1, <2>2 DEF ArchiverKnows
  <2>4. MonthsAreClaimed'
    BY <2>1 DEF MonthsAreClaimed
  <2> QED
    BY <1>1, <2>1, <2>2, <2>3, <2>4, ArchiverWalks
<1>6. ASSUME StopArchiver(w) PROVE ArchiveInv'
  <2>1. /\ archiveStops' \in Nat /\ ArchiverRests(w)
        /\ UNCHANGED <<month, old, archiveJob, archiveLease, record, deletion, source, package, unsure>>
    BY <1>1, <1>6 DEF StopArchiver
  <2>2. /\ archiver' \in [Workers -> Archiving] /\ archiver'[w].step = "idle" /\ archiver'[w].batch = 0
        /\ \A v \in Workers \ {w} : archiver'[v] = archiver[v]
    BY <2>1, ArchiverMoves
  <2>3. ArchiverKnows(w)' /\ MonthsAreClaimed'
    BY <2>1, <2>2 DEF ArchiverKnows, MonthsAreClaimed
  <2> QED
    BY <1>1, <2>1, <2>2, <2>3, ArchiverWalks
<1>7. ASSUME NEW m \in 1..Months, ClaimMonth(w, m) PROVE ArchiveInv'
  <2>1. /\ archiver' = [archiver EXCEPT ![w] = [archiver[w] EXCEPT !.step = "list", !.month = m]]
        /\ archiveJob' = [archiveJob EXCEPT ![m] = "RUNNING"]
        /\ archiveLease' = [archiveLease EXCEPT ![m] = Claim(archiveLease[m], w)]
        /\ UNCHANGED <<month, old, record, deletion, source, package, unsure, archiveStops>>
    BY <1>1, <1>7 DEF ClaimMonth
  <2>2. Claim(archiveLease[m], w) \in Leases /\ Claim(archiveLease[m], w).token # None
    BY <1>1, LeaseTypes, NoneIsNoWorker DEF Claim
  <2>3. /\ archiveJob' \in [1..Months -> ArchiveStatuses]
        /\ archiveLease' \in [1..Months -> Leases] /\ MonthsAreClaimed'
    <3>1. "RUNNING" \in ArchiveStatuses
      BY DEF ArchiveStatuses
    <3> QED
      BY <2>1, <2>2, <3>1, MonthChanges
  <2>4. [archiver[w] EXCEPT !.step = "list", !.month = m] \in Archiving
    BY <1>1, ArchivingTypes
  <2>5. /\ archiver' \in [Workers -> Archiving]
        /\ \A v \in Workers \ {w} : archiver'[v] = archiver[v]
        /\ archiver'[w] = [archiver[w] EXCEPT !.step = "list", !.month = m]
    BY <1>1, <2>1, <2>4
  <2>6. /\ archiver'[w].step = "list" /\ archiver'[w].month = m
        /\ archiver'[w].batch = archiver[w].batch
    BY <1>1, <2>5 DEF Archiving
  <2>7. ArchiverKnows(w)'
    BY <2>6 DEF ArchiverKnows
  <2> QED
    BY <1>1, <2>1, <2>3, <2>5, <2>6, <2>7, ArchiverWalks
<1>8. ASSUME NEW S \in SUBSET Receipts, List(w, S) PROVE ArchiveInv'
  <2>1. /\ archiver' = [archiver EXCEPT ![w] = [archiver[w] EXCEPT !.step = "pack", !.records = S]]
        /\ UNCHANGED <<month, old, archiveJob, archiveLease, record, deletion, source, package,
                       unsure, archiveStops>>
        /\ archiver[w].step = "list"
    BY <1>1, <1>8 DEF List
  <2>2. [archiver[w] EXCEPT !.step = "pack", !.records = S] \in Archiving
    BY <1>1, ArchivingTypes
  <2>3. /\ archiver' \in [Workers -> Archiving]
        /\ \A v \in Workers \ {w} : archiver'[v] = archiver[v]
        /\ archiver'[w] = [archiver[w] EXCEPT !.step = "pack", !.records = S]
    BY <1>1, <2>1, <2>2
  <2>4. /\ archiver'[w].step = "pack" /\ archiver'[w].month = archiver[w].month
        /\ archiver'[w].batch = archiver[w].batch
    BY <1>1, <2>3 DEF Archiving
  <2>5. ArchiverKnows(w)' /\ MonthsAreClaimed'
    BY <1>2, <2>1, <2>4 DEF ArchiverKnows, MonthsAreClaimed
  <2> QED
    BY <1>1, <2>1, <2>3, <2>4, <2>5, ArchiverWalks
<1> QED
  BY <1>3, <1>4, <1>5, <1>6, <1>7, <1>8

LEMMA SourcesGo ==
  ASSUME ArchiveInv, NEW w \in Workers, DeleteSource(w) \/ MarkDeleted(w)
  PROVE  ArchiveInv'
<1> DEFINE r == archiver[w].receipt
<1> USE DEF ArchiveInv
<1>1. r \in Archived /\ r \in Receipts
  BY DEF ArchiversKnow, ArchiverKnows, DeleteSource, MarkDeleted, Archived
<1>2. UNCHANGED <<month, old, archiveJob, archiveLease, record, package, unsure, archiveStops>>
  BY DEF DeleteSource, MarkDeleted
<1>3. ArchiverGoes(w, "deleted") \/ ArchiverRests(w)
  BY DEF DeleteSource, MarkDeleted
<1>4. ArchiverGoes(w, "deleted") => archiver[w].step = "delete"
  <2>1. ASSUME ArchiverGoes(w, "deleted"), ArchiverRests(w) PROVE FALSE
    <3>1. archiver'[w].step = "deleted"
      BY <2>1, ArchiverMoves
    <3>2. archiver'[w].step = "idle"
      BY <2>1, ArchiverMoves
    <3> QED
      BY <3>1, <3>2
  <2> QED
    BY <2>1 DEF DeleteSource, MarkDeleted
<1>5. /\ archiver' \in [Workers -> Archiving]
      /\ \A v \in Workers \ {w} : archiver'[v] = archiver[v]
      /\ archiver'[w].batch \in {0, archiver[w].batch}
      /\ \/ archiver'[w].step = "idle"
         \/ archiver'[w].step = "deleted" /\ archiver'[w].receipt = r
  BY <1>3, ArchiverMoves
<1>6. Archived' = Archived
  BY <1>2 DEF Archived
<1>7. ArchiversKnow'
  BY <1>1, <1>2, <1>5, <1>6 DEF ArchiversKnow, ArchiverKnows
<1>8. OwnPackages'
  BY <1>5 DEF OwnPackages
<1>9. MonthsAreClaimed' /\ ArchivedIsPacked'
  BY <1>2, <1>6 DEF MonthsAreClaimed, ArchivedIsPacked
<1>10. source' \in SUBSET Receipts /\ \A q \in Receipts : q \notin source' => q \notin source \/ q = r
  BY DEF DeleteSource, MarkDeleted, ArchiveTypeOK
<1>11. /\ deletion' \in [Receipts -> Deletions]
       /\ \A q \in Receipts : deletion'[q].status # "none" => deletion[q].status # "none" \/ q = r
  <2>1. deletion \in [Receipts -> Deletions] /\ [deletion[r] EXCEPT !.status = "deleted"] \in Deletions
    BY <1>1, DeletionTypes DEF ArchiveTypeOK
  <2>2. deletion' \in {deletion, [deletion EXCEPT ![r] = [deletion[r] EXCEPT !.status = "deleted"]]}
    BY <1>1, <2>1 DEF DeleteSource, MarkDeleted
  <2> HIDE DEF r
  <2> QED
    BY <1>1, <2>1, <2>2
<1> HIDE DEF r
<1>12. DeletedIsArchived'
  BY <1>1, <1>6, <1>10, <1>11 DEF DeletedIsArchived
<1>13. ArchiveTypeOK'
  BY <1>2, <1>5, <1>10, <1>11 DEF ArchiveTypeOK
<1> QED
  BY <1>7, <1>8, <1>9, <1>12, <1>13

LEMMA Packs ==
  ASSUME ArchiveInv, NEW w \in Workers, Pack(w)
  PROVE  ArchiveInv'
<1> DEFINE S == archiver[w].records
           b == CHOOSE b \in FreeKeys : \A c \in FreeKeys : b <= c
<1> USE DEF ArchiveInv
<1>1. /\ archiver \in [Workers -> Archiving] /\ archiver[w] \in Archiving /\ S \in SUBSET Receipts
      /\ source \in SUBSET Receipts /\ package \in [Batches -> SUBSET Receipts]
  BY DEF ArchiveTypeOK, Archiving
<1>2. UNCHANGED <<month, old, archiveJob, archiveLease, record, deletion, source, unsure, archiveStops>>
  BY DEF Pack
<1>3. Archived' = Archived
  BY <1>2 DEF Archived
<1>4. MonthsAreClaimed' /\ DeletedIsArchived'
  BY <1>2, <1>3 DEF MonthsAreClaimed, DeletedIsArchived
<1>5. archiver[w].step = "pack" /\ archiver[w].month \in 1..Months
  BY DEF Pack, ArchiversKnow, ArchiverKnows
<1>6. ASSUME ArchiverGoes(w, "fail"), UNCHANGED package PROVE ArchiveInv'
  <2>1. /\ archiver' \in [Workers -> Archiving] /\ archiver'[w].step = "fail"
        /\ archiver'[w].month = archiver[w].month /\ archiver'[w].batch = archiver[w].batch
        /\ \A v \in Workers \ {w} : archiver'[v] = archiver[v]
    BY <1>6, ArchiverMoves
  <2>2. ArchiverKnows(w)'
    BY <1>5, <2>1 DEF ArchiverKnows
  <2>3. /\ archiveJob' \in [1..Months -> ArchiveStatuses] /\ archiveLease' \in [1..Months -> Leases]
        /\ archiveStops' \in Nat
    BY <1>2 DEF ArchiveTypeOK
  <2> QED
    BY <1>2, <1>4, <1>6, <2>1, <2>2, <2>3, ArchiverWalks
<1>7. ASSUME ReadsSources(S), FreeKeys # {}, package' = [package EXCEPT ![b] = S \cap source],
             NEW step \in {"commit", "undo"},
             archiver' = [archiver EXCEPT ![w].step = step, ![w].batch = b]
      PROVE  ArchiveInv'
  <2>1. b \in FreeKeys
    BY <1>7, KeyIsFree
  <2> HIDE DEF b
  <2>2. /\ b \in Batches /\ package[b] = {} /\ b \notin unsure
        /\ \A r \in Receipts : record[r] # b
        /\ \A v \in Workers : archiver[v].batch # b
    BY <2>1 DEF FreeKeys
  <2>3. [archiver[w] EXCEPT !.step = step, !.batch = b] \in Archiving
    BY <1>1, <2>2, ArchivingTypes
  <2>4. /\ archiver' \in [Workers -> Archiving]
        /\ \A v \in Workers \ {w} : archiver'[v] = archiver[v]
        /\ archiver'[w] = [archiver[w] EXCEPT !.step = step, !.batch = b]
    BY <1>1, <1>7, <2>3
  <2>5. /\ archiver'[w].step = step /\ archiver'[w].batch = b
        /\ archiver'[w].month = archiver[w].month /\ archiver'[w].records = S
    BY <1>1, <2>4 DEF Archiving
  <2>6. S \cap source = S
    BY <1>7 DEF ReadsSources
  <2> HIDE DEF S
  <2>7. /\ package' \in [Batches -> SUBSET Receipts] /\ package'[b] = S
        /\ \A c \in Batches \ {b} : package'[c] = package[c]
    BY <1>1, <1>7, <2>2, <2>6
  <2>8. ArchiveTypeOK'
    BY <1>2, <2>4, <2>7 DEF ArchiveTypeOK
  <2>9. ArchiverKnows(w)'
    BY <1>2, <1>5, <2>2, <2>5, <2>7 DEF ArchiverKnows
  <2>10. ASSUME NEW v \in Workers \ {w} PROVE ArchiverKnows(v)'
    <3>1. ArchiverKnows(v) /\ archiver'[v] = archiver[v] /\ archiver[v].batch # b
      BY <2>2, <2>4 DEF ArchiversKnow
    <3> QED
      BY <1>2, <1>3, <2>7, <3>1 DEF ArchiverKnows
  <2>11. ArchiversKnow'
    BY <2>9, <2>10 DEF ArchiversKnow
  <2>12. OwnPackages'
    <3> SUFFICES ASSUME NEW u \in Workers, NEW v \in Workers, u # v, archiver'[v].batch # 0
                 PROVE  archiver'[u].batch # archiver'[v].batch
      BY DEF OwnPackages
    <3>1. CASE u = w
      <4>1. archiver'[v].batch = archiver[v].batch /\ archiver[v].batch # b
        BY <2>2, <2>4, <3>1
      <4> QED
        BY <2>5, <3>1, <4>1
    <3>2. CASE v = w
      <4>1. archiver'[u].batch = archiver[u].batch /\ archiver[u].batch # b
        BY <2>2, <2>4, <3>2
      <4> QED
        BY <2>5, <3>2, <4>1
    <3>3. CASE u # w /\ v # w
      BY <2>4, <3>3 DEF OwnPackages
    <3> QED
      BY <3>1, <3>2, <3>3
  <2>13. ArchivedIsPacked'
    <3> SUFFICES ASSUME NEW r \in Archived'
                 PROVE  (r \in package[record[r]] \/ record[r] \in unsure)'
      BY DEF ArchivedIsPacked
    <3>1. r \in Archived /\ record'[r] = record[r] /\ r \in Receipts
      BY <1>2, <1>3 DEF Archived
    <3>2. record[r] \in Batches
      BY <3>1, ArchiveNumbers DEF ArchiveTypeOK, Archived, Batches
    <3>3. record[r] # b
      BY <2>2, <3>1
    <3> QED
      BY <1>2, <2>7, <3>1, <3>2, <3>3 DEF ArchivedIsPacked
  <2> QED
    BY <1>4, <2>8, <2>11, <2>12, <2>13
<1> QED
  BY <1>6, <1>7 DEF Pack

LEMMA Records ==
  ASSUME ArchiveInv, NEW w \in Workers, CompleteBatch(w) \/ CompleteBatchUnacknowledged(w)
  PROVE  ArchiveInv'
<1> DEFINE S == archiver[w].records
           m == archiver[w].month
           b == archiver[w].batch
<1> USE DEF ArchiveInv
<1>1. /\ archiver[w].step = "commit" /\ Recorded(w)
      /\ UNCHANGED <<month, old, source, package, archiveStops>>
      /\ \/ UNCHANGED unsure /\ ArchiverRests(w)
         \/ unsure' = unsure \cup {b} /\ ArchiverGoes(w, "undo")
  BY DEF CompleteBatch, CompleteBatchUnacknowledged
<1>2. /\ m \in 1..Months /\ b \in Batches /\ b \notin unsure /\ S \subseteq package[b]
      /\ \A r \in Receipts : record[r] # b
  BY <1>1 DEF ArchiversKnow, ArchiverKnows
<1>3. /\ S \in SUBSET Receipts /\ b \in 0..MaxBatches
  BY DEF ArchiveTypeOK, Archiving
<1>4. /\ S \cap Archived = {}
      /\ record' = [r \in Receipts |-> IF r \in S THEN b ELSE record[r]]
      /\ deletion' = [r \in Receipts |-> IF r \in S
                        THEN [status |-> "pending", attempts |-> 0, due |-> TRUE] ELSE deletion[r]]
      /\ archiveJob' = [archiveJob EXCEPT ![m] = "QUEUED"]
      /\ archiveLease' = [archiveLease EXCEPT ![m] = FreshLease]
  BY <1>1 DEF Recorded, OnlyOnce
<1>5. /\ archiver' \in [Workers -> Archiving]
      /\ \A v \in Workers \ {w} : archiver'[v] = archiver[v]
      /\ \/ archiver'[w].step = "idle" /\ archiver'[w].batch = 0
         \/ /\ archiver'[w].step = "undo" /\ archiver'[w].batch = b /\ archiver'[w].month = m
            /\ b \in unsure'
  BY <1>1, ArchiverMoves
<1>6. \A v \in Workers \ {w} : archiver[v].batch # b
  BY <1>2 DEF OwnPackages, Batches
<1> HIDE DEF S, m, b
<1>7. /\ archiveJob' \in [1..Months -> ArchiveStatuses]
      /\ archiveLease' \in [1..Months -> Leases] /\ MonthsAreClaimed'
  <2>1. "QUEUED" \in ArchiveStatuses /\ FreshLease.token = None /\ FreshLease \in Leases
    BY FreshLeaseType DEF ArchiveStatuses, FreshLease
  <2> QED
    BY <1>2, <1>4, <2>1, MonthChanges
<1>8. ArchiveTypeOK'
  <2>1. record' \in [Receipts -> 0..MaxBatches]
    BY <1>3, <1>4 DEF ArchiveTypeOK
  <2>2. deletion' \in [Receipts -> Deletions]
    <3>1. [status |-> "pending", attempts |-> 0, due |-> TRUE] \in Deletions
      BY DEF Deletions
    <3> QED
      BY <1>4, <3>1 DEF ArchiveTypeOK
  <2>3. unsure' \in SUBSET Batches
    BY <1>1, <1>2 DEF ArchiveTypeOK
  <2> QED
    BY <1>1, <1>5, <1>7, <2>1, <2>2, <2>3 DEF ArchiveTypeOK
<1>9. /\ \A r \in S : record'[r] = b
      /\ \A r \in Receipts \ S : record'[r] = record[r] /\ deletion'[r] = deletion[r]
  BY <1>3, <1>4
<1>10. Archived' = Archived \cup S
  <2>1. b # 0
    BY <1>2 DEF Batches
  <2> QED
    BY <1>3, <1>4, <1>9, <2>1 DEF Archived
<1>11. ArchiverKnows(w)'
  BY <1>2, <1>5 DEF ArchiverKnows
<1>12. ASSUME NEW v \in Workers \ {w} PROVE ArchiverKnows(v)'
  <2>1. ArchiverKnows(v) /\ archiver'[v] = archiver[v] /\ archiver[v].batch # b
    BY <1>5, <1>6 DEF ArchiversKnow
  <2>2. \A r \in Receipts : record'[r] \in {b, record[r]}
    BY <1>3, <1>9
  <2>3. unsure \subseteq unsure' /\ unsure' \subseteq unsure \cup {b} /\ package' = package
    BY <1>1
  <2> QED
    BY <1>10, <2>1, <2>2, <2>3 DEF ArchiverKnows
<1>13. ArchiversKnow'
  BY <1>11, <1>12 DEF ArchiversKnow
<1>14. OwnPackages'
  <2>1. archiver'[w].batch \in {0, archiver[w].batch}
    BY <1>5 DEF b
  <2> QED
    BY <1>5, <2>1 DEF OwnPackages
<1>15. DeletedIsArchived'
  BY <1>1, <1>9, <1>10 DEF DeletedIsArchived
<1>16. ArchivedIsPacked'
  <2>1. unsure \subseteq unsure' /\ package' = package
    BY <1>1
  <2>2. \A r \in Archived : r \in Receipts \ S
    BY <1>4 DEF Archived
  <2> QED
    BY <1>2, <1>9, <1>10, <2>1, <2>2 DEF ArchivedIsPacked
<1> QED
  BY <1>7, <1>8, <1>13, <1>14, <1>15, <1>16

LEMMA PackagesGo ==
  ASSUME ArchiveInv, NEW w \in Workers, UndoPackage(w)
  PROVE  ArchiveInv'
<1> DEFINE b == archiver[w].batch
<1> USE DEF ArchiveInv
<1>1. /\ archiver[w].step = "undo" /\ ArchiverGoes(w, "fail")
      /\ package' \in {package, [package EXCEPT ![b] = {}]}
      /\ UNCHANGED <<month, old, archiveJob, archiveLease, record, deletion, source, unsure,
                     archiveStops>>
  BY DEF UndoPackage
<1>2. /\ b \in Batches /\ archiver[w].month \in 1..Months
      /\ b \in unsure \/ \A r \in Receipts : record[r] # b
  BY <1>1 DEF ArchiversKnow, ArchiverKnows
<1>3. /\ archiver' \in [Workers -> Archiving]
      /\ archiver'[w].step = "fail" /\ archiver'[w].month = archiver[w].month
      /\ archiver'[w].batch = b
      /\ \A v \in Workers \ {w} : archiver'[v] = archiver[v]
  BY <1>1, ArchiverMoves
<1>4. \A v \in Workers \ {w} : archiver[v].batch # b
  BY <1>2 DEF OwnPackages, Batches
<1>5. Archived' = Archived
  BY <1>1 DEF Archived
<1> HIDE DEF b
<1>6. /\ package' \in [Batches -> SUBSET Receipts]
      /\ \A c \in Batches \ {b} : package'[c] = package[c]
  BY <1>1, <1>2 DEF ArchiveTypeOK
<1>7. ArchiveTypeOK'
  BY <1>1, <1>3, <1>6 DEF ArchiveTypeOK
<1>8. ArchiverKnows(w)'
  BY <1>2, <1>3 DEF ArchiverKnows
<1>9. ASSUME NEW v \in Workers \ {w} PROVE ArchiverKnows(v)'
  <2>1. ArchiverKnows(v) /\ archiver'[v] = archiver[v] /\ archiver[v].batch # b
    BY <1>3, <1>4 DEF ArchiversKnow
  <2> QED
    BY <1>1, <1>5, <1>6, <2>1 DEF ArchiverKnows
<1>10. OwnPackages'
  <2>1. archiver'[w].batch \in {0, archiver[w].batch}
    BY <1>3 DEF b
  <2> QED
    BY <1>3, <2>1 DEF OwnPackages
<1>11. MonthsAreClaimed' /\ DeletedIsArchived'
  BY <1>1, <1>5 DEF MonthsAreClaimed, DeletedIsArchived
<1>12. ArchivedIsPacked'
  <2> SUFFICES ASSUME NEW r \in Archived'
               PROVE  (r \in package[record[r]] \/ record[r] \in unsure)'
    BY DEF ArchivedIsPacked
  <2>1. r \in Archived /\ r \in Receipts /\ record'[r] = record[r] /\ unsure' = unsure
    BY <1>1, <1>5 DEF Archived
  <2>2. record[r] \in Batches
    BY <2>1, ArchiveNumbers DEF ArchiveTypeOK, Archived, Batches
  <2>3. record[r] = b => b \in unsure
    BY <1>2, <2>1
  <2> QED
    BY <1>6, <2>1, <2>2, <2>3 DEF ArchivedIsPacked
<1>13. ArchiversKnow'
  BY <1>8, <1>9 DEF ArchiversKnow
<1> QED
  BY <1>7, <1>10, <1>11, <1>12, <1>13

LEMMA ArchiveAges ==
  ASSUME ArchiveInv,
         \/ \E r \in Receipts : Ages(r) \/ DeletionDue(r)
         \/ MonthBegins
         \/ \E m \in 1..Months : ArchiveTime(m)
         \/ UNCHANGED archiveVars
  PROVE  ArchiveInv'
<1> USE DEF ArchiveInv
<1>1. UNCHANGED <<archiveJob, record, source, package, unsure, archiver, archiveStops>>
  BY DEF Ages, DeletionDue, MonthBegins, ArchiveTime, archiveVars
<1>2. Archived' = Archived
  BY <1>1 DEF Archived
<1>3. ArchiversKnow' /\ OwnPackages' /\ ArchivedIsPacked'
  BY <1>1, <1>2 DEF ArchiversKnow, ArchiverKnows, OwnPackages, ArchivedIsPacked
<1>4. month' \in 1..Months /\ old' \in SUBSET Receipts
  BY ArchiveNumbers DEF Ages, DeletionDue, MonthBegins, ArchiveTime, archiveVars, ArchiveTypeOK
<1>5. /\ deletion' \in [Receipts -> Deletions]
      /\ \A r \in Receipts : deletion'[r].status = deletion[r].status
  <2>1. deletion \in [Receipts -> Deletions]
    BY DEF ArchiveTypeOK
  <2>2. ASSUME NEW q \in Receipts, DeletionDue(q)
        PROVE  /\ deletion' \in [Receipts -> Deletions]
               /\ \A r \in Receipts : deletion'[r].status = deletion[r].status
    <3>1. /\ [deletion[q] EXCEPT !.due = TRUE] \in Deletions
          /\ [deletion[q] EXCEPT !.due = TRUE].status = deletion[q].status
      <4>1. [deletion[q] EXCEPT !.due = TRUE] \in Deletions
        BY <2>1, DeletionTypes
      <4>2. [deletion[q] EXCEPT !.due = TRUE].status = deletion[q].status
        BY <2>1 DEF Deletions
      <4> QED
        BY <4>1, <4>2
    <3>2. deletion' = [deletion EXCEPT ![q] = [deletion[q] EXCEPT !.due = TRUE]]
      BY <2>2 DEF DeletionDue
    <3> QED
      BY <2>1, <3>1, <3>2
  <2> QED
    BY <2>1, <2>2 DEF Ages, MonthBegins, ArchiveTime, archiveVars
<1>6. /\ archiveLease' \in [1..Months -> Leases]
      /\ \A m \in 1..Months : archiveLease'[m].token = archiveLease[m].token
  <2>1. archiveLease \in [1..Months -> Leases]
    BY DEF ArchiveTypeOK
  <2>2. ASSUME NEW n \in 1..Months, ArchiveTime(n)
        PROVE  /\ archiveLease' \in [1..Months -> Leases]
               /\ \A m \in 1..Months : archiveLease'[m].token = archiveLease[m].token
    <3>1. /\ [archiveLease[n] EXCEPT !.lapsed = TRUE] \in Leases
          /\ [archiveLease[n] EXCEPT !.due = TRUE] \in Leases
          /\ [archiveLease[n] EXCEPT !.lapsed = TRUE].token = archiveLease[n].token
          /\ [archiveLease[n] EXCEPT !.due = TRUE].token = archiveLease[n].token
      BY <2>1, LeaseTypes, LeaseEnds
    <3>2. \/ archiveLease' = [archiveLease EXCEPT ![n] = [archiveLease[n] EXCEPT !.lapsed = TRUE]]
          \/ archiveLease' = [archiveLease EXCEPT ![n] = [archiveLease[n] EXCEPT !.due = TRUE]]
      BY <2>2 DEF ArchiveTime
    <3> QED
      BY <2>1, <3>1, <3>2
  <2> QED
    BY <2>1, <2>2 DEF Ages, DeletionDue, MonthBegins, archiveVars
<1>7. ArchiveTypeOK'
  BY <1>1, <1>4, <1>5, <1>6 DEF ArchiveTypeOK
<1>8. MonthsAreClaimed' /\ DeletedIsArchived'
  BY <1>1, <1>2, <1>5, <1>6 DEF MonthsAreClaimed, DeletedIsArchived
<1> QED
  BY <1>3, <1>7, <1>8

LEMMA ArchiveKeeps == ArchiveInv /\ [ArchiveNext]_archiveVars => ArchiveInv'
<1> SUFFICES ASSUME ArchiveInv, [ArchiveNext]_archiveVars PROVE ArchiveInv'
  OBVIOUS
<1>1. ASSUME NEW w \in Workers, ArchiverStep(w) \/ StopArchiver(w) PROVE ArchiveInv'
  BY <1>1, ArchiveDeletes, SourcesGo, ArchiverWalksOn, Packs, Records, PackagesGo DEF ArchiverStep
<1> QED
  BY <1>1, ArchiveAges DEF ArchiveNext

\* What the archive maintains: a month is claimed exactly while it is worked on, nobody works on
\* the package of somebody else, and a source goes only when its receipt has a record that leads
\* to a package (claimSourceDeletion, completeBatch).
THEOREM ArchiveInvariant == ArchiveSpec => []ArchiveInv
BY ArchiveStarts, ArchiveKeeps, PTL DEF ArchiveSpec

\* Evidence is never lost, by stale workers, stops or failed deletes, unless the answer to the
\* commit of its batch was (processNext, completeBatch).
THEOREM ArchiveKeepsEvidence == ArchiveSpec => []EvidenceKept
<1>1. ArchiveInv => EvidenceKept
  BY DEF ArchiveInv, DeletedIsArchived, ArchivedIsPacked, EvidenceKept, Retrievable
<1> QED
  BY <1>1, ArchiveInvariant, PTL

AllRetrievable == \A r \in Receipts : r \in source \/ Retrievable(r)

\* Without a lost answer to a commit evidence is at its source or can be retrieved: whatever lapses,
\* stops or fails (the catch of processNext).
THEOREM ArchivedIsRetrievable ==
  ASSUME ~CommitLost
  PROVE  ArchiveSpec => []AllRetrievable
<1>1. ArchiveInit => unsure = {}
  BY DEF ArchiveInit
<1>2. ~CommitLost /\ unsure = {} /\ [ArchiveNext]_archiveVars => (unsure = {})'
  <2> SUFFICES ASSUME unsure = {}, [ArchiveNext]_archiveVars PROVE unsure' = unsure
    OBVIOUS
  <2>1. ASSUME NEW w \in Workers, ArchiverStep(w) \/ StopArchiver(w) PROVE unsure' = unsure
    BY <2>1 DEF ArchiverStep, StopArchiver, ClaimDeletion, DeleteSource, MarkDeleted, EnsureJob,
                CompleteJob, ClaimMonth, List, Pack, CompleteBatch, CompleteBatchFails,
                CompleteBatchUnacknowledged, UndoPackage, FailBatch
  <2> QED
    BY <2>1 DEF ArchiveNext, Ages, DeletionDue, MonthBegins, ArchiveTime, archiveVars
<1>3. EvidenceKept /\ unsure = {} => AllRetrievable
  BY DEF EvidenceKept, AllRetrievable
<1> QED
  BY <1>1, <1>2, <1>3, ArchiveKeepsEvidence, PTL DEF ArchiveSpec

\* The token is the fence of a claim, and a record stays.
LEMMA ArchiveFences ==
  ASSUME ArchiveInv, [ArchiveNext]_archiveVars
  PROVE  ArchiveFenced
<1> USE DEF ArchiveInv
<1>1. ASSUME NEW r \in Archived PROVE record'[r] = record[r]
  <2>1. r \in Receipts
    BY DEF Archived
  <2>2. ASSUME NEW w \in Workers, CompleteBatch(w) \/ CompleteBatchUnacknowledged(w)
        PROVE  record'[r] = record[r]
    BY <1>1, <2>1, <2>2 DEF CompleteBatch, CompleteBatchUnacknowledged, Recorded, OnlyOnce
  <2> HIDE DEF ArchiveInv
  <2>3. ASSUME NEW w \in Workers, ArchiverStep(w)
        PROVE  record' = record \/ CompleteBatch(w) \/ CompleteBatchUnacknowledged(w)
    BY <2>3 DEF ArchiverStep, ClaimDeletion, DeleteSource, MarkDeleted, EnsureJob, CompleteJob,
      ClaimMonth, List, Pack, CompleteBatchFails, UndoPackage, FailBatch
  <2>4. \/ record' = record
        \/ \E w \in Workers : CompleteBatch(w) \/ CompleteBatchUnacknowledged(w)
    BY <2>3 DEF ArchiveNext, StopArchiver, Ages, DeletionDue, MonthBegins, ArchiveTime, archiveVars
  <2> QED
    BY <2>2, <2>4
<1>2. ASSUME NEW m \in 1..Months, archiveLease[m].token \notin {None, archiveLease'[m].token}
      PROVE  \/ archiveLease[m].lapsed
             \/ archiver[archiveLease[m].token].month = m
                /\ archiver'[archiveLease[m].token] # archiver[archiveLease[m].token]
  <2>1. ASSUME NEW w \in Workers, NEW n \in 1..Months, ClaimMonth(w, n)
        PROVE  archiveLease[m].lapsed
    <3>1. n = m
      BY <1>2, <2>1 DEF ClaimMonth, ArchiveTypeOK
    <3>2. archiveJob[m] = "RUNNING"
      BY <1>2 DEF MonthsAreClaimed
    <3> QED
      BY <2>1, <3>1, <3>2 DEF ClaimMonth, ArchiveClaimable, Claimable
  <2>2. ASSUME NEW w \in Workers,
               CompleteJob(w) \/ FailBatch(w) \/ CompleteBatch(w) \/ CompleteBatchUnacknowledged(w)
        PROVE  archiver[w].month = m /\ archiveLease[m].token = w /\ archiver'[w] # archiver[w]
    <3>1. archiver[w].month = m /\ Holds(archiveLease[m], w)
      BY <1>2, <2>2
         DEF CompleteJob, FailBatch, CompleteBatch, CompleteBatchUnacknowledged, Recorded, RecordsBatch,
             ArchiveTypeOK
    <3>2. archiver'[w].step \in {"idle", "undo"}
      BY <2>2, ArchiverMoves DEF CompleteJob, FailBatch, CompleteBatch, CompleteBatchUnacknowledged
    <3>3. archiver[w].step \notin {"idle", "undo"}
      BY <2>2 DEF CompleteJob, FailBatch, CompleteBatch, CompleteBatchUnacknowledged
    <3> QED
      BY <3>1, <3>2, <3>3 DEF Holds
  <2>3. ASSUME NEW n \in 1..Months, ArchiveTime(n) PROVE FALSE
    <3>1. archiveLease[n] \in Leases
      BY DEF ArchiveTypeOK
    <3>2. /\ [archiveLease[n] EXCEPT !.lapsed = TRUE].token = archiveLease[n].token
          /\ [archiveLease[n] EXCEPT !.due = TRUE].token = archiveLease[n].token
      BY <3>1, LeaseEnds
    <3>3. \/ archiveLease' = [archiveLease EXCEPT ![n] = [archiveLease[n] EXCEPT !.lapsed = TRUE]]
          \/ archiveLease' = [archiveLease EXCEPT ![n] = [archiveLease[n] EXCEPT !.due = TRUE]]
      BY <2>3 DEF ArchiveTime
    <3> QED
      BY <1>2, <3>2, <3>3 DEF ArchiveTypeOK
  <2>4. archiveLease' # archiveLease
    BY <1>2
  <2> HIDE DEF ArchiveInv
  <2>5. ASSUME NEW w \in Workers, ArchiverStep(w)
        PROVE  \/ \E n \in 1..Months : ClaimMonth(w, n)
               \/ CompleteJob(w) \/ FailBatch(w) \/ CompleteBatch(w) \/ CompleteBatchUnacknowledged(w)
    BY <2>4, <2>5 DEF ArchiverStep, ClaimDeletion, DeleteSource, MarkDeleted, EnsureJob, List, Pack,
         CompleteBatchFails, UndoPackage
  <2>6. \E w \in Workers : ArchiverStep(w)
    BY <2>3, <2>4 DEF ArchiveNext, StopArchiver, Ages, DeletionDue, MonthBegins, archiveVars
  <2> QED
    BY <2>1, <2>2, <2>5, <2>6
<1> QED
  BY <1>1, <1>2 DEF ArchiveFenced

-----------------------------------------------------------------------------
(* Push delivery.                                                          *)

PushStatuses == {"none", "PENDING", "SENDING", "DELIVERED", "FAILED"}
DeviceRows   == [user : Recipients \cup {None}, active : BOOLEAN]
Sending      == [step : {"idle", "send", "sent", "retry", "refused"}, row : Notifications \cup {None},
                 no : Nat, device : Devices \cup {None}]

PushTypeOK ==
  /\ push \in [Notifications -> PushStatuses]
  /\ pushLease \in [Notifications -> Leases]
  /\ visible \in SUBSET Notifications
  /\ device \in [Devices -> DeviceRows]
  /\ sender \in [Workers -> Sending]
  /\ pushStops \in Nat

\* A row that has a claim is being sent.
PushesAreClaimed == \A n \in Notifications : pushLease[n].token # None => push[n] = "SENDING"

\* A worker that is not idle has a row and a device.
SendersKnowTheirRow ==
  \A w \in Workers :
    sender[w].step # "idle" => sender[w].row \in Notifications /\ sender[w].device \in Devices

PushInv == PushTypeOK /\ PushesAreClaimed /\ SendersKnowTheirRow /\ PushReachesRecipient

LEMMA PushStarts == PushInit => PushInv
<1> SUFFICES ASSUME PushInit PROVE PushInv
  OBVIOUS
<1>1. NoDevice \in DeviceRows /\ IdleSender \in Sending
  BY DEF NoDevice, DeviceRows, IdleSender, Sending
<1>2. PushTypeOK
  BY <1>1, FreshLeaseType DEF PushInit, PushTypeOK, PushStatuses
<1>3. PushesAreClaimed /\ SendersKnowTheirRow /\ PushReachesRecipient
  BY DEF PushInit, PushesAreClaimed, SendersKnowTheirRow, PushReachesRecipient, FreshLease, IdleSender
<1> QED
  BY <1>2, <1>3 DEF PushInv

LEMMA RecipientIsSomebody ==
  ASSUME NEW n \in Notifications
  PROVE  Recipient(n) \in Recipients /\ Recipient(n) # None
BY NobodyIsNone DEF Notifications, Recipient, Recipients

LEMMA SendingSteps ==
  ASSUME NEW a \in Sending, NEW step \in {"sent", "retry", "refused"}
  PROVE  /\ [a EXCEPT !.step = step] \in Sending
         /\ [a EXCEPT !.step = step].step = step
         /\ [a EXCEPT !.step = step].row = a.row
         /\ [a EXCEPT !.step = step].device = a.device
<1>1. [a EXCEPT !.step = step] \in Sending
  BY DEF Sending
<1>2. /\ [a EXCEPT !.step = step].step = step
      /\ [a EXCEPT !.step = step].row = a.row
      /\ [a EXCEPT !.step = step].device = a.device
  BY DEF Sending
<1> QED
  BY <1>1, <1>2

\* What complete and fail leave of a claim.
LEMMA LeaseSettles ==
  ASSUME NEW l \in Leases, NEW final \in BOOLEAN
  PROVE  /\ [l EXCEPT !.due = l.due /\ final] \in Leases
         /\ [l EXCEPT !.due = l.due /\ final].token = l.token
BY DEF Leases

\* What a step of a worker does to its own call.
LEMMA SenderMoves ==
  ASSUME PushTypeOK, NEW w \in Workers
  PROVE  /\ \A step \in {"sent", "retry", "refused"} : SenderGoes(w, step) =>
              /\ sender' \in [Workers -> Sending] /\ sender'[w].step = step
              /\ sender'[w].row = sender[w].row /\ sender'[w].device = sender[w].device
              /\ \A v \in Workers \ {w} : sender'[v] = sender[v]
         /\ SenderRests(w) =>
              /\ sender' \in [Workers -> Sending] /\ sender'[w] = IdleSender
              /\ sender'[w].step = "idle"
              /\ \A v \in Workers \ {w} : sender'[v] = sender[v]
<1>1. sender \in [Workers -> Sending] /\ sender[w] \in Sending
  BY DEF PushTypeOK
<1>2. IdleSender \in Sending /\ IdleSender.step = "idle"
  BY DEF IdleSender, Sending
<1>3. ASSUME NEW step \in {"sent", "retry", "refused"}, SenderGoes(w, step)
      PROVE  /\ sender' \in [Workers -> Sending] /\ sender'[w].step = step
             /\ sender'[w].row = sender[w].row /\ sender'[w].device = sender[w].device
             /\ \A v \in Workers \ {w} : sender'[v] = sender[v]
  <2>1. [sender[w] EXCEPT !.step = step] \in Sending
    BY <1>1, SendingSteps
  <2>2. /\ sender' \in [Workers -> Sending] /\ sender'[w] = [sender[w] EXCEPT !.step = step]
        /\ \A v \in Workers \ {w} : sender'[v] = sender[v]
    BY <1>1, <1>3, <2>1 DEF SenderGoes
  <2> QED
    BY <1>1, <2>2, SendingSteps
<1>4. ASSUME SenderRests(w)
      PROVE  /\ sender' \in [Workers -> Sending] /\ sender'[w] = IdleSender
             /\ sender'[w].step = "idle"
             /\ \A v \in Workers \ {w} : sender'[v] = sender[v]
  BY <1>1, <1>2, <1>4 DEF SenderRests
<1> QED
  BY <1>3, <1>4

\* The claim of a row ends, or does not change; other rows keep theirs.
RowSettled(n, w) ==
  /\ push' \in [Notifications -> PushStatuses]
  /\ pushLease' \in [Notifications -> Leases]
  /\ PushesAreClaimed'
  /\ pushLease[n].token # w =>
       push' = push /\ \A z \in Notifications : pushLease'[z].token = pushLease[z].token
  /\ \A z \in Notifications \ {n} :
       push'[z] = push[z] /\ pushLease'[z].token = pushLease[z].token

LEMMA RowSettles ==
  ASSUME PushTypeOK, PushesAreClaimed, NEW n \in Notifications, NEW w \in Workers,
         NEW s \in PushStatuses, NEW final \in BOOLEAN,
         NEW kept, kept \in {pushLease, [pushLease EXCEPT ![n].due = pushLease[n].due /\ final]},
         IF Holds(pushLease[n], w)
         THEN /\ push' = [push EXCEPT ![n] = s]
              /\ pushLease' = [kept EXCEPT ![n].token = None, ![n].lapsed = FALSE]
         ELSE pushLease' = kept /\ push' = push
  PROVE  RowSettled(n, w)
<1>1. /\ push \in [Notifications -> PushStatuses]
      /\ pushLease \in [Notifications -> Leases] /\ pushLease[n] \in Leases
  BY DEF PushTypeOK
<1>2. /\ [pushLease[n] EXCEPT !.due = pushLease[n].due /\ final] \in Leases
      /\ [pushLease[n] EXCEPT !.due = pushLease[n].due /\ final].token = pushLease[n].token
  BY <1>1, LeaseSettles
<1>3. [pushLease EXCEPT ![n].due = pushLease[n].due /\ final]
        = [pushLease EXCEPT ![n] = [pushLease[n] EXCEPT !.due = pushLease[n].due /\ final]]
  BY <1>1
<1>4. /\ kept \in [Notifications -> Leases] /\ kept[n] \in Leases /\ kept[n].token = pushLease[n].token
      /\ \A z \in Notifications \ {n} : kept[z] = pushLease[z]
  BY <1>1, <1>2, <1>3
<1>5. CASE Holds(pushLease[n], w)
  <2>1. /\ [kept[n] EXCEPT !.token = None, !.lapsed = FALSE] \in Leases
        /\ [kept[n] EXCEPT !.token = None, !.lapsed = FALSE].token = None
    BY <1>4, LeaseTypes, LeaseEnds
  <2>2. /\ push' = [push EXCEPT ![n] = s]
        /\ pushLease' = [kept EXCEPT ![n] = [kept[n] EXCEPT !.token = None, !.lapsed = FALSE]]
    BY <1>4, <1>5
  <2>3. /\ push' \in [Notifications -> PushStatuses] /\ pushLease' \in [Notifications -> Leases]
        /\ pushLease'[n].token = None
        /\ \A z \in Notifications \ {n} :
             push'[z] = push[z] /\ pushLease'[z].token = pushLease[z].token
    BY <1>1, <1>4, <2>1, <2>2
  <2>4. PushesAreClaimed'
    BY <2>3 DEF PushesAreClaimed
  <2> QED
    BY <1>5, <2>3, <2>4 DEF RowSettled, Holds
<1>6. CASE ~Holds(pushLease[n], w)
  <2>1. push' = push /\ pushLease' = kept
    BY <1>6
  <2>2. \A z \in Notifications : pushLease'[z].token = pushLease[z].token
    BY <1>4, <2>1
  <2>3. PushesAreClaimed'
    BY <2>1, <2>2 DEF PushesAreClaimed
  <2> QED
    BY <1>1, <1>4, <2>1, <2>2, <2>3 DEF RowSettled
<1> QED
  BY <1>5, <1>6

\* complete and fail of a claim: the row is settled if the claim is the worker's own.
LEMMA RowEnds ==
  ASSUME PushInv, NEW w \in Workers, Deliver(w) \/ FailPush(w)
  PROVE  sender[w].row \in Notifications /\ RowSettled(sender[w].row, w)
<1> DEFINE n == sender[w].row
<1> USE DEF PushInv
<1>1. n \in Notifications
  BY DEF SendersKnowTheirRow, Deliver, FailPush
<1>2. pushLease \in [Notifications -> Leases] /\ push \in [Notifications -> PushStatuses]
  BY DEF PushTypeOK
<1>3. {"DELIVERED", "FAILED", "PENDING"} \subseteq PushStatuses
  BY DEF PushStatuses
<1>6. PushTypeOK /\ PushesAreClaimed
  OBVIOUS
<1>4. CASE Deliver(w)
  <2> DEFINE final == TRUE
             kept == pushLease
             s == "DELIVERED"
  <2>1. IF Holds(pushLease[n], w)
        THEN /\ push' = [push EXCEPT ![n] = s]
             /\ pushLease' = [kept EXCEPT ![n].token = None, ![n].lapsed = FALSE]
        ELSE pushLease' = kept /\ push' = push
    BY <1>4 DEF Deliver
  <2>2. s \in PushStatuses /\ final \in BOOLEAN
    BY <1>3
  <2>3. kept \in {pushLease, [pushLease EXCEPT ![n].due = pushLease[n].due /\ final]}
    OBVIOUS
  <2> HIDE DEF n, final, kept, s
  <2>4. RowSettled(n, w)
    BY <1>1, <1>6, <2>1, <2>2, <2>3, RowSettles
  <2> QED
    BY <1>1, <2>4 DEF n
<1>5. CASE FailPush(w)
  <2> DEFINE final == sender[w].step = "refused" \/ sender[w].no >= MaxAttempts
             kept == [pushLease EXCEPT ![n].due = pushLease[n].due /\ final]
             s == IF final THEN "FAILED" ELSE "PENDING"
  <2>1. IF Holds(pushLease[n], w)
        THEN /\ push' = [push EXCEPT ![n] = s]
             /\ pushLease' = [kept EXCEPT ![n].token = None, ![n].lapsed = FALSE]
        ELSE pushLease' = kept /\ push' = push
    <3>1. kept = [pushLease EXCEPT ![n].due = @ /\ final]
      BY <1>1, <1>2
    <3> QED
      BY <1>5, <3>1 DEF FailPush
  <2>2. s \in PushStatuses /\ final \in BOOLEAN
    BY <1>3
  <2>3. kept \in {pushLease, [pushLease EXCEPT ![n].due = pushLease[n].due /\ final]}
    OBVIOUS
  <2> HIDE DEF n, final, kept, s
  <2>4. RowSettled(n, w)
    BY <1>1, <1>6, <2>1, <2>2, <2>3, RowSettles
  <2> QED
    BY <1>1, <2>4 DEF n
<1> QED
  BY <1>1, <1>4, <1>5

LEMMA SenderKeeps ==
  ASSUME PushInv, NEW w \in Workers, SenderStep(w) \/ StopSender(w)
  PROVE  PushInv'
<1> USE DEF PushInv
<1>1. /\ sender \in [Workers -> Sending] /\ sender[w] \in Sending
      /\ pushLease \in [Notifications -> Leases] /\ push \in [Notifications -> PushStatuses]
      /\ pushStops \in Nat
  BY DEF PushTypeOK
<1>2. UNCHANGED <<visible, device, inApp, pushOn>>
  BY DEF SenderStep, StopSender, ClaimPush, Send, Deliver, DeliverFails, FailPush
<1>3. ASSUME NEW n \in Notifications, NEW d \in Devices, ClaimPush(w, n, d) PROVE PushInv'
  <2> DEFINE c == [step |-> "send", row |-> n, device |-> d, no |-> pushLease[n].attempts + 1]
  <2>1. /\ push' = [push EXCEPT ![n] = "SENDING"] /\ pushLease' = [pushLease EXCEPT ![n] = Claim(pushLease[n], w)]
        /\ sender' = [sender EXCEPT ![w] = c] /\ device[d].user = Recipient(n) /\ pushStops' = pushStops
    BY <1>1, <1>3 DEF ClaimPush, Sendable
  <2>2. c \in Sending /\ c.step = "send" /\ c.row = n /\ c.device = d
    <3>1. pushLease[n].attempts \in Nat
      BY <1>1 DEF Leases
    <3>2. pushLease[n].attempts + 1 \in Nat
      BY <3>1
    <3> QED
      BY <3>2 DEF Sending
  <2> HIDE DEF c
  <2>3. /\ sender' \in [Workers -> Sending] /\ sender'[w] = c
        /\ \A v \in Workers \ {w} : sender'[v] = sender[v]
    BY <1>1, <2>1, <2>2
  <2>4. push' \in [Notifications -> PushStatuses] /\ push'[n] = "SENDING"
        /\ \A z \in Notifications \ {n} : push'[z] = push[z]
    BY <1>1, <2>1 DEF PushStatuses
  <2>5. pushLease' \in [Notifications -> Leases]
        /\ \A z \in Notifications \ {n} : pushLease'[z] = pushLease[z]
    <3>1. Claim(pushLease[n], w) \in Leases
      BY <1>1, LeaseTypes
    <3> QED
      BY <1>1, <2>1, <3>1
  <2>6. PushTypeOK'
    BY <1>1, <1>2, <2>1, <2>3, <2>4, <2>5 DEF PushTypeOK
  <2>7. PushesAreClaimed'
    BY <2>4, <2>5 DEF PushesAreClaimed
  <2>8. SendersKnowTheirRow'
    BY <2>2, <2>3 DEF SendersKnowTheirRow
  <2>9. PushReachesRecipient'
    BY <1>2, <2>1, <2>2, <2>3 DEF PushReachesRecipient
  <2> QED
    BY <2>6, <2>7, <2>8, <2>9
<1>4. ASSUME NEW step \in {"sent", "retry", "refused"}, SenderGoes(w, step), sender[w].step # "idle",
             UNCHANGED <<push, pushLease, pushStops>>
      PROVE  PushInv'
  <2>1. /\ sender' \in [Workers -> Sending] /\ sender'[w].step = step
        /\ sender'[w].row = sender[w].row /\ sender'[w].device = sender[w].device
        /\ \A v \in Workers \ {w} : sender'[v] = sender[v]
    BY <1>4, SenderMoves
  <2>2. PushTypeOK' /\ PushesAreClaimed'
    BY <1>2, <1>4, <2>1 DEF PushTypeOK, PushesAreClaimed
  <2>3. SendersKnowTheirRow' /\ PushReachesRecipient'
    BY <1>2, <1>4, <2>1 DEF SendersKnowTheirRow, PushReachesRecipient
  <2> QED
    BY <2>2, <2>3
<1>5. ASSUME SenderRests(w), push' \in [Notifications -> PushStatuses],
             pushLease' \in [Notifications -> Leases], PushesAreClaimed', pushStops' \in Nat
      PROVE  PushInv'
  <2>1. /\ sender' \in [Workers -> Sending] /\ sender'[w].step = "idle"
        /\ \A v \in Workers \ {w} : sender'[v] = sender[v]
    BY <1>5, SenderMoves
  <2>2. PushTypeOK'
    BY <1>2, <1>5, <2>1 DEF PushTypeOK
  <2>3. SendersKnowTheirRow' /\ PushReachesRecipient'
    BY <1>2, <2>1 DEF SendersKnowTheirRow, PushReachesRecipient
  <2> QED
    BY <1>5, <2>2, <2>3
<1>6. ASSUME Deliver(w) \/ FailPush(w) PROVE PushInv'
  BY <1>1, <1>5, <1>6, RowEnds DEF RowSettled, Deliver, FailPush
<1>7. ASSUME Send(w) \/ DeliverFails(w) PROVE PushInv'
  BY <1>4, <1>7 DEF Send, DeliverFails
<1>8. ASSUME StopSender(w) PROVE PushInv'
  <2>1. UNCHANGED <<push, pushLease>> /\ SenderRests(w) /\ pushStops' \in Nat
    BY <1>1, <1>8 DEF StopSender
  <2>2. PushesAreClaimed'
    BY <2>1 DEF PushesAreClaimed
  <2> QED
    BY <1>1, <1>5, <2>1, <2>2
<1> QED
  BY <1>3, <1>6, <1>7, <1>8 DEF SenderStep

\* The owner of a device stays its owner.
LEMMA DevicesStay ==
  ASSUME PushTypeOK, NEW d \in Devices, Deactivate(d) \/ \E u \in Recipients : Register(d, u)
  PROVE  /\ device' \in [Devices -> DeviceRows]
         /\ \A c \in Devices : device[c].user # None => device'[c].user = device[c].user
<1>1. device \in [Devices -> DeviceRows]
  BY DEF PushTypeOK
<1>2. \A c \in Devices : /\ [device[c] EXCEPT !.active = FALSE] \in DeviceRows
                         /\ [device[c] EXCEPT !.active = FALSE].user = device[c].user
  <2> SUFFICES ASSUME NEW c \in Devices
               PROVE  /\ [device[c] EXCEPT !.active = FALSE] \in DeviceRows
                      /\ [device[c] EXCEPT !.active = FALSE].user = device[c].user
    OBVIOUS
  <2>1. device[c] \in DeviceRows
    BY <1>1
  <2> QED
    BY <2>1 DEF DeviceRows
<1>3. CASE Deactivate(d)
  <2>1. device' = [device EXCEPT ![d] = [device[d] EXCEPT !.active = FALSE]]
    BY <1>3 DEF Deactivate
  <2> QED
    BY <1>1, <1>2, <2>1
<1>4. ASSUME NEW u \in Recipients, Register(d, u)
      PROVE  /\ device' \in [Devices -> DeviceRows]
             /\ \A c \in Devices : device[c].user # None => device'[c].user = device[c].user
  <2>1. /\ device[d].user \in {None, u}
        /\ device' = [c \in Devices |->
             IF c = d THEN [user |-> u, active |-> TRUE]
             ELSE IF device[c].user = u THEN [device[c] EXCEPT !.active = FALSE] ELSE device[c]]
    BY <1>4 DEF Register, MayRegister
  <2>2. [user |-> u, active |-> TRUE] \in DeviceRows /\ [user |-> u, active |-> TRUE].user = u
    BY DEF DeviceRows
  <2> QED
    BY <1>1, <1>2, <2>1, <2>2
<1> QED
  BY <1>3, <1>4

LEMMA PushKeeps == PushInv /\ [PushNext]_pushVars => PushInv'
<1> SUFFICES ASSUME PushInv, [PushNext]_pushVars PROVE PushInv'
  OBVIOUS
<1> USE DEF PushInv
<1>1. ASSUME NEW e \in Events, NEW u \in Recipients, NEW A \in Audiences(u), Notify(e, A)
      PROVE  PushInv'
  <2> DEFINE new == {n \in Notifications : n[1] = e /\ Recipient(n) \in A \cap inApp
                                           /\ push[n] = "none"}
  <2>1. /\ push' = [n \in Notifications |-> IF n \in new THEN "PENDING" ELSE push[n]]
        /\ visible' = visible \cup new
        /\ UNCHANGED <<pushLease, attempts, device, inApp, pushOn, sender, pushStops>>
    BY <1>1 DEF Notify
  <2>2. new \in SUBSET Notifications /\ \A n \in new : push[n] = "none"
    OBVIOUS
  <2> HIDE DEF new
  <2>3. PushTypeOK'
    BY <2>1, <2>2 DEF PushTypeOK, PushStatuses
  <2>4. PushesAreClaimed'
    BY <2>1, <2>2 DEF PushesAreClaimed
  <2> QED
    BY <2>1, <2>3, <2>4 DEF SendersKnowTheirRow, PushReachesRecipient
<1>2. ASSUME NEW d \in Devices, Deactivate(d) \/ \E u \in Recipients : Register(d, u) PROVE PushInv'
  <2>1. UNCHANGED <<push, pushLease, visible, sender, pushStops>>
    BY <1>2 DEF Deactivate, Register
  <2>2. PushTypeOK' /\ PushesAreClaimed' /\ SendersKnowTheirRow'
    BY <1>2, <2>1, DevicesStay DEF PushTypeOK, PushesAreClaimed, SendersKnowTheirRow
  <2>3. PushReachesRecipient'
    <3> SUFFICES ASSUME NEW w \in Workers, sender[w].step = "send"
                 PROVE  device'[sender[w].device].user = Recipient(sender[w].row)
      BY <2>1 DEF PushReachesRecipient
    <3>1. /\ sender[w].row \in Notifications /\ sender[w].device \in Devices
          /\ device[sender[w].device].user = Recipient(sender[w].row)
      BY DEF SendersKnowTheirRow, PushReachesRecipient
    <3> QED
      BY <1>2, <3>1, DevicesStay, RecipientIsSomebody
  <2> QED
    BY <2>2, <2>3
<1>3. ASSUME NEW w \in Workers, SenderStep(w) \/ StopSender(w) PROVE PushInv'
  BY <1>3, SenderKeeps
<1>4. ASSUME NEW n \in Notifications, PushTime(n) PROVE PushInv'
  <2>1. /\ UNCHANGED <<push, visible, device, sender, pushStops>>
        /\ \/ pushLease' = [pushLease EXCEPT ![n] = [pushLease[n] EXCEPT !.lapsed = TRUE]]
           \/ pushLease' = [pushLease EXCEPT ![n] = [pushLease[n] EXCEPT !.due = TRUE]]
    BY <1>4 DEF PushTime
  <2>2. pushLease \in [Notifications -> Leases] /\ pushLease[n] \in Leases
    BY DEF PushTypeOK
  <2>3. /\ [pushLease[n] EXCEPT !.lapsed = TRUE] \in Leases
        /\ [pushLease[n] EXCEPT !.due = TRUE] \in Leases
        /\ [pushLease[n] EXCEPT !.lapsed = TRUE].token = pushLease[n].token
        /\ [pushLease[n] EXCEPT !.due = TRUE].token = pushLease[n].token
    BY <2>2, LeaseTypes, LeaseEnds
  <2>4. /\ pushLease' \in [Notifications -> Leases]
        /\ \A z \in Notifications : pushLease'[z].token = pushLease[z].token
    BY <2>1, <2>2, <2>3
  <2> QED
    BY <2>1, <2>4 DEF PushTypeOK, PushesAreClaimed, SendersKnowTheirRow, PushReachesRecipient
<1>5. ASSUME \/ \E n \in Notifications : Disappears(n)
             \/ \E u \in Recipients, shown \in BOOLEAN, pushed \in BOOLEAN : Prefer(u, shown, pushed)
             \/ UNCHANGED pushVars
      PROVE  PushInv'
  BY <1>5 DEF Disappears, Prefer, pushVars, PushTypeOK, PushesAreClaimed, SendersKnowTheirRow,
              PushReachesRecipient
<1> QED
  BY <1>1, <1>2, <1>3, <1>4, <1>5 DEF PushNext

\* What push delivery maintains: a claimed row is being sent, its worker has a row and a device,
\* and the device's owner is the recipient (claimNext, complete, fail, register).
THEOREM PushInvariant == PushSpec => []PushInv
BY PushStarts, PushKeeps, PTL DEF PushSpec

\* A message in flight goes to a device its recipient registered, whoever registers devices
\* between the claim and the send (claimNext, register).
THEOREM PushesReachRecipients == PushSpec => []PushReachesRecipient
<1>1. PushInv => PushReachesRecipient
  BY DEF PushInv
<1> QED
  BY <1>1, PushInvariant, PTL

\* The token is the fence of a claim, and what ended stays.
LEMMA PushFences ==
  ASSUME PushInv, [PushNext]_pushVars
  PROVE  PushFenced
<1> USE DEF PushInv
<1> SUFFICES ASSUME NEW n \in Notifications
             PROVE  /\ pushLease[n].token \notin {None, pushLease'[n].token} =>
                         \/ pushLease[n].lapsed
                         \/ /\ sender[pushLease[n].token].row = n
                            /\ sender'[pushLease[n].token] = IdleSender
                    /\ push[n] \in {"DELIVERED", "FAILED"} => push'[n] = push[n]
  BY DEF PushFenced
<1>1. ASSUME NEW w \in Workers, NEW m \in Notifications, NEW d \in Devices, ClaimPush(w, m, d)
      PROVE  /\ m # n => pushLease'[n].token = pushLease[n].token /\ push'[n] = push[n]
             /\ m = n => /\ push[n] \in {"PENDING", "SENDING"}
                         /\ pushLease[n].token = None \/ pushLease[n].lapsed
  <2>1. m # n => pushLease'[n].token = pushLease[n].token /\ push'[n] = push[n]
    BY <1>1 DEF ClaimPush, PushTypeOK
  <2>2. m = n => push[n] = "PENDING" \/ (push[n] = "SENDING" /\ pushLease[n].lapsed)
    BY <1>1 DEF ClaimPush, Sendable, Claimable
  <2>3. push[n] = "PENDING" => pushLease[n].token = None
    BY DEF PushesAreClaimed
  <2> QED
    BY <2>1, <2>2, <2>3
<1>2. ASSUME NEW w \in Workers, Deliver(w) \/ FailPush(w)
      PROVE  \/ pushLease'[n].token = pushLease[n].token /\ push'[n] = push[n]
             \/ /\ pushLease[n].token = w /\ sender[w].row = n /\ sender'[w] = IdleSender
                /\ push[n] = "SENDING"
  <2>1. sender'[w] = IdleSender
    BY <1>2, SenderMoves DEF Deliver, FailPush
  <2>2. pushLease[n].token = w => push[n] = "SENDING"
    BY NoneIsNoWorker DEF PushesAreClaimed
  <2> QED
    BY <1>2, <2>1, <2>2, RowEnds DEF RowSettled
<1>3. ASSUME NEW m \in Notifications, PushTime(m)
      PROVE  pushLease'[n].token = pushLease[n].token /\ push'[n] = push[n]
  <2>1. /\ push' = push
        /\ \/ pushLease' = [pushLease EXCEPT ![m] = [pushLease[m] EXCEPT !.lapsed = TRUE]]
           \/ pushLease' = [pushLease EXCEPT ![m] = [pushLease[m] EXCEPT !.due = TRUE]]
    BY <1>3 DEF PushTime
  <2>2. pushLease \in [Notifications -> Leases] /\ pushLease[m] \in Leases
    BY DEF PushTypeOK
  <2>3. /\ [pushLease[m] EXCEPT !.lapsed = TRUE].token = pushLease[m].token
        /\ [pushLease[m] EXCEPT !.due = TRUE].token = pushLease[m].token
    BY <2>2, LeaseEnds
  <2> QED
    BY <2>1, <2>2, <2>3
<1>4. ASSUME NEW e, NEW A, Notify(e, A)
      PROVE  pushLease'[n].token = pushLease[n].token /\ (push[n] # "none" => push'[n] = push[n])
  BY <1>4 DEF Notify
<1>5. ASSUME \/ \E w \in Workers : Send(w) \/ DeliverFails(w) \/ StopSender(w)
             \/ \E m \in Notifications : Disappears(m)
             \/ \E u \in Recipients, shown \in BOOLEAN, pushed \in BOOLEAN : Prefer(u, shown, pushed)
             \/ \E d \in Devices : Deactivate(d) \/ \E u \in Recipients : Register(d, u)
             \/ UNCHANGED pushVars
      PROVE  pushLease'[n].token = pushLease[n].token /\ push'[n] = push[n]
  BY <1>5 DEF Send, DeliverFails, StopSender, Disappears, Prefer, Deactivate, Register, pushVars
<1> QED
  BY <1>1, <1>2, <1>3, <1>4, <1>5 DEF PushNext, SenderStep

-----------------------------------------------------------------------------
(* The client of the PDF worker.                                           *)

PdfMessages == [file : Files \cup {"none"}, answer : {"ready"} \cup Replies]
PdfCalls    == {"idle", "pending", "decoded", "failed", "forgotten"}

PdfTypeOK ==
  /\ decode \in [Files -> PdfCalls]
  /\ client \in {"none", "starting", "ready"} /\ disabled \in BOOLEAN
  /\ timed \subseteq Files /\ thread \in BOOLEAN
  /\ inbox \in Seq(Files) /\ outbox \in Seq(PdfMessages)

\* A call waits only for a worker; the start's timer runs until the worker is ready, and then one
\* for each call.
TimersCoverCalls ==
  /\ client = "none" => Pending = {} /\ timed = {} /\ ~thread /\ inbox = <<>> /\ outbox = <<>>
  /\ client = "starting" => timed = {}
  /\ client = "ready" => timed = Pending /\ thread

\* Readiness is the first message, and the only one of its kind.
ReadinessIsFirst ==
  /\ ~thread => outbox = <<>>
  /\ client = "starting" /\ thread => outbox # <<>> /\ outbox[1].answer = "ready"
  /\ \A i \in 1..Len(outbox) : outbox[i].answer = "ready" => i = 1 /\ client = "starting"

\* The file of a pending call, and of no other, is posted or answered: once.
Posted(f)   == \E i \in 1..Len(inbox) : inbox[i] = f
Answered(f) == \E i \in 1..Len(outbox) : outbox[i].answer # "ready" /\ outbox[i].file = f

CallsAreInFlight ==
  /\ \A f \in Files : f \in Pending <=> Posted(f) \/ Answered(f)
  /\ \A f \in Files : ~(Posted(f) /\ Answered(f))
  /\ \A i \in 1..Len(outbox) : outbox[i].answer # "ready" => outbox[i].file \in Files
  /\ \A i, j \in 1..Len(inbox) : inbox[i] = inbox[j] => i = j
  /\ \A i, j \in 1..Len(outbox) :
       /\ outbox[i].answer # "ready" /\ outbox[j].answer # "ready"
       /\ outbox[i].file = outbox[j].file
       => i = j

PdfInv == PdfTypeOK /\ TimersCoverCalls /\ ReadinessIsFirst /\ CallsAreInFlight

LEMMA PdfStarts == PdfInit => PdfInv
<1> SUFFICES ASSUME PdfInit PROVE PdfInv
  OBVIOUS
<1>1. Len(inbox) = 0 /\ Len(outbox) = 0 /\ inbox \in Seq(Files) /\ outbox \in Seq(PdfMessages)
  BY EmptySeq DEF PdfInit
<1>2. Pending = {}
  BY DEF PdfInit, Pending
<1>3. PdfTypeOK /\ TimersCoverCalls
  BY <1>1, <1>2 DEF PdfInit, PdfTypeOK, PdfCalls, TimersCoverCalls
<1>4. ReadinessIsFirst /\ CallsAreInFlight
  BY <1>1, <1>2 DEF PdfInit, ReadinessIsFirst, CallsAreInFlight, Posted, Answered
<1> QED
  BY <1>3, <1>4 DEF PdfInv

\* A worker that is dropped leaves no call that waits.
LEMMA DroppedWorker ==
  ASSUME NEW calls \in [Files -> PdfCalls], DropWorker(calls), disabled' \in BOOLEAN
  PROVE  PdfInv'
<1>1. /\ Len(inbox') = 0 /\ Len(outbox') = 0
      /\ inbox' \in Seq(Files) /\ outbox' \in Seq(PdfMessages)'
  BY EmptySeq DEF DropWorker, PdfMessages
<1>2. decode' \in [Files -> PdfCalls] /\ Pending' = {}
  BY DEF DropWorker, Pending, PdfCalls
<1>3. PdfTypeOK' /\ TimersCoverCalls'
  BY <1>1, <1>2 DEF DropWorker, PdfTypeOK, TimersCoverCalls
<1>4. ReadinessIsFirst' /\ CallsAreInFlight'
  BY <1>1, <1>2 DEF DropWorker, ReadinessIsFirst, CallsAreInFlight, Posted, Answered
<1> QED
  BY <1>3, <1>4 DEF PdfInv

LEMMA DisabledClient ==
  ASSUME NEW calls \in [Files -> PdfCalls], Disable(calls)
  PROVE  PdfInv'
BY DroppedWorker DEF Disable

\* A call that is posted.
LEMMA PostKeepsPdf ==
  ASSUME PdfInv, NEW f \in Files, ~disabled, Run(f)
  PROVE  PdfInv'
<1>1. /\ decode[f] = "idle" /\ decode' = [decode EXCEPT ![f] = "pending"]
      /\ client' = IF client = "none" THEN "starting" ELSE client
      /\ timed'  = IF client = "ready" THEN timed \cup {f} ELSE timed
      /\ inbox' = Append(inbox, f)
      /\ disabled' = disabled /\ thread' = thread /\ outbox' = outbox
  BY DEF Run
<1>2. /\ inbox' \in Seq(Files) /\ Len(inbox) \in Nat /\ Len(inbox') = Len(inbox) + 1
      /\ \A i \in 1..Len(inbox) : inbox'[i] = inbox[i]
      /\ inbox'[Len(inbox) + 1] = f
  BY <1>1, AppendProperties, LenProperties DEF PdfInv, PdfTypeOK
<1>3. f \notin Pending /\ Pending' = Pending \cup {f}
  BY <1>1 DEF Pending, PdfInv, PdfTypeOK
<1>4. PdfTypeOK'
  BY <1>1, <1>2 DEF PdfInv, PdfTypeOK, PdfMessages, PdfCalls
<1>5. TimersCoverCalls'
  BY <1>1, <1>3 DEF PdfInv, PdfTypeOK, TimersCoverCalls
<1>6. ReadinessIsFirst'
  BY <1>1 DEF PdfInv, TimersCoverCalls, ReadinessIsFirst
<1>7. \A g \in Files : Answered(g)' <=> Answered(g)
  BY <1>1 DEF Answered
<1>8. \A g \in Files : Posted(g)' <=> Posted(g) \/ g = f
  BY <1>2 DEF Posted
<1>9. ~Posted(f) /\ ~Answered(f)
  BY <1>3 DEF PdfInv, CallsAreInFlight
<1>10. \A i, j \in 1..Len(inbox') : inbox'[i] = inbox'[j] => i = j
  <2> SUFFICES ASSUME NEW i \in 1..Len(inbox'), NEW j \in 1..Len(inbox'), inbox'[i] = inbox'[j]
               PROVE  i = j
    OBVIOUS
  <2>1. \A k \in 1..Len(inbox') : k = Len(inbox) + 1 \/ (k \in 1..Len(inbox) /\ inbox'[k] # f)
    BY <1>2, <1>9 DEF Posted
  <2> QED
    BY <1>2, <2>1 DEF PdfInv, CallsAreInFlight
<1>11. CallsAreInFlight'
  BY <1>1, <1>3, <1>7, <1>8, <1>9, <1>10 DEF PdfInv, CallsAreInFlight
<1> QED
  BY <1>4, <1>5, <1>6, <1>11 DEF PdfInv

\* The message that follows readiness takes a file from the posted to the answered ones.
LEMMA HandleKeepsPdf == ASSUME PdfInv, Handle PROVE PdfInv'
<1> PICK a \in Replies :
      outbox' = Append(outbox, [file |-> Head(inbox), answer |-> a])
  BY DEF Handle
<1> DEFINE m == [file |-> Head(inbox), answer |-> a]
<1>1. /\ thread /\ inbox # <<>> /\ inbox' = Tail(inbox) /\ outbox' = Append(outbox, m)
      /\ decode' = decode /\ client' = client /\ disabled' = disabled
      /\ timed' = timed /\ thread' = thread
  BY DEF Handle
<1>2. inbox \in Seq(Files) /\ outbox \in Seq(PdfMessages) /\ Len(inbox) \in Nat \ {0}
      /\ Len(outbox) \in Nat
  BY <1>1, EmptySeq, LenProperties DEF PdfInv, PdfTypeOK
<1>3. Head(inbox) \in Files /\ Head(inbox) = inbox[1]
  BY <1>1, <1>2, HeadTailProperties
<1>4. m \in PdfMessages /\ m.file = inbox[1] /\ m.answer # "ready"
  BY <1>3, RepliesAssumption DEF PdfMessages
<1> HIDE DEF m
<1>5. /\ inbox' \in Seq(Files) /\ Len(inbox') = Len(inbox) - 1
      /\ \A i \in 1..Len(inbox') : inbox'[i] = inbox[i + 1]
  BY <1>1, <1>2, HeadTailProperties
<1>6. /\ outbox' \in Seq(PdfMessages) /\ Len(outbox') = Len(outbox) + 1 /\ outbox' # <<>>
      /\ \A i \in 1..Len(outbox) : outbox'[i] = outbox[i]
      /\ outbox'[Len(outbox) + 1] = m
  BY <1>1, <1>2, <1>4, AppendProperties
<1>7. PdfTypeOK' /\ Pending' = Pending
  BY <1>1, <1>5, <1>6 DEF PdfInv, PdfTypeOK, PdfMessages, Pending
<1>8. TimersCoverCalls'
  BY <1>1, <1>7 DEF PdfInv, TimersCoverCalls
<1>9. ReadinessIsFirst'
  <2>1. client \in {"starting", "ready"}
    BY <1>1 DEF PdfInv, PdfTypeOK, TimersCoverCalls
  <2>2. client = "starting" => outbox'[1].answer = "ready"
    <3>1. client = "starting" => 1 \in 1..Len(outbox) /\ outbox[1].answer = "ready"
      BY <1>1, <1>2, EmptySeq DEF PdfInv, ReadinessIsFirst
    <3> QED
      BY <1>6, <3>1
  <2>3. \A i \in 1..Len(outbox') : i \in 1..Len(outbox) \/ i = Len(outbox) + 1
    BY <1>2, <1>6
  <2>4. \A i \in 1..Len(outbox') : outbox'[i].answer = "ready" => i = 1 /\ client = "starting"
    BY <1>4, <1>6, <2>3 DEF PdfInv, ReadinessIsFirst
  <2> QED
    BY <1>1, <1>6, <2>2, <2>4 DEF ReadinessIsFirst
<1>10. Posted(inbox[1]) /\ ~Answered(inbox[1])
  <2>1. Posted(inbox[1])
    BY <1>2 DEF Posted
  <2> QED
    BY <1>3, <2>1 DEF PdfInv, CallsAreInFlight
<1>11. \A g \in Files : Posted(g)' <=> Posted(g) /\ g # inbox[1]
  <2> SUFFICES ASSUME NEW g \in Files PROVE Posted(g)' <=> Posted(g) /\ g # inbox[1]
    OBVIOUS
  <2>1. ASSUME NEW i \in 1..Len(inbox'), inbox'[i] = g PROVE Posted(g) /\ g # inbox[1]
    <3>1. i + 1 \in 1..Len(inbox) /\ inbox[i + 1] = g /\ i + 1 # 1 /\ 1 \in 1..Len(inbox)
      BY <1>2, <1>5, <2>1
    <3> QED
      BY <3>1 DEF PdfInv, CallsAreInFlight, Posted
  <2>2. ASSUME NEW i \in 1..Len(inbox), inbox[i] = g, g # inbox[1] PROVE Posted(g)'
    <3>1. i - 1 \in 1..Len(inbox') /\ (i - 1) + 1 = i
      BY <1>2, <1>5, <2>2
    <3>2. inbox'[i - 1] = g
      BY <1>5, <2>2, <3>1
    <3> QED
      BY <3>1, <3>2 DEF Posted
  <2> QED
    BY <2>1, <2>2 DEF Posted
<1>12. \A g \in Files : Answered(g)' <=> Answered(g) \/ g = inbox[1]
  <2>1. /\ Len(outbox) + 1 \in 1..Len(outbox')
        /\ \A i \in 1..Len(outbox') : i = Len(outbox) + 1 \/ i \in 1..Len(outbox)
        /\ \A i \in 1..Len(outbox) : i \in 1..Len(outbox')
    BY <1>2, <1>6
  <2> QED
    BY <1>4, <1>6, <2>1 DEF Answered
<1>13. \A i, j \in 1..Len(inbox') : inbox'[i] = inbox'[j] => i = j
  <2> SUFFICES ASSUME NEW i \in 1..Len(inbox'), NEW j \in 1..Len(inbox'), inbox'[i] = inbox'[j]
               PROVE  i = j
    OBVIOUS
  <2>1. i + 1 \in 1..Len(inbox) /\ j + 1 \in 1..Len(inbox) /\ inbox[i + 1] = inbox[j + 1]
    BY <1>2, <1>5
  <2>2. i + 1 = j + 1
    BY <2>1 DEF PdfInv, CallsAreInFlight
  <2> QED
    BY <1>2, <1>5, <2>2
<1>14. ASSUME NEW i \in 1..Len(outbox'), NEW j \in 1..Len(outbox'),
               outbox'[i].answer # "ready", outbox'[j].answer # "ready",
               outbox'[i].file = outbox'[j].file
       PROVE  i = j
  <2>1. \A k \in 1..Len(outbox') :
          k = Len(outbox) + 1 \/ (k \in 1..Len(outbox) /\ outbox'[k] = outbox[k])
    BY <1>2, <1>6
  <2>2. \A k \in 1..Len(outbox) : outbox[k].answer # "ready" => outbox[k].file # inbox[1]
    BY <1>10 DEF Answered
  <2>3. \A k \in 1..Len(outbox') :
          outbox'[k].answer # "ready" => (outbox'[k].file = inbox[1] <=> k = Len(outbox) + 1)
    BY <1>4, <1>6, <2>1, <2>2
  <2> QED
    BY <1>14, <2>1, <2>3 DEF PdfInv, CallsAreInFlight
<1>15. \A i \in 1..Len(outbox') : outbox'[i].answer # "ready" => outbox'[i].file \in Files
  <2>1. \A k \in 1..Len(outbox') :
          k = Len(outbox) + 1 \/ (k \in 1..Len(outbox) /\ outbox'[k] = outbox[k])
    BY <1>2, <1>6
  <2> QED
    BY <1>3, <1>4, <1>6, <2>1 DEF PdfInv, CallsAreInFlight
<1>16. \A f \in Files : (f \in Pending <=> Posted(f) \/ Answered(f)) /\ ~(Posted(f) /\ Answered(f))
  BY DEF PdfInv, CallsAreInFlight
<1>17. \A f \in Files : /\ f \in Pending' <=> Posted(f)' \/ Answered(f)'
                        /\ ~(Posted(f)' /\ Answered(f)')
  BY <1>7, <1>10, <1>11, <1>12, <1>16
<1>18. CallsAreInFlight'
  BY <1>13, <1>14, <1>15, <1>17 DEF CallsAreInFlight
<1> QED
  BY <1>7, <1>8, <1>9, <1>18 DEF PdfInv

\* The client reads the first message: readiness, or the answer to a call.
LEMMA FirstMessage ==
  ASSUME PdfInv, outbox # <<>>, outbox' = Tail(outbox)
  PROVE  /\ Len(outbox) \in Nat \ {0} /\ Head(outbox) = outbox[1] /\ outbox[1] \in PdfMessages
         /\ outbox' \in Seq(PdfMessages) /\ Len(outbox') = Len(outbox) - 1
         /\ \A i \in 1..Len(outbox') : outbox'[i] = outbox[i + 1] /\ i + 1 \in 1..Len(outbox)
         /\ \A i \in 1..Len(outbox') : outbox'[i].answer # "ready"
         /\ \A f \in Files :
              Answered(f)' <=> /\ Answered(f)
                               /\ outbox[1].answer # "ready" => f # outbox[1].file
         /\ \A i, j \in 1..Len(outbox') : outbox'[i].file = outbox'[j].file => i = j
<1>1. Len(outbox) \in Nat \ {0}
  BY EmptySeq DEF PdfInv, PdfTypeOK
<1>2. Head(outbox) = outbox[1] /\ outbox[1] \in PdfMessages
  BY <1>1, HeadTailProperties DEF PdfInv, PdfTypeOK
<1>3. /\ outbox' \in Seq(PdfMessages) /\ Len(outbox') = Len(outbox) - 1
      /\ \A i \in 1..Len(outbox') : outbox'[i] = outbox[i + 1]
  BY HeadTailProperties DEF PdfInv, PdfTypeOK
<1>4. \A i \in 1..Len(outbox') : i + 1 \in 1..Len(outbox) /\ i + 1 # 1
  BY <1>1, <1>3
<1>5. \A i \in 1..Len(outbox') : outbox'[i].answer # "ready"
  BY <1>3, <1>4 DEF PdfInv, ReadinessIsFirst
<1>6. ASSUME NEW i \in 1..Len(outbox'), NEW j \in 1..Len(outbox'), outbox'[i].file = outbox'[j].file
      PROVE  i = j
  <2>1. i + 1 = j + 1
    BY <1>3, <1>4, <1>5, <1>6 DEF PdfInv, CallsAreInFlight
  <2> QED
    BY <1>1, <1>3, <2>1
<1>7. ASSUME NEW f \in Files
      PROVE  Answered(f)' <=> /\ Answered(f)
                              /\ outbox[1].answer # "ready" => f # outbox[1].file
  <2>1. ASSUME NEW i \in 1..Len(outbox'), outbox'[i].file = f
        PROVE  Answered(f) /\ (outbox[1].answer # "ready" => f # outbox[1].file)
    <3>1. /\ i + 1 \in 1..Len(outbox) /\ i + 1 # 1 /\ 1 \in 1..Len(outbox)
          /\ outbox[i + 1].answer # "ready" /\ outbox[i + 1].file = f
      BY <1>1, <1>3, <1>4, <1>5, <2>1
    <3> QED
      BY <3>1 DEF PdfInv, CallsAreInFlight, Answered
  <2>2. ASSUME NEW i \in 1..Len(outbox), outbox[i].answer # "ready", outbox[i].file = f,
               outbox[1].answer # "ready" => f # outbox[1].file
        PROVE  Answered(f)'
    <3>1. i # 1
      BY <2>2
    <3>2. i - 1 \in 1..Len(outbox') /\ (i - 1) + 1 = i
      BY <1>1, <1>3, <3>1
    <3>3. outbox'[i - 1] = outbox[i]
      BY <1>3, <3>2
    <3> QED
      BY <2>2, <3>2, <3>3 DEF Answered
  <2> QED
    BY <1>5, <2>1, <2>2 DEF Answered
<1> QED
  BY <1>1, <1>2, <1>3, <1>4, <1>5, <1>6, <1>7

\* Readiness is read by a client that waits for it.
LEMMA ReadyIsAwaited == ASSUME PdfInv, ReadReady PROVE client = "starting"
<1>1. outbox # <<>> /\ Head(outbox).answer = "ready"
  BY DEF ReadReady
<1>2. 1 \in 1..Len(outbox) /\ Head(outbox) = outbox[1]
  BY <1>1, EmptySeq, LenProperties, HeadTailProperties DEF PdfInv, PdfTypeOK
<1> QED
  BY <1>1, <1>2 DEF PdfInv, ReadinessIsFirst

LEMMA ReadyKeepsPdf == ASSUME PdfInv, ReadReady PROVE PdfInv'
<1>1. /\ outbox # <<>> /\ Head(outbox).answer = "ready" /\ outbox' = Tail(outbox)
      /\ client' = "ready" /\ timed' = Pending
      /\ decode' = decode /\ disabled' = disabled /\ thread' = thread /\ inbox' = inbox
  BY ReadyIsAwaited DEF ReadReady, TimedAtReadiness
<1>2. /\ Len(outbox) \in Nat \ {0} /\ outbox[1].answer = "ready"
      /\ outbox' \in Seq(PdfMessages)
      /\ \A i \in 1..Len(outbox') : outbox'[i] = outbox[i + 1] /\ i + 1 \in 1..Len(outbox)
      /\ \A i \in 1..Len(outbox') : outbox'[i].answer # "ready"
      /\ \A f \in Files : Answered(f)' <=> Answered(f)
      /\ \A i, j \in 1..Len(outbox') : outbox'[i].file = outbox'[j].file => i = j
  BY <1>1, FirstMessage
<1>3. thread
  BY <1>1 DEF PdfInv, ReadinessIsFirst
<1>4. PdfTypeOK' /\ Pending' = Pending
  BY <1>1, <1>2 DEF PdfInv, PdfTypeOK, PdfMessages, Pending
<1>5. TimersCoverCalls' /\ ReadinessIsFirst'
  BY <1>1, <1>2, <1>3, <1>4 DEF TimersCoverCalls, ReadinessIsFirst
<1>6. \A f \in Files : Posted(f)' <=> Posted(f)
  BY <1>1 DEF Posted
<1>7. CallsAreInFlight'
  BY <1>1, <1>2, <1>4, <1>6 DEF PdfInv, CallsAreInFlight
<1> QED
  BY <1>4, <1>5, <1>7 DEF PdfInv

\* What is answered is pending.
LEMMA AnswerIsAwaited ==
  ASSUME PdfInv, ReadAnswer
  PROVE  Head(outbox).file \in Pending /\ Head(outbox).answer \in Replies
<1>1. outbox # <<>> /\ Head(outbox).answer # "ready"
  BY DEF ReadAnswer
<1>2. Len(outbox) \in Nat \ {0} /\ outbox \in Seq(PdfMessages)
  BY <1>1, EmptySeq DEF PdfInv, PdfTypeOK
<1>3. Head(outbox) = outbox[1] /\ outbox[1] \in PdfMessages /\ 1 \in 1..Len(outbox)
  BY <1>1, <1>2, HeadTailProperties
<1>4. Answered(outbox[1].file) /\ outbox[1].file \in Files
  BY <1>1, <1>3 DEF PdfInv, CallsAreInFlight, Answered
<1>5. outbox[1].file \in Pending
  BY <1>4 DEF PdfInv, CallsAreInFlight
<1>6. outbox[1].answer \in Replies
  BY <1>1, <1>3 DEF PdfMessages
<1> QED
  BY <1>3, <1>5, <1>6

\* What reading an answer does, by the answer.
AnswerSettles(f) ==
  /\ decode' = [decode EXCEPT ![f] = Head(outbox).answer]
  /\ timed' = timed \ {f} /\ outbox' = Tail(outbox)
  /\ client' = client /\ disabled' = disabled /\ thread' = thread /\ inbox' = inbox

LEMMA AnswerEffects ==
  ASSUME PdfInv, ReadAnswer
  PROVE  LET m == Head(outbox) IN
         /\ m.answer = "malformed" => Disable(decode)
         /\ m.answer = "invalid" => Disable(CallTakenOut(m.file))
         /\ m.answer \in {"decoded", "failed"} => AnswerSettles(m.file)
         /\ m.answer \in {"malformed", "invalid", "decoded", "failed"}
<1> DEFINE m == Head(outbox)
<1>1. m.file \in Pending /\ m.answer \in Replies
  BY AnswerIsAwaited
<1>2. CASE m.answer = "malformed"
  BY <1>1, <1>2 DEF ReadAnswer
<1>3. CASE m.answer = "invalid"
  BY <1>1, <1>3 DEF ReadAnswer
<1>4. CASE m.answer \in {"decoded", "failed"}
  BY <1>1, <1>4 DEF ReadAnswer, AnswerSettles
<1> QED
  BY <1>1, <1>2, <1>3, <1>4, RepliesAssumption

LEMMA TakenOutIsTyped == PdfInv => \A f \in Files : CallTakenOut(f) \in [Files -> PdfCalls]
BY DEF PdfInv, PdfTypeOK, CallTakenOut, PdfCalls

\* An answer that settles its call.
LEMMA SettledKeepsPdf ==
  ASSUME PdfInv, ReadAnswer, Head(outbox).answer \in {"decoded", "failed"} PROVE PdfInv'
<1> DEFINE f == outbox[1].file
<1>1. outbox # <<>> /\ outbox' = Tail(outbox) /\ Head(outbox).answer # "ready"
  BY AnswerEffects DEF AnswerSettles, ReadAnswer
<1>2. /\ Len(outbox) \in Nat \ {0} /\ Head(outbox) = outbox[1]
      /\ outbox' \in Seq(PdfMessages)
      /\ \A i \in 1..Len(outbox') : outbox'[i] = outbox[i + 1] /\ i + 1 \in 1..Len(outbox)
      /\ \A i \in 1..Len(outbox') : outbox'[i].answer # "ready"
      /\ \A g \in Files : Answered(g)' <=> Answered(g) /\ g # f
      /\ \A i, j \in 1..Len(outbox') : outbox'[i].file = outbox'[j].file => i = j
  BY <1>1, FirstMessage
<1>3. /\ f \in Pending /\ outbox[1].answer \in {"decoded", "failed"}
      /\ decode' = [decode EXCEPT ![f] = outbox[1].answer]
      /\ timed' = timed \ {f}
      /\ client' = client /\ disabled' = disabled /\ thread' = thread /\ inbox' = inbox
  BY <1>2, AnswerIsAwaited, AnswerEffects DEF AnswerSettles
<1>4. Answered(f)
  BY <1>1, <1>2 DEF Answered
<1> HIDE DEF f
<1>5. PdfTypeOK'
  BY <1>2, <1>3 DEF PdfInv, PdfTypeOK, PdfMessages, PdfCalls, Pending
<1>6. Pending' = Pending \ {f}
  BY <1>3 DEF PdfInv, PdfTypeOK, Pending
<1>7. TimersCoverCalls'
  <2>1. client # "none"
    BY <1>3 DEF PdfInv, TimersCoverCalls
  <2> QED
    BY <1>3, <1>6, <2>1 DEF PdfInv, TimersCoverCalls
<1>8. client = "ready"
  <2>1. outbox[1].answer # "ready" /\ 1 \in 1..Len(outbox)
    BY <1>1, <1>2
  <2>2. client # "none" /\ thread
    BY <1>1, <1>3 DEF PdfInv, TimersCoverCalls, ReadinessIsFirst
  <2> QED
    BY <2>1, <2>2 DEF PdfInv, PdfTypeOK, ReadinessIsFirst
<1>9. ReadinessIsFirst'
  <2>1. thread
    BY <1>8 DEF PdfInv, TimersCoverCalls
  <2> QED
    BY <1>2, <1>3, <1>8, <2>1 DEF ReadinessIsFirst
<1>10. \A g \in Files : Posted(g)' <=> Posted(g)
  BY <1>3 DEF Posted
<1>11. \A i \in 1..Len(outbox') : outbox'[i].answer # "ready" => outbox'[i].file \in Files
  BY <1>2 DEF PdfInv, CallsAreInFlight
<1>12. CallsAreInFlight'
  BY <1>2, <1>3, <1>4, <1>6, <1>10, <1>11 DEF PdfInv, CallsAreInFlight
<1> QED
  BY <1>5, <1>7, <1>9, <1>12 DEF PdfInv

LEMMA AnswerKeepsPdf == ASSUME PdfInv, ReadAnswer PROVE PdfInv'
<1>1. Head(outbox).file \in Files /\ decode \in [Files -> PdfCalls]
  BY AnswerIsAwaited DEF Pending, PdfInv, PdfTypeOK
<1>2. CASE Head(outbox).answer = "malformed"
  BY <1>1, <1>2, AnswerEffects, DisabledClient
<1>3. CASE Head(outbox).answer = "invalid"
  BY <1>1, <1>3, AnswerEffects, TakenOutIsTyped, DisabledClient
<1>4. CASE Head(outbox).answer \in {"decoded", "failed"}
  BY <1>4, SettledKeepsPdf
<1> QED
  BY <1>2, <1>3, <1>4, AnswerEffects

LEMMA BootKeepsPdf == ASSUME PdfInv, Boot PROVE PdfInv'
<1> DEFINE m == [file |-> "none", answer |-> "ready"]
<1>1. /\ client = "starting" /\ ~thread /\ thread' = TRUE /\ outbox' = Append(outbox, m)
      /\ decode' = decode /\ client' = client /\ disabled' = disabled /\ timed' = timed /\ inbox' = inbox
  BY DEF Boot
<1>2. outbox = <<>> /\ m \in PdfMessages /\ outbox \in Seq(PdfMessages) /\ Len(outbox) = 0
  BY <1>1, EmptySeq DEF PdfInv, PdfTypeOK, ReadinessIsFirst, PdfMessages
<1>3. m.answer = "ready"
  OBVIOUS
<1> HIDE DEF m
<1>4. outbox' \in Seq(PdfMessages) /\ outbox' # <<>> /\ Len(outbox') = 1 /\ outbox'[1] = m
  BY <1>1, <1>2, AppendProperties
<1>5. PdfTypeOK' /\ Pending' = Pending
  BY <1>1, <1>4 DEF PdfInv, PdfTypeOK, PdfMessages, Pending
<1>6. TimersCoverCalls' /\ ReadinessIsFirst'
  BY <1>1, <1>3, <1>4 DEF PdfInv, TimersCoverCalls, ReadinessIsFirst
<1>7. \A f \in Files : (Posted(f)' <=> Posted(f)) /\ ~Answered(f) /\ ~Answered(f)'
  BY <1>1, <1>2, <1>3, <1>4 DEF Posted, Answered
<1>8. CallsAreInFlight'
  BY <1>1, <1>3, <1>4, <1>5, <1>7 DEF PdfInv, CallsAreInFlight
<1> QED
  BY <1>5, <1>6, <1>8 DEF PdfInv

\* A call that is refused, and a step of nobody.
LEMMA QuietKeepsPdf ==
  ASSUME PdfInv, disabled' = disabled, client' = client, timed' = timed, thread' = thread,
         inbox' = inbox, outbox' = outbox,
         Pending' = Pending, decode' \in [Files -> PdfCalls]
  PROVE  PdfInv'
<1>1. PdfTypeOK' /\ TimersCoverCalls' /\ ReadinessIsFirst'
  BY DEF PdfInv, PdfTypeOK, TimersCoverCalls, ReadinessIsFirst, PdfMessages
<1>2. \A f \in Files : (Posted(f)' <=> Posted(f)) /\ (Answered(f)' <=> Answered(f))
  BY DEF Posted, Answered
<1>3. CallsAreInFlight'
  BY <1>2 DEF PdfInv, CallsAreInFlight
<1> QED
  BY <1>1, <1>3 DEF PdfInv

LEMMA PdfKeeps == PdfInv /\ [PdfNext]_pdfVars => PdfInv'
<1> SUFFICES ASSUME PdfInv, [PdfNext]_pdfVars PROVE PdfInv'
  OBVIOUS
<1>1. ASSUME NEW f \in Files, Run(f) PROVE PdfInv'
  <2>1. CASE ~disabled
    BY <1>1, <2>1, PostKeepsPdf
  <2>2. CASE disabled
    <3>1. /\ decode[f] = "idle" /\ decode' = [decode EXCEPT ![f] = "failed"]
          /\ UNCHANGED <<client, timed, inbox, disabled, thread, outbox>>
      BY <1>1, <2>2 DEF Run
    <3>2. /\ Pending' = Pending
          /\ decode' \in [Files -> PdfCalls]
      BY <3>1 DEF PdfInv, PdfTypeOK, PdfCalls, Pending
    <3> QED
      BY <3>1, <3>2, QuietKeepsPdf
  <2> QED
    BY <2>1, <2>2
<1>2. CASE StartupTimeout \/ JobTimeout \/ ThreadDies \/ Destroy
  <2>1. decode \in [Files -> PdfCalls] /\ disabled \in BOOLEAN
    BY DEF PdfInv, PdfTypeOK
  <2> QED
    BY <1>2, <2>1, DroppedWorker, DisabledClient DEF StartupTimeout, JobTimeout, ThreadDies, Destroy
<1>4. ASSUME NEW f \in Files, PostFails(f) PROVE PdfInv'
  <2>1. [decode EXCEPT ![f] = "pending"] \in [Files -> PdfCalls]
    BY DEF PdfInv, PdfTypeOK, PdfCalls
  <2> QED
    BY <1>4, <2>1, DisabledClient DEF PostFails
<1>3. CASE UNCHANGED pdfVars
  <2>1. UNCHANGED <<decode, client, disabled, timed, thread, inbox, outbox>> /\ Pending' = Pending
    BY <1>3 DEF pdfVars, Pending
  <2> QED
    BY <2>1, QuietKeepsPdf DEF PdfInv, PdfTypeOK
<1> QED
  BY <1>1, <1>2, <1>3, <1>4, BootKeepsPdf, HandleKeepsPdf, ReadyKeepsPdf, AnswerKeepsPdf DEF PdfNext

\* What the client of the PDF worker maintains: each call that waits is covered by one timer, and
\* its file is either posted or answered, once (run, handleMessage, armJobTimeout).
THEOREM PdfInvariant == PdfSpec => []PdfInv
BY PdfStarts, PdfKeeps, PTL DEF PdfSpec

\* Only an answer with invalid candidates forgets a call: its own, and it ends all decoding
\* (handleMessage).
LEMMA StepForgets ==
  ASSUME PdfInv, [PdfNext]_pdfVars, NEW f \in Files, decode[f] # "forgotten", decode'[f] = "forgotten"
  PROVE  /\ ReadAnswer /\ Head(outbox).answer = "invalid" /\ Head(outbox).file = f
         /\ disabled' /\ decode' = [g \in Files |-> IF g = f THEN "forgotten" ELSE
                                                    IF decode[g] = "pending" THEN "failed" ELSE decode[g]]
<1>1. decode \in [Files -> PdfCalls]
  BY DEF PdfInv, PdfTypeOK
<1>2. \A g \in Files : ~Run(g) /\ ~PostFails(g)
  <2>1. ASSUME NEW g \in Files, Run(g) PROVE FALSE
    BY <1>1, <2>1 DEF Run
  <2>2. ASSUME NEW g \in Files, PostFails(g) PROVE FALSE
    BY <1>1, <2>2 DEF PostFails, Disable, DropWorker
  <2> QED
    BY <2>1, <2>2
<1>3. ~DropWorker(decode)
  BY <1>1 DEF DropWorker
<1>4. ~ReadReady /\ ReadAnswer
  BY <1>2, <1>3 DEF PdfNext, Boot, Handle, ReadReady, StartupTimeout, JobTimeout, ThreadDies, Destroy,
    Disable, pdfVars
<1>5. Head(outbox).file \in Files
  BY <1>4, AnswerIsAwaited DEF Pending
<1>6. Head(outbox).answer = "invalid" /\ Disable(CallTakenOut(Head(outbox).file))
  BY <1>1, <1>3, <1>4, <1>5, AnswerEffects DEF AnswerSettles, Disable
<1>7. /\ disabled'
      /\ decode' = [g \in Files |-> IF CallTakenOut(Head(outbox).file)[g] = "pending" THEN "failed"
                                    ELSE CallTakenOut(Head(outbox).file)[g]]
  BY <1>6 DEF Disable, DropWorker
<1>8. Head(outbox).file = f
  BY <1>1, <1>5, <1>7 DEF CallTakenOut
<1> QED
  BY <1>1, <1>4, <1>6, <1>7, <1>8 DEF CallTakenOut

\* A call that is neither settled nor refused is covered by a timer that runs, that of the worker's
\* start or its own, unless the thread can answer with invalid candidates (run, handleMessage).
THEOREM PendingIsTimed ==
  ASSUME "invalid" \notin Replies
  PROVE  PdfSpec => [](\A f \in Files : /\ decode[f] # "forgotten"
                                        /\ decode[f] = "pending" => client = "starting" \/ f \in timed)
<1> DEFINE NoneForgotten == \A f \in Files : decode[f] # "forgotten"
<1>1. PdfInit => NoneForgotten
  BY DEF PdfInit
<1>2. PdfInv /\ NoneForgotten /\ [PdfNext]_pdfVars => NoneForgotten'
  <2> SUFFICES ASSUME PdfInv, NoneForgotten, [PdfNext]_pdfVars, NEW f \in Files, decode'[f] = "forgotten"
               PROVE  FALSE
    OBVIOUS
  <2>1. ReadAnswer /\ Head(outbox).answer = "invalid"
    BY StepForgets
  <2> QED
    BY <2>1, AnswerIsAwaited
<1>3. PdfInv /\ NoneForgotten =>
        \A f \in Files : /\ decode[f] # "forgotten"
                         /\ decode[f] = "pending" => client = "starting" \/ f \in timed
  BY DEF PdfInv, PdfTypeOK, TimersCoverCalls, Pending
<1> HIDE DEF NoneForgotten
<1> QED
  BY <1>1, <1>2, <1>3, PdfInvariant, PTL DEF PdfSpec

\* What disableWorker leaves behind: decoding that has ended keeps no call in the map, and at most one
\* is forgotten, whatever the thread replied and however often it was posted to (handleMessage).
OneIsForgotten ==
  /\ disabled => \A f \in Files : decode[f] # "pending"
  /\ \A f \in Files : decode[f] = "forgotten" => disabled
  /\ \A f, g \in Files : decode[f] = "forgotten" /\ decode[g] = "forgotten" => f = g

LEMMA OneIsForgottenStays == PdfInv /\ OneIsForgotten /\ [PdfNext]_pdfVars => OneIsForgotten'
<1> SUFFICES ASSUME PdfInv, OneIsForgotten, [PdfNext]_pdfVars PROVE OneIsForgotten'
  OBVIOUS
<1>1. decode \in [Files -> PdfCalls] /\ disabled \in BOOLEAN
  BY DEF PdfInv, PdfTypeOK
<1>2. CASE \E f \in Files : decode[f] # "forgotten" /\ decode'[f] = "forgotten"
  <2>1. PICK f \in Files : decode[f] # "forgotten" /\ decode'[f] = "forgotten"
    BY <1>2
  <2>2. /\ ReadAnswer /\ Head(outbox).file = f /\ disabled'
        /\ decode' = [g \in Files |-> IF g = f THEN "forgotten" ELSE
                                      IF decode[g] = "pending" THEN "failed" ELSE decode[g]]
    BY <2>1, StepForgets
  <2>3. decode[f] = "pending"
    BY <2>2, AnswerIsAwaited DEF Pending
  <2>4. \A g \in Files : decode[g] # "forgotten"
    BY <2>3 DEF OneIsForgotten
  <2> QED
    BY <2>2, <2>4 DEF OneIsForgotten
<1>3. CASE \A f \in Files : decode'[f] = "forgotten" => decode[f] = "forgotten"
  <2>1. disabled => disabled'
    BY <1>1, AnswerEffects DEF PdfNext, Run, PostFails, Boot, Handle, ReadReady, AnswerSettles,
      StartupTimeout, JobTimeout, ThreadDies, Destroy, Disable, pdfVars
  <2>2. ASSUME disabled', NEW f \in Files PROVE decode'[f] # "pending"
    <3>1. CASE \E c \in [Files -> PdfCalls] : DropWorker(c)
      BY <3>1 DEF DropWorker
    <3>2. CASE disabled /\ \E g \in Files : Run(g)
      BY <1>1, <3>2 DEF Run, OneIsForgotten
    <3>3. CASE disabled /\ decode' = decode
      BY <3>3 DEF OneIsForgotten
    <3>4. CASE ReadAnswer
      <4>1. Head(outbox).file \in Files
        BY <3>4, AnswerIsAwaited DEF Pending
      <4>2. CASE AnswerSettles(Head(outbox).file) /\ Head(outbox).answer # "pending"
        BY <1>1, <2>2, <4>1, <4>2 DEF AnswerSettles, OneIsForgotten
      <4> QED
        BY <1>1, <3>1, <3>4, <4>1, <4>2, AnswerEffects, TakenOutIsTyped DEF Disable
    <3>5. CASE \E g \in Files : PostFails(g)
      <4>1. \A g \in Files : [decode EXCEPT ![g] = "pending"] \in [Files -> PdfCalls]
        BY <1>1 DEF PdfCalls
      <4> QED
        BY <3>1, <3>5, <4>1 DEF PostFails, Disable
    <3>6. CASE ~(\E c \in [Files -> PdfCalls] : DropWorker(c)) /\ ~ReadAnswer /\ ~\E g \in Files : PostFails(g)
      <4>1. CASE \E g \in Files : Run(g)
        BY <2>2, <3>2, <4>1 DEF Run
      <4>2. CASE ~\E g \in Files : Run(g)
        BY <1>1, <2>2, <3>3, <3>6, <4>2 DEF PdfNext, Boot, Handle, ReadReady, StartupTimeout, JobTimeout,
          ThreadDies, Destroy, Disable, pdfVars
      <4> QED
        BY <4>1, <4>2
    <3> QED
      BY <3>1, <3>4, <3>5, <3>6
  <2> QED
    BY <1>3, <2>1, <2>2 DEF OneIsForgotten
<1> QED
  BY <1>2, <1>3

\* A reply with invalid candidates costs one call its answer, for ever; every other call that waits
\* is rejected when decoding ends, as the document says (disableWorker).
THEOREM OneCallIsForgotten == PdfSpec => []OneIsForgotten
<1>1. PdfInit => OneIsForgotten
  BY DEF PdfInit, OneIsForgotten
<1> QED
  BY <1>1, OneIsForgottenStays, PdfInvariant, PTL DEF PdfSpec

\* An answer is for a call that waits.  A decoding or an error settles this call alone; candidates
\* that are invalid, and a message that is no answer, end all decoding, and the former leaves its
\* call without an answer.  What was settled stays so (handleMessage).
AnswersMeetTheirCalls ==
  /\ ReadAnswer =>
       LET m == Head(outbox) IN
       /\ decode[m.file] = "pending"
       /\ m.answer \in {"decoded", "failed"} <=> UNCHANGED disabled
       /\ m.answer \in {"decoded", "failed"} =>
            decode' = [decode EXCEPT ![m.file] = m.answer] /\ timed' = timed \ {m.file}
       /\ m.answer = "invalid" => decode'[m.file] = "forgotten"
  /\ \A f \in Files : decode[f] \in {"decoded", "failed", "forgotten"} => decode'[f] = decode[f]

LEMMA StepMeetsCalls == PdfInv /\ OneIsForgotten /\ [PdfNext]_pdfVars => AnswersMeetTheirCalls
<1> SUFFICES ASSUME PdfInv, OneIsForgotten, [PdfNext]_pdfVars PROVE AnswersMeetTheirCalls
  OBVIOUS
<1>1. decode \in [Files -> PdfCalls] /\ disabled \in BOOLEAN
  BY DEF PdfInv, PdfTypeOK
<1>2. ASSUME ReadAnswer
      PROVE  LET m == Head(outbox) IN
             /\ decode[m.file] = "pending" /\ m.file \in Files
             /\ m.answer \in {"decoded", "failed"} <=> UNCHANGED disabled
             /\ m.answer \in {"decoded", "failed"} =>
                  decode' = [decode EXCEPT ![m.file] = m.answer] /\ timed' = timed \ {m.file}
             /\ m.answer = "invalid" => decode'[m.file] = "forgotten"
  <2> DEFINE m == Head(outbox)
  <2>1. m.file \in Files /\ decode[m.file] = "pending"
    BY <1>2, AnswerIsAwaited DEF Pending
  <2>2. ~disabled
    BY <2>1 DEF OneIsForgotten
  <2>3. m.answer \in {"decoded", "failed"} => AnswerSettles(m.file)
    BY <1>2, AnswerEffects
  <2>4. m.answer = "invalid" => disabled' /\ decode'[m.file] = "forgotten"
    BY <1>1, <1>2, <2>1, AnswerEffects DEF Disable, DropWorker, CallTakenOut
  <2>5. m.answer = "malformed" => disabled'
    BY <1>2, AnswerEffects DEF Disable
  <2>6. m.answer \in {"malformed", "invalid", "decoded", "failed"}
    BY <1>2, AnswerEffects
  <2> QED
    BY <1>1, <2>1, <2>2, <2>3, <2>4, <2>5, <2>6 DEF AnswerSettles
<1>3. ASSUME NEW f \in Files, decode[f] \in {"decoded", "failed", "forgotten"} PROVE decode'[f] = decode[f]
  <2>1. \A g \in Files : Run(g) \/ PostFails(g) => decode'[f] = decode[f]
    BY <1>1, <1>3 DEF Run, PostFails, Disable, DropWorker
  <2>2. ASSUME ReadAnswer PROVE decode'[f] = decode[f]
    <3>1. Head(outbox).file \in Files /\ Head(outbox).file # f
      BY <1>2, <1>3, <2>2
    <3> QED
      BY <1>1, <1>3, <2>2, <3>1, AnswerEffects DEF AnswerSettles, Disable, DropWorker, CallTakenOut
  <2>3. DropWorker(decode) => decode'[f] = decode[f]
    BY <1>3 DEF DropWorker
  <2> QED
    BY <2>1, <2>2, <2>3 DEF PdfNext, Boot, Handle, ReadReady, StartupTimeout, JobTimeout, ThreadDies,
      Destroy, Disable, pdfVars
<1> QED
  BY <1>2, <1>3 DEF AnswersMeetTheirCalls

\* No answer comes late or meets another call, whatever the thread replies (handleMessage).
THEOREM AnswersMeetCalls == PdfSpec => [][AnswersMeetTheirCalls]_pdfVars
BY PdfInvariant, OneCallIsForgotten, StepMeetsCalls, PTL DEF PdfSpec

-----------------------------------------------------------------------------
(* The process that runs the three queues.                                 *)

QueuesInv == ExportInv /\ ArchiveInv /\ PushInv

LEMMA QueuesStep ==
  ASSUME [MCNext]_queueVars
  PROVE  [ExportNext]_exportVars /\ [ArchiveNext]_archiveVars /\ [PushNext]_pushVars
BY DEF MCNext, queueVars, WorksOn

\* In the worker process a claim is ended by its own worker or after its lease lapsed, what
\* ended stays so and a record of the archive is never changed (claimNext, complete and fail of
\* the three queues).
THEOREM QueuesAreFenced == MCSpec => ClaimsAreFenced
<1>1. MCInit => QueuesInv
  BY ExportStarts, ArchiveStarts, PushStarts DEF MCInit, QueuesInv
<1>2. QueuesInv /\ [MCNext]_queueVars => QueuesInv'
  BY QueuesStep, ExportKeeps, ArchiveKeeps, PushKeeps DEF QueuesInv
<1>3. QueuesInv /\ [MCNext]_queueVars => [ExportFenced /\ ArchiveFenced /\ PushFenced]_queueVars
  BY QueuesStep, ExportFences, ArchiveFences, PushFences DEF QueuesInv
<1> QED
  BY <1>1, <1>2, <1>3, PTL DEF MCSpec, ClaimsAreFenced
=============================================================================
