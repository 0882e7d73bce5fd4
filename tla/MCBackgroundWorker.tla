------------------------- MODULE MCBackgroundWorker -------------------------
(***************************************************************************)
(* The worker process runs three queues: report exports, the archive and   *)
(* push delivery.  They share no variable, and every property speaks of    *)
(* one of them, so a behaviour of the instance works on one queue and      *)
(* leaves the other two in their initial states.                           *)
(***************************************************************************)
EXTENDS ReportExport, ReceiptArchive, NotificationDelivery, TLC

CONSTANT Queues   \* the queues an instance works on

VARIABLE queue

queueVars == <<queue, exportVars, archiveVars, pushVars>>

MCInit == queue \in Queues /\ ExportInit /\ ArchiveInit /\ PushInit

WorksOn(q) == queue = q /\ UNCHANGED queue

MCNext ==
  \/ WorksOn("export")  /\ ExportNext  /\ UNCHANGED <<archiveVars, pushVars>>
  \/ WorksOn("archive") /\ ArchiveNext /\ UNCHANGED <<exportVars, pushVars>>
  \/ WorksOn("push")    /\ PushNext    /\ UNCHANGED <<exportVars, archiveVars>>

MCSpec == MCInit /\ [][MCNext]_queueVars

\* A claim is ended by its own worker or after its lease lapsed, and what ended stays so
\* (claimNext, complete and fail of the three queues).
ClaimsAreFenced == [][ExportFenced /\ ArchiveFenced /\ PushFenced]_queueVars

\* Workers are interchangeable, and so are receipts.
Symmetry == Permutations(Workers) \cup Permutations(Receipts)
=============================================================================
