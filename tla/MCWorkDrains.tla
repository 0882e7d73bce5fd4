---------------------------- MODULE MCWorkDrains ----------------------------
(***************************************************************************)
(* What must end: the jobs of the three queues of the background worker,   *)
(* the rechecks of the verification worker and the calls that wait for the *)
(* PDF worker, each under the fairness of its own timers and loops.  A     *)
(* behaviour works on one of them and leaves the others in their initial   *)
(* states.  The verification worker comes as an instance; its None is that *)
(* of the queues, its workers are other processes.                         *)
(***************************************************************************)
EXTENDS ReportExport, ReceiptArchive, NotificationDelivery, PdfWorker

CONSTANTS Work,   \* what an instance works on
          Verifiers, Txns, Payment, RecheckLimit, MaxPollAttempts, PollIds, MaxUploads,
          CreditCap, MaxToggles, MaxCrashes, MaxStalls   \* of VerificationPipeline

VARIABLES focus,
          txStatus, attempt, recheck, request, lastId, charges, credits, branch, confirmed,
          credited, alerts, uploads, pc, job, budget     \* of VerificationPipeline

Pipeline == INSTANCE VerificationPipeline WITH
  Workers <- Verifiers, Receipts <- {Payment}, ReceiptOf <- [t \in Txns |-> Payment]

pipelineVars == <<txStatus, attempt, recheck, request, lastId, charges, credits, branch,
                  confirmed, credited, alerts, uploads, pc, job, budget>>

allVars == <<focus, exportVars, archiveVars, pushVars, pdfVars, pipelineVars>>

DrainInit == /\ focus \in Work
             /\ ExportInit /\ ArchiveInit /\ PushInit /\ PdfInit /\ Pipeline!Init

WorksOn(f) == focus = f /\ UNCHANGED focus

DrainNext ==
  \/ /\ WorksOn("export") /\ ExportNext
     /\ UNCHANGED <<archiveVars, pushVars, pdfVars, pipelineVars>>
  \/ /\ WorksOn("archive") /\ ArchiveNext
     /\ UNCHANGED <<exportVars, pushVars, pdfVars, pipelineVars>>
  \/ /\ WorksOn("push") /\ PushNext
     /\ UNCHANGED <<exportVars, archiveVars, pdfVars, pipelineVars>>
  \/ /\ WorksOn("pdf") /\ PdfNext
     /\ UNCHANGED <<exportVars, archiveVars, pushVars, pipelineVars>>
  \/ /\ WorksOn("recheck") /\ Pipeline!Next
     /\ UNCHANGED <<exportVars, archiveVars, pushVars, pdfVars>>

\* What is due is claimed by the runner's next poll, a step of a running worker is taken, a lease
\* lapses and a backoff ends by the clock, a timer fires.
DrainFairness ==
  /\ \A w \in Workers : /\ WF_exportVars(focus = "export" /\ ExporterStep(w))
                        /\ WF_archiveVars(focus = "archive" /\ ArchiverStep(w))
                        /\ WF_pushVars(focus = "push" /\ SenderStep(w))
  /\ \A x \in Exports : /\ WF_exportVars(focus = "export" /\ LapseExport(x))
                        /\ WF_exportVars(focus = "export" /\ RetryExport(x))
  /\ \A m \in 1..Months : WF_archiveVars(focus = "archive" /\ ArchiveTime(m))
  /\ \A r \in Receipts : WF_archiveVars(focus = "archive" /\ DeletionDue(r))
  /\ \A n \in Notifications : WF_pushVars(focus = "push" /\ PushTime(n))
  /\ PdfFairness
  /\ Pipeline!Fairness

DrainSpec == DrainInit /\ [][DrainNext]_allVars /\ DrainFairness
-----------------------------------------------------------------------------
\* Every job of a queue ends, whatever fails, lapses and is taken over meanwhile: an export is
\* ready or failed for good, a receipt of a month that is archived leaves the source storage or
\* stays after its last attempt, a push is sent or failed (the runners' processNext).
EveryJobEnds == EveryExportEnds /\ EveryReceiptIsArchived /\ EveryPushEnds

\* A scheduled recheck ends as long as its claims are taken (VerifyEtWorkerService).
EveryRecheckSettles == Pipeline!EveryRecheckSettles
=============================================================================
