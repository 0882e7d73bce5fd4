---------------------------- MODULE ProofIntake ----------------------------
(***************************************************************************)
(* Proofs of payment: what an upload does with the file it is given for a  *)
(* transaction, from the scan to the verification it prepares, and the     *)
(* review of the proofs that do not match.  A QR payload is described by   *)
(* what each of its fields says relative to the transaction.  Uploads run  *)
(* concurrently; any call to the database or the storage may fail, also    *)
(* after it took effect, and a process may stop between two of them.       *)
(***************************************************************************)
EXTENDS Naturals, FiniteSets

CONSTANTS
  Uploads,     \* concurrent uploads to the transaction
  Nobody,      \* SQL NULL
  MaxReceipts  \* bound: files that are stored

ASSUME ReceiptBound == MaxReceipts \in Nat

VARIABLES
  upload,    \* the running uploads
  stored,    \* objects in the storage
  receipt,   \* transaction_receipts, with what was known of the file
  decision,  \* receipt_match_decisions
  review,    \* receipt_review_cases
  reviewLog, \* receipt_review_case_history
  prepared   \* an initial attempt was prepared for the transaction

intakeVars == <<upload, stored, receipt, decision, review, reviewLog, prepared>>

Slots == 1..MaxReceipts

NoFile   == [scan |-> "none", decision |-> "none", agrees |-> FALSE]
IdleUpload == [step |-> "idle", slot |-> 0, file |-> NoFile]
NoReview == [status |-> "none", acknowledged |-> Nobody, resolved |-> Nobody]

IntakeInit ==
  /\ upload   = [u \in Uploads |-> IdleUpload]
  /\ stored   = {}
  /\ receipt  = [s \in Slots |-> NoFile]
  /\ decision = [s \in Slots |-> "none"]
  /\ review   = [s \in Slots |-> NoReview]
  /\ reviewLog = {}
  /\ prepared = FALSE
-----------------------------------------------------------------------------
(* Who may upload and review: a transaction of branch "here".              *)

Actors ==
  [role : {"PRIMARY_OWNER"}, branch : {Nobody}, own : {FALSE}] \cup
  [role : {"MANAGER"}, branch : {"here", "there"}, own : {FALSE}] \cup
  [role : {"WAITER"}, branch : {"here"}, own : BOOLEAN]

InScope(a) == a.branch \in {Nobody, "here"}

\* assertCanUpload.
CanUpload(a) == InScope(a) /\ (a.role = "WAITER" => a.own)

\* ReceiptReviewCaseService.scope.
CanReview(a) == InScope(a) /\ a.role \in {"PRIMARY_OWNER", "MANAGER"}
-----------------------------------------------------------------------------
(* QrPayloadParserService and ReceiptTransactionMatcherService.  "amount"  *)
(* stands for the amount, the date and the time, which are treated alike.  *)

Fields == {"reference", "amount", "account", "phone"}

\* What a field says: nothing, what the transaction says, something else, no value of the field's
\* form, or two values.
Says == {"nothing", "same", "other", "malformed", "two"}

Payloads == [bank     : {"same", "other", "unknown", "unsupported"},
             required : {{"reference"}, {"reference", "account"}, {"reference", "phone"}},
             says     : [Fields -> Says]]

Readable(p, f) == p.says[f] \in {"same", "other"}

ParsedStatus(p) ==
  CASE \E f \in Fields : p.says[f] = "two"          -> "AMBIGUOUS"
    [] p.bank = "unsupported"                       -> "UNSUPPORTED_BANK"
    [] p.bank = "unknown"                           -> "PARTIAL"
    [] \E f \in p.required : ~Readable(p, f)        -> "PARTIAL"
    [] OTHER                                        -> "COMPLETE"

\* Mutant: a field is compared only when the bank requires it.
MatchesRequired(p) ==
  /\ p.bank = "same" /\ p.says["reference"] = "same"
  /\ \A f \in {"amount", "account"} \cap p.required : p.says[f] # "other"

\* match: the bank and the reference, and what else the parser read; a phone is not compared.
Matches(p) ==
  /\ p.bank = "same" /\ p.says["reference"] = "same"
  /\ \A f \in {"amount", "account"} : p.says[f] # "other"

\* receiptMatch: without exactly one complete code there is nothing to match.
Decision(p) ==
  IF ParsedStatus(p) = "COMPLETE" /\ Matches(p) THEN "MATCHED" ELSE "REVIEW_REQUIRED"

\* Nothing that the code states of the payment is contradicted by the transaction.
Agrees(p) ==
  p.bank = "same" /\ \A f \in Fields \ {"phone"} : p.says[f] \notin {"other", "two"}

\* What the rest of an upload depends on: a file has no code, one, or many.
Outcomes ==
  [decision : {"REVIEW_REQUIRED"}, agrees : {FALSE}] \cup
  {[decision |-> Decision(p), agrees |-> Agrees(p)] : p \in Payloads}
-----------------------------------------------------------------------------
(* The upload.                                                             *)

UploadEnds(u) == upload' = [upload EXCEPT ![u] = IdleUpload]
UploadGoes(u, step) == upload' = [upload EXCEPT ![u].step = step]

\* inspect fails closed when the scanner cannot be asked.
Passes(scan) == scan = "CLEAN"

\* assertCanUpload and inspect; a file that is refused changes nothing.
Inspect(u, a, scan) ==
  /\ upload[u].step = "idle" /\ CanUpload(a) /\ Passes(scan)
  /\ \E o \in Outcomes :
       upload' = [upload EXCEPT ![u] = [IdleUpload EXCEPT !.step = "inspected",
                    !.file = [scan |-> scan, decision |-> o.decision, agrees |-> o.agrees]]]
  /\ UNCHANGED <<stored, receipt, decision, review, reviewLog, prepared>>

FreeSlots == {s \in Slots : s \notin stored /\ receipt[s] = NoFile
                            /\ \A u \in Uploads : upload[u].slot # s}

\* putObject under a fresh key; when it fails the upload ends.
Put(u) ==
  /\ upload[u].step = "inspected"
  /\ \E s \in FreeSlots :
     /\ \A t \in FreeSlots : s <= t
     /\ \/ /\ stored' = stored \cup {s}
           /\ upload' = [upload EXCEPT ![u].step = "put", ![u].slot = s]
        \/ UploadEnds(u) /\ stored' \in {stored, stored \cup {s}}
  /\ UNCHANGED <<receipt, decision, review, reviewLog, prepared>>

\* receipts.create; the row may be there although the call failed.
CreateReceipt(u) ==
  /\ upload[u].step = "put"
  /\ LET row == [receipt EXCEPT ![upload[u].slot] = upload[u].file] IN
     \/ UploadGoes(u, "created") /\ receipt' = row
     \/ UploadGoes(u, "failed")  /\ receipt' \in {receipt, row}
  /\ UNCHANGED <<stored, decision, review, reviewLog, prepared>>

\* The object is deleted again, or a warning is logged.
DeleteObject(u) ==
  /\ upload[u].step = "failed" /\ UploadEnds(u)
  /\ stored' \in {stored, stored \ {upload[u].slot}}
  /\ UNCHANGED <<receipt, decision, review, reviewLog, prepared>>

\* recordWithin: the decision, and with it the case and its first history row.
RecordDecision(u) ==
  LET s == upload[u].slot
      d == upload[u].file.decision IN
  /\ decision' = [decision EXCEPT ![s] = d]
  /\ IF d = "REVIEW_REQUIRED"
     THEN /\ review'  = [review EXCEPT ![s].status = "OPEN"]
          /\ reviewLog' = reviewLog \cup {[slot |-> s, to |-> "OPEN", by |-> Nobody]}
     ELSE UNCHANGED <<review, reviewLog>>

MatchReceipt(u) ==
  /\ upload[u].step = "created"
  /\ \/ /\ RecordDecision(u)
        /\ IF upload[u].file.decision = "MATCHED" THEN UploadGoes(u, "matched") ELSE UploadEnds(u)
     \/ RecordDecision(u) /\ UploadEnds(u)
     \/ UNCHANGED <<decision, review, reviewLog>> /\ UploadEnds(u)
  /\ UNCHANGED <<stored, receipt, prepared>>

\* The attempt's key names the transaction: a second upload finds the same attempt.
Prepare(u) ==
  /\ upload[u].step = "matched" /\ UploadEnds(u)
  /\ prepared' \in {prepared, TRUE}
  /\ UNCHANGED <<stored, receipt, decision, review, reviewLog>>

\* The process stops.
Stop(u) ==
  /\ upload[u].step # "idle" /\ UploadEnds(u)
  /\ UNCHANGED <<stored, receipt, decision, review, reviewLog, prepared>>
-----------------------------------------------------------------------------
(* The review: FOR UPDATE OF review_case makes each call one step.         *)

\* recordHistory.
Logged(s, to, a) == reviewLog' = reviewLog \cup {[slot |-> s, to |-> to, by |-> a]}

\* The same actor's replay changes nothing.
AcknowledgeWithin(a, s) ==
  /\ review[s].status = "OPEN"
  /\ review' = [review EXCEPT ![s] = [@ EXCEPT !.status = "ACKNOWLEDGED", !.acknowledged = a]]
  /\ Logged(s, "ACKNOWLEDGED", a)

Acknowledge(a, s) ==
  /\ CanReview(a) /\ AcknowledgeWithin(a, s)
  /\ UNCHANGED <<upload, stored, receipt, decision, prepared>>

\* Mutant: an open case is resolved at once.
ResolvableAtOnce(s) == review[s].status \in {"OPEN", "ACKNOWLEDGED"}

Resolvable(s) == review[s].status = "ACKNOWLEDGED"

ResolveWithin(a, s) ==
  /\ Resolvable(s)
  /\ review' = [review EXCEPT ![s] = [@ EXCEPT !.status = "RESOLVED", !.resolved = a]]
  /\ Logged(s, "RESOLVED", a)

Resolve(a, s) ==
  /\ CanReview(a) /\ ResolveWithin(a, s)
  /\ UNCHANGED <<upload, stored, receipt, decision, prepared>>

IntakeNext ==
  \/ \E u \in Uploads :
       \/ \E a \in Actors, scan \in {"CLEAN", "INFECTED", "ERROR"} : Inspect(u, a, scan)
       \/ Put(u) \/ CreateReceipt(u) \/ DeleteObject(u) \/ MatchReceipt(u) \/ Prepare(u) \/ Stop(u)
  \/ \E a \in Actors, s \in Slots : Acknowledge(a, s) \/ Resolve(a, s)

IntakeSpec == IntakeInit /\ [][IntakeNext]_intakeVars
-----------------------------------------------------------------------------
\* A payment is sent for verification on evidence that can be shown later: a scanned file, still
\* stored and recorded, whose one code says nothing the transaction contradicts, whatever failed
\* on the way (upload, persistReceipt, receiptMatch).
PreparedHasEvidence ==
  prepared => \E s \in Slots : /\ s \in stored /\ decision[s] = "MATCHED"
                               /\ receipt[s].scan = "CLEAN" /\ receipt[s].agrees

\* A proof that did not match is in review, and every step of its review is on record with the
\* person who took it (recordWithin, acknowledgeWithin, resolveWithin).
FlaggedIsReviewed ==
  \A s \in Slots :
    /\ decision[s] = "REVIEW_REQUIRED" <=> review[s].status # "none"
    /\ {<<h.to, h.by>> : h \in {g \in reviewLog : g.slot = s}} =
         CASE review[s].status = "none"         -> {}
           [] review[s].status = "OPEN"         -> {<<"OPEN", Nobody>>}
           [] review[s].status = "ACKNOWLEDGED" ->
                {<<"OPEN", Nobody>>, <<"ACKNOWLEDGED", review[s].acknowledged>>}
           [] OTHER -> {<<"OPEN", Nobody>>, <<"ACKNOWLEDGED", review[s].acknowledged>>,
                        <<"RESOLVED", review[s].resolved>>}
=============================================================================
