----------------------------- MODULE PdfWorker -----------------------------
(***************************************************************************)
(* PDF proofs are decoded by one worker thread.  The client starts it with *)
(* the first file, posts files to it without waiting and answers each call *)
(* when the worker's message arrives, or a timer fires: one for the        *)
(* thread's start, then one for each call.  Any of them ends all decoding  *)
(* until the application is restarted.  The thread may be slow, hang or    *)
(* die at any point; what it replies is a parameter.                       *)
(***************************************************************************)
EXTENDS Naturals, Sequences

CONSTANTS
  Files,     \* calls of run
  Replies    \* what the thread replies to a file

\* "invalid" is a decoding with too many, empty or too long candidates, "malformed" no worker
\* message.  pdf-qr-worker.mjs posts neither.
ASSUME RepliesAssumption == Replies \subseteq {"decoded", "failed", "invalid", "malformed"}

VARIABLES
  decode,    \* the calls: "pending" is in the map, "forgotten" is neither there nor settled
  client,    \* the client: "none", "starting" (a worker that is not ready) or "ready"
  disabled,  \* disabledError is set
  timed,     \* pending calls whose timer runs
  thread,    \* the worker thread has posted that it is ready
  inbox,     \* files posted to the worker
  outbox     \* messages the client did not read yet

pdfVars == <<decode, client, disabled, timed, thread, inbox, outbox>>

Pending == {f \in Files : decode[f] = "pending"}

PdfInit ==
  /\ decode   = [f \in Files |-> "idle"]
  /\ client   = "none"
  /\ disabled = FALSE
  /\ timed    = {}
  /\ thread   = FALSE
  /\ inbox    = <<>>
  /\ outbox   = <<>>

\* this.worker is dropped, with what it was given and said, and the calls that are in the map by
\* then are rejected.
DropWorker(calls) ==
  /\ client' = "none" /\ timed' = {} /\ thread' = FALSE /\ inbox' = <<>> /\ outbox' = <<>>
  /\ decode' = [f \in Files |-> IF calls[f] = "pending" THEN "failed" ELSE calls[f]]

\* disableWorker.
Disable(calls) == disabled' = TRUE /\ DropWorker(calls)

\* run and getWorker: the timer runs at once when the worker is ready.
Run(f) ==
  /\ decode[f] = "idle"
  /\ IF disabled
     THEN /\ decode' = [decode EXCEPT ![f] = "failed"]
          /\ UNCHANGED <<client, timed, inbox>>
     ELSE /\ decode' = [decode EXCEPT ![f] = "pending"]
          /\ client' = IF client = "none" THEN "starting" ELSE client
          /\ timed'  = IF client = "ready" THEN timed \cup {f} ELSE timed
          /\ inbox'  = Append(inbox, f)
  /\ UNCHANGED <<disabled, thread, outbox>>

\* The message cannot be posted.
PostFails(f) ==
  /\ decode[f] = "idle" /\ ~disabled
  /\ Disable([decode EXCEPT ![f] = "pending"])

\* The thread's first message.
Boot ==
  /\ client = "starting" /\ ~thread
  /\ thread' = TRUE /\ outbox' = Append(outbox, [file |-> "none", answer |-> "ready"])
  /\ UNCHANGED <<decode, client, disabled, timed, inbox>>

\* handle: one file after the other.
Handle ==
  /\ thread /\ inbox # <<>>
  /\ \E answer \in Replies :
       outbox' = Append(outbox, [file |-> Head(inbox), answer |-> answer])
  /\ inbox' = Tail(inbox)
  /\ UNCHANGED <<decode, client, disabled, timed, thread>>

\* Mutant: only later calls get a timer.
NoneTimed == {}

\* The loop of handleMessage when the worker is ready.
TimedAtReadiness == Pending

ReadReady ==
  /\ outbox # <<>> /\ Head(outbox).answer = "ready"
  /\ IF client = "ready"
     THEN Disable(decode)
     ELSE /\ client' = "ready" /\ timed' = TimedAtReadiness /\ outbox' = Tail(outbox)
          /\ UNCHANGED <<decode, disabled, thread, inbox>>

\* The call has left the map, with its timer, when its candidates turn out to be invalid.
CallTakenOut(f) == [decode EXCEPT ![f] = "forgotten"]

\* The rest of handleMessage.
ReadAnswer ==
  /\ outbox # <<>> /\ Head(outbox).answer # "ready"
  /\ LET m == Head(outbox) IN
     CASE m.answer = "malformed" \/ m.file \notin Pending -> Disable(decode)
       [] m.answer = "invalid" /\ m.file \in Pending -> Disable(CallTakenOut(m.file))
       [] OTHER ->
            /\ decode' = [decode EXCEPT ![m.file] = m.answer]
            /\ timed'  = timed \ {m.file}
            /\ outbox' = Tail(outbox)
            /\ UNCHANGED <<client, disabled, thread, inbox>>

\* The timers.
StartupTimeout == client = "starting" /\ Disable(decode)
JobTimeout     == timed # {} /\ Disable(decode)

\* The thread's error or exit event; one that exits in order while nobody waits disables nothing.
ThreadDies ==
  /\ client # "none"
  /\ \/ Disable(decode)
     \/ Pending = {} /\ DropWorker(decode) /\ UNCHANGED disabled

\* onModuleDestroy does not disable: a later call starts another worker.
Destroy == client # "none" /\ DropWorker(decode) /\ UNCHANGED disabled

PdfNext == \/ \E f \in Files : Run(f) \/ PostFails(f)
           \/ Boot \/ Handle \/ ReadReady \/ ReadAnswer
           \/ StartupTimeout \/ JobTimeout \/ ThreadDies \/ Destroy

\* Timers fire; nothing is assumed of the thread.
PdfFairness == WF_pdfVars(StartupTimeout) /\ WF_pdfVars(JobTimeout)

PdfSpec == PdfInit /\ [][PdfNext]_pdfVars /\ PdfFairness
-----------------------------------------------------------------------------
\* disableWorker rejects what is in the map, and the one call whose candidates were invalid has left
\* it by then.
LeftUnanswered(f) ==
  /\ disabled /\ decode[f] = "forgotten"
  /\ \A g \in Files \ {f} : decode[g] \notin {"pending", "forgotten"}

\* An upload never waits for ever on its PDF, whatever the thread replies, and if it hangs or dies:
\* at each moment some timer runs for a call that is pending (run, handleMessage, armJobTimeout).
\* "A timeout, invalid response, worker error or unexpected exit rejects every queued request"
\* (docs/PHASE-3-VALIDATION.md:253), except that a reply with invalid candidates leaves its own
\* call, and no other, without an answer.  pdf-qr-worker.mjs posts no such reply.
EveryDecodeSettles ==
  \A f \in Files : decode[f] = "pending"
    ~> (decode[f] \in {"decoded", "failed"} \/ LeftUnanswered(f))
=============================================================================
