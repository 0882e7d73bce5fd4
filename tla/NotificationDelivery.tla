------------------------ MODULE NotificationDelivery ------------------------
(***************************************************************************)
(* Notifications and their push delivery.  A committed event inserts one   *)
(* row for each member of its audience; a worker leases a row, sends the   *)
(* message to the recipient's device through Firebase and records the      *)
(* attempt.  Devices and preferences change meanwhile.                     *)
(***************************************************************************)
EXTENDS WorkLeases

CONSTANTS
  Events,     \* committed events that notify, each with its idempotency key
  Overseers,  \* owners and managers whose work covers the branch
  Submitters, \* users who submit payments or reconciliations
  Admins,     \* active platform administrators
  Devices     \* push tokens, told apart by their fingerprint

ASSUME AudiencesApart == Admins \cap (Overseers \cup Submitters) = {}
ASSUME NobodyIsNone == None \notin Overseers \cup Submitters \cup Admins \cup Devices

Recipients == Overseers \cup Submitters \cup Admins

VARIABLES
  push,       \* notifications: push_status by event and recipient
  pushLease,  \* push_attempt_count, push_claim_token, ...
  visible,    \* rows whose visible_until is to come
  attempts,   \* notification_delivery_attempts by number
  device,     \* notification_devices: owner and is_active
  inApp,      \* recipients with in_app_enabled
  pushOn,     \* recipients with push_enabled
  sender,     \* the worker's call of processNext
  pushStops   \* claims that ended with their process

pushVars == <<push, pushLease, visible, attempts, device, inApp, pushOn, sender, pushStops>>

Notifications == Events \X Recipients
Recipient(n)  == n[2]
NoAttempts    == [i \in 1..MaxAttempts |-> "none"]
NoDevice      == [user |-> None, active |-> FALSE]
IdleSender    == [step |-> "idle", row |-> None, no |-> 0, device |-> None]

PushInit ==
  /\ push      = [n \in Notifications |-> "none"]
  /\ pushLease = [n \in Notifications |-> FreshLease]
  /\ visible   = {}
  /\ attempts  = [n \in Notifications |-> NoAttempts]
  /\ device    = [d \in Devices |-> NoDevice]
  /\ inApp     = Recipients
  /\ pushOn    = Recipients
  /\ sender    = [w \in Workers |-> IdleSender]
  /\ pushStops = 0
-----------------------------------------------------------------------------
(* Audiences: NotificationAudienceDao and NotificationDao.                 *)

FinancialAudience(actor)      == Overseers \ {actor}
ReviewAudience(actor)         == Overseers \ {actor}
ReconciliationSubmitter(user) == {user}
TransactionSubmitter(user)    == {user}
CreditAudience                == Overseers
IncidentAudience              == Admins
FraudAudience                 == Admins

\* The audience of an event a user is behind.
Audiences(user) == {FinancialAudience(user), ReviewAudience(user), ReconciliationSubmitter(user),
                    TransactionSubmitter(user), CreditAudience, IncidentAudience, FraudAudience}

\* The event's transaction commits; a row that exists already is left as it is.
Notify(e, A) ==
  LET new == {n \in Notifications : n[1] = e /\ Recipient(n) \in A \cap inApp
                                    /\ push[n] = "none"} IN
  /\ new # {}
  /\ push'    = [n \in Notifications |-> IF n \in new THEN "PENDING" ELSE push[n]]
  /\ visible' = visible \cup new
  /\ UNCHANGED <<pushLease, attempts, device, inApp, pushOn, sender, pushStops>>
-----------------------------------------------------------------------------
(* The recipient's side: preferences and devices.                          *)

\* upsertPreference.
Prefer(u, shown, pushed) ==
  /\ inApp'  = IF shown  THEN inApp \cup {u}  ELSE inApp \ {u}
  /\ pushOn' = IF pushed THEN pushOn \cup {u} ELSE pushOn \ {u}
  /\ <<inApp, pushOn>>' # <<inApp, pushOn>>
  /\ UNCHANGED <<push, pushLease, visible, attempts, device, sender, pushStops>>

\* Mutant: the token moves to whoever registers it.
AnyoneRegisters(d, u) == TRUE

\* ON CONFLICT (token_fingerprint) updates the row of the same owner only.
MayRegister(d, u) == device[d].user \in {None, u}

\* register: the user's other devices are deactivated, this one is active.
Register(d, u) ==
  /\ MayRegister(d, u)
  /\ device' = [c \in Devices |->
       IF c = d THEN [user |-> u, active |-> TRUE]
       ELSE IF device[c].user = u THEN [device[c] EXCEPT !.active = FALSE] ELSE device[c]]
  /\ UNCHANGED <<push, pushLease, visible, attempts, inApp, pushOn, sender, pushStops>>

Deactivate(d) ==
  /\ device[d].active
  /\ device' = [device EXCEPT ![d].active = FALSE]
  /\ UNCHANGED <<push, pushLease, visible, attempts, inApp, pushOn, sender, pushStops>>
-----------------------------------------------------------------------------
(* Delivery: NotificationDeliveryService and NotificationDeliveryDao.      *)

SenderGoes(w, step) == sender' = [sender EXCEPT ![w].step = step]
SenderRests(w)      == sender' = [sender EXCEPT ![w] = IdleSender]

\* A retry that is not due holds a lapsed row back too.
Sendable(n, d) ==
  /\ Claimable(pushLease[n], push[n] = "PENDING", push[n] = "SENDING")
  /\ pushLease[n].due /\ n \in visible /\ Recipient(n) \in pushOn
  /\ device[d] = [user |-> Recipient(n), active |-> TRUE]

ClaimPush(w, n, d) ==
  /\ sender[w].step = "idle" /\ Sendable(n, d)
  /\ push'      = [push EXCEPT ![n] = "SENDING"]
  /\ pushLease' = [pushLease EXCEPT ![n] = Claim(@, w)]
  /\ sender'    = [sender EXCEPT ![w] = [step |-> "send", row |-> n, device |-> d,
                                         no |-> pushLease[n].attempts + 1]]
  /\ UNCHANGED <<visible, attempts, device, inApp, pushOn, pushStops>>

\* Firebase takes the message, refuses it, or the answer is an error worth a retry
\* (which may hide a message that was taken).
Send(w) ==
  /\ sender[w].step = "send"
  /\ \E step \in {"sent", "retry", "refused"} : SenderGoes(w, step)
  /\ UNCHANGED <<push, pushLease, visible, attempts, device, inApp, pushOn, pushStops>>

\* complete: the attempt's row first, then the notification if the claim is still its own.
Deliver(w) ==
  LET n == sender[w].row IN
  /\ sender[w].step = "sent"
  /\ attempts[n][sender[w].no] = "none"                 \* UNIQUE (notification_id, attempt_no)
  /\ attempts' = [attempts EXCEPT ![n][sender[w].no] = "DELIVERED"]
  /\ IF Holds(pushLease[n], w)
     THEN /\ push' = [push EXCEPT ![n] = "DELIVERED"]
          /\ pushLease' = [pushLease EXCEPT ![n].token = None, ![n].lapsed = FALSE]
     ELSE UNCHANGED <<push, pushLease>>
  /\ SenderRests(w)
  /\ UNCHANGED <<visible, device, inApp, pushOn, pushStops>>

\* complete fails: the catch treats it as an error worth a retry, although the message went out.
DeliverFails(w) ==
  /\ sender[w].step = "sent" /\ SenderGoes(w, "retry")
  /\ UNCHANGED <<push, pushLease, visible, attempts, device, inApp, pushOn, pushStops>>

\* fail: the attempt's row with its retry_at, and the notification if the claim is its own.
FailPush(w) ==
  LET n     == sender[w].row
      final == sender[w].step = "refused" \/ sender[w].no >= MaxAttempts IN
  /\ sender[w].step \in {"retry", "refused"}
  /\ attempts[n][sender[w].no] = "none"
  /\ attempts' = [attempts EXCEPT ![n][sender[w].no] = "FAILED"]
  /\ LET kept == [pushLease EXCEPT ![n].due = @ /\ final] IN
     IF Holds(pushLease[n], w)
     THEN /\ push' = [push EXCEPT ![n] = IF final THEN "FAILED" ELSE "PENDING"]
          /\ pushLease' = [kept EXCEPT ![n].token = None, ![n].lapsed = FALSE]
     ELSE pushLease' = kept /\ UNCHANGED push
  /\ SenderRests(w)
  /\ UNCHANGED <<visible, device, inApp, pushOn, pushStops>>

SenderStep(w) ==
  \/ \E n \in Notifications, d \in Devices : ClaimPush(w, n, d)
  \/ Send(w) \/ Deliver(w) \/ DeliverFails(w) \/ FailPush(w)

\* The process ends, or recording the attempt throws.
StopSender(w) ==
  /\ sender[w].step # "idle" /\ pushStops < MaxStops
  /\ pushStops' = pushStops + 1 /\ SenderRests(w)
  /\ UNCHANGED <<push, pushLease, visible, attempts, device, inApp, pushOn>>
-----------------------------------------------------------------------------
(* Time.                                                                   *)

\* Two minutes since the claim, or retry_at, pass.
PushTime(n) ==
  /\ \/ /\ push[n] = "SENDING" /\ ~pushLease[n].lapsed
        /\ pushLease' = [pushLease EXCEPT ![n].lapsed = TRUE]
     \/ ~pushLease[n].due /\ pushLease' = [pushLease EXCEPT ![n].due = TRUE]
  /\ UNCHANGED <<push, visible, attempts, device, inApp, pushOn, sender, pushStops>>

\* A day passes.
Disappears(n) ==
  /\ n \in visible /\ visible' = visible \ {n}
  /\ UNCHANGED <<push, pushLease, attempts, device, inApp, pushOn, sender, pushStops>>

PushNext ==
  \/ \E e \in Events, u \in Recipients : \E A \in Audiences(u) : Notify(e, A)
  \/ \E u \in Recipients, shown \in BOOLEAN, pushed \in BOOLEAN : Prefer(u, shown, pushed)
  \/ \E d \in Devices : Deactivate(d) \/ \E u \in Recipients : Register(d, u)
  \/ \E w \in Workers : SenderStep(w) \/ StopSender(w)
  \/ \E n \in Notifications : PushTime(n) \/ Disappears(n)

PushFairness ==
  /\ \A w \in Workers : WF_pushVars(SenderStep(w))
  /\ \A n \in Notifications : WF_pushVars(PushTime(n))

PushSpec == PushInit /\ [][PushNext]_pushVars /\ PushFairness
-----------------------------------------------------------------------------
\* A message in flight goes to a device its recipient registered, whoever registers devices
\* between the claim and the send (NotificationDeviceDao.register).
PushReachesRecipient ==
  \A w \in Workers : sender[w].step = "send" =>
    device[sender[w].device].user = Recipient(sender[w].row)

\* The claim of a row ends by a step of its worker, or is taken over once its lease lapsed;
\* DELIVERED and FAILED are final (complete, fail).
PushFenced ==
  \A n \in Notifications :
    /\ pushLease[n].token \notin {None, pushLease'[n].token} =>
         \/ pushLease[n].lapsed
         \/ sender[pushLease[n].token].row = n /\ sender'[pushLease[n].token] = IdleSender
    /\ push[n] \in {"DELIVERED", "FAILED"} => push'[n] = push[n]

\* A claim whose third worker stopped is not taken again.
PushAbandoned(n) ==
  /\ push[n] = "SENDING" /\ pushLease[n].attempts = MaxAttempts
  /\ sender[pushLease[n].token].row # n

\* A notification is delivered or given up, unless it disappears, its recipient cannot get it
\* or its third worker stopped (NotificationWorkerRunner).
EveryPushEnds ==
  \A n \in Notifications : push[n] = "PENDING" ~>
    \/ push[n] \in {"DELIVERED", "FAILED"} \/ n \notin visible \/ PushAbandoned(n)
    \/ Recipient(n) \notin pushOn
    \/ ~ \E d \in Devices : device[d] = [user |-> Recipient(n), active |-> TRUE]
=============================================================================
