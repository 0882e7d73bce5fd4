---------------------------- MODULE StaffAccess ----------------------------
(***************************************************************************)
(* Who may work in a business, and their sessions, under the V2 schema.    *)
(* A registered business is reviewed by the platform; its owner creates    *)
(* branches and staff; staff are removed again.  Everyone logs in to       *)
(* sessions whose refresh token rotates.  Calls run concurrently: a step   *)
(* is what a transaction does up to a row it may have to wait for.         *)
(***************************************************************************)
EXTENDS Naturals, FiniteSets

CONSTANTS
  Owner, Admin,  \* the primary owner and the platform administrator
  Staff,         \* people who may be hired
  Branches,      \* codes of branches
  NoOne,         \* SQL NULL
  Calls,         \* concurrent logins and refreshes
  StaffRoles,    \* roles that staff are hired for
  MaxSessions,   \* bound: sessions that are created
  MaxRotations   \* bound: rotations of a session's token

ASSUME PeopleApart == Owner # Admin /\ {Owner, Admin, NoOne} \cap Staff = {}
ASSUME HiredRoles    == StaffRoles \subseteq {"MANAGER", "CASHIER", "WAITER"}
ASSUME SessionBounds == MaxSessions \in Nat /\ MaxRotations \in Nat

VARIABLES
  business,  \* businesses.status
  branches,  \* branches, all SETUP_REQUIRED: nothing changes their status
  person,    \* membership, role and work assignment of a user, which change together
  session,   \* user_sessions and platform_admin_sessions
  call,      \* calls of login and refresh
  removal,   \* transactions of remove, by the person they remove
  spent      \* refresh tokens that were accepted (history)

accessVars == <<business, branches, person, session, call, removal, spent>>

People   == Staff \cup {Owner, Admin}
Sessions == 1..MaxSessions

BusinessStatuses == {"none", "REGISTRATION", "ACTIVE", "INACTIVE", "SUSPENDED"}

NoSession   == [who |-> NoOne, status |-> "none", past |-> FALSE, token |-> 0]
IdleCall    == [step |-> "idle", who |-> NoOne, session |-> 0, token |-> 0, replaced |-> {}]
IdleRemoval == [step |-> "idle", revoked |-> {}]

AccessInit ==
  /\ business = "none"
  /\ branches = {}
  /\ person   = [u \in People |->
       [role   |-> CASE u = Owner -> "PRIMARY_OWNER"
                     [] u = Admin -> "PLATFORM_SUPER_ADMIN"
                     [] OTHER     -> "WAITER",
        branch |-> NoOne,
        status |-> IF u = Admin THEN "ACTIVE" ELSE "none"]]
  /\ session  = [s \in Sessions |-> NoSession]
  /\ call     = [c \in Calls |-> IdleCall]
  /\ removal  = [u \in Staff |-> IdleRemoval]
  /\ spent    = {}
-----------------------------------------------------------------------------
(* What the transactions see and lock.                                     *)

IsWaiter(u) == person[u].role = "WAITER"

\* The context is active, and the business too; an administrator has none.
InForce(u) == person[u].status = "ACTIVE" /\ (u = Admin \/ business = "ACTIVE")

ActiveSessions(u) == {s \in Sessions : session[s].who = u /\ session[s].status = "ACTIVE"}

Managers(b) == {u \in Staff : person[u].role = "MANAGER" /\ person[u].branch = b
                              /\ person[u].status = "ACTIVE"}

\* A login's transaction is open: it holds the user's advisory lock and shares the rows of the
\* user's membership, role and business.
LoginOpen(u) == \E c \in Calls : call[c].who = u /\ call[c].step \in {"begun", "inserted"}

\* Rows of user_sessions that an open transaction updated.
LockedSessions ==
  UNION {call[c].replaced : c \in {d \in Calls : call[d].step = "inserted"}}
    \cup UNION {removal[u].revoked : u \in Staff}

\* A revoked session is never used again, so its token and its expiry are forgotten.
Revoked(S) == [s \in Sessions |->
  IF s \in S THEN [NoSession EXCEPT !.who = session[s].who, !.status = "REVOKED"]
  ELSE session[s]]
-----------------------------------------------------------------------------
(* The business and its branches.                                          *)

Register ==
  /\ business = "none"
  /\ business' = "REGISTRATION"
  /\ person'   = [person EXCEPT ![Owner].status = "PENDING"]
  /\ UNCHANGED <<branches, session, call, removal, spent>>

\* assertTransition; CLOSED and ARCHIVED are set by nothing.
Allowed(status) ==
  CASE status = "REGISTRATION" -> {"ACTIVE", "INACTIVE"}
    [] status = "ACTIVE"       -> {"INACTIVE", "SUSPENDED"}
    [] status = "INACTIVE"     -> {"ACTIVE", "SUSPENDED"}
    [] status = "SUSPENDED"    -> {"ACTIVE", "INACTIVE"}
    [] OTHER                   -> {}

\* changeStatus locks the business; only the first decision activates the owner.
ChangeStatus(next) ==
  /\ next \in Allowed(business)
  /\ ~ \E u \in People \ {Admin} : LoginOpen(u)
  /\ business' = next
  /\ person'   = IF business = "REGISTRATION" /\ next = "ACTIVE"
                 THEN [person EXCEPT ![Owner].status = "ACTIVE"] ELSE person
  /\ UNCHANGED <<branches, session, call, removal, spent>>

\* create locks the business too.
CreateBranch(b) ==
  /\ InForce(Owner) /\ b \notin branches
  /\ ~ \E u \in People \ {Admin} : LoginOpen(u)
  /\ branches' = branches \cup {b}
  /\ UNCHANGED <<business, person, session, call, removal, spent>>
-----------------------------------------------------------------------------
(* Staff: V2UsersService.                                                  *)

\* Mutant: the branch's row is not locked.
BranchUnlocked(b) == TRUE

\* FOR UPDATE OF branch.
BranchFree(b) == ~ \E u \in Staff : removal[u].step = "removing" /\ person[u].branch = b

AssignableBranch(b) == business = "ACTIVE" /\ b \in branches /\ BranchFree(b)

\* createStaff, by the owner or an administrator: a person's phone is unique, so once only.
CreateStaff(actor, u, b, role) ==
  /\ actor \in {Owner, Admin} /\ InForce(actor)
  /\ AssignableBranch(b) /\ person[u].status = "none"
  /\ person' = [person EXCEPT ![u] = [role |-> role, branch |-> b, status |-> "ACTIVE"]]
  /\ UNCHANGED <<business, branches, session, call, removal, spent>>

\* Mutant: the two rows reference each other by value only.
NoReference(u) == TRUE

\* FOR UPDATE OF assignment waits for an inserted session, whose foreign key shares the assignment.
SessionsSettled(u) == ~ \E c \in Calls : call[c].who = u /\ call[c].step = "inserted"

\* remove up to its third UPDATE: the branch and the assignment are locked, the last manager
\* stays, and the sessions that are committed by now are revoked.
BeginRemoval(u) ==
  /\ removal[u].step = "idle" /\ person[u].status = "ACTIVE"
  /\ AssignableBranch(person[u].branch)
  /\ person[u].role = "MANAGER" => Cardinality(Managers(person[u].branch)) > 1
  /\ SessionsSettled(u) /\ ActiveSessions(u) \cap LockedSessions = {}
  /\ removal' = [removal EXCEPT ![u] = [step |-> "removing", revoked |-> ActiveSessions(u)]]
  /\ UNCHANGED <<business, branches, person, session, call, spent>>

\* Mutant: a login does not share the rows it checked.
NothingShared(u) == TRUE

\* FOR SHARE OF app_user, membership, business, role_assignment.
NotShared(u) == ~LoginOpen(u)

\* Its UPDATE of the role waits for a login that shares it; then it commits.
CommitRemoval(u) ==
  /\ removal[u].step = "removing" /\ NotShared(u)
  /\ person'  = [person EXCEPT ![u].status = "REMOVED"]
  /\ session' = Revoked(removal[u].revoked)
  /\ removal' = [removal EXCEPT ![u] = IdleRemoval]
  /\ UNCHANGED <<business, branches, call, spent>>

\* A login waits for the assignment the removal locked, the removal for the role the login
\* shares: PostgreSQL aborts one of them.
BreakDeadlock(c, u) ==
  /\ call[c].step = "begun" /\ removal[u].step = "removing" /\ call[c].who = u
  /\ \/ call' = [call EXCEPT ![c] = IdleCall] /\ UNCHANGED removal
     \/ removal' = [removal EXCEPT ![u] = IdleRemoval] /\ UNCHANGED call
  /\ UNCHANGED <<business, branches, person, session, spent>>
-----------------------------------------------------------------------------
(* Login: V2AuthService.login and V2SessionRepository.                     *)

Rests(c) == call' = [call EXCEPT ![c] = IdleCall]

\* findIdentity: a person here has at most one membership, role and assignment.
Contexts(u) == IF u # Admin /\ InForce(u) THEN {[role |-> person[u].role, branch |-> person[u].branch]}
               ELSE {}

\* select: an administrator needs no context.
Selectable(u) == u = Admin \/ Contexts(u) # {}

\* The identity, the password and the selection; what was read here is read again later.
Login(c, u) ==
  /\ call[c].step = "idle" /\ Selectable(u)
  /\ call' = [call EXCEPT ![c] = [IdleCall EXCEPT !.step = "selected", !.who = u]]
  /\ UNCHANGED <<business, branches, person, session, removal, spent>>

\* Mutant: logins of a user are not serialised.
AnyTurn(u) == TRUE

\* pg_advisory_xact_lock on the user.
Turn(u) == u = Admin \/ ~LoginOpen(u)

\* assertActiveContext, in the transaction; an inactive context is refused.
BeginSession(c) ==
  /\ call[c].step = "selected" /\ Turn(call[c].who)
  /\ call' = IF InForce(call[c].who) THEN [call EXCEPT ![c].step = "begun"]
             ELSE [call EXCEPT ![c] = IdleCall]
  /\ UNCHANGED <<business, branches, person, session, removal, spent>>

FreeSessions == {s \in Sessions : session[s].status = "none"
                                  /\ \A c \in Calls : call[c].session # s}

\* Its assignment is not locked by a removal (the foreign key).
AssignmentFree(u) == u \in Staff => removal[u].step = "idle"

\* A waiter's active sessions are revoked, waiting for their rows; the new one is inserted, and
\* the trigger finds no other active one.
InsertSession(c) ==
  /\ call[c].step = "begun" /\ FreeSessions # {}
  /\ LET u == call[c].who
         S == IF IsWaiter(u) THEN ActiveSessions(u) ELSE {} IN
     /\ AssignmentFree(u) /\ S \cap LockedSessions = {}
     /\ call' = [call EXCEPT ![c].step = "inserted", ![c].replaced = S,
                             ![c].session = CHOOSE s \in FreeSessions :
                                              \A t \in FreeSessions : s <= t]
  /\ UNCHANGED <<business, branches, person, session, removal, spent>>

CommitSession(c) ==
  /\ call[c].step = "inserted"
  /\ session' = [Revoked(call[c].replaced) EXCEPT ![call[c].session] =
                   [who |-> call[c].who, status |-> "ACTIVE", past |-> FALSE, token |-> 0]]
  /\ call' = [call EXCEPT ![c].step = "issued", ![c].replaced = {}]
  /\ UNCHANGED <<business, branches, person, removal, spent>>

\* The audit is written, and the caller gets its tokens.
Answer(c) ==
  /\ call[c].step \in {"issued", "rotated"} /\ Rests(c)
  /\ UNCHANGED <<business, branches, person, session, removal, spent>>

\* The audit fails: the session is revoked, unless that fails too.
Compensate(c) ==
  /\ call[c].step \in {"issued", "rotated"} /\ Rests(c)
  /\ call[c].session \notin LockedSessions
  /\ session' \in {session, Revoked({call[c].session})}
  /\ UNCHANGED <<business, branches, person, removal, spent>>
-----------------------------------------------------------------------------
(* Refresh, logout and the access token.                                   *)

\* isActive: the session and everything it rests on.
IsActive(s) == session[s].status = "ACTIVE" /\ ~session[s].past /\ InForce(session[s].who)

\* refresh finds the session by the hash of its current token.
Refresh(c, s) ==
  /\ call[c].step = "idle" /\ IsActive(s) /\ session[s].token < MaxRotations
  /\ call' = [call EXCEPT ![c] = [IdleCall EXCEPT !.step = "found", !.session = s,
                                                  !.token = session[s].token]]
  /\ UNCHANGED <<business, branches, person, session, removal, spent>>

\* Mutant: the row is found by its id alone.
AnyToken(s, token) == session[s].status = "ACTIVE" /\ ~session[s].past

\* The WHERE clause of rotateRefreshToken.
Rotatable(s, token) == session[s].status = "ACTIVE" /\ ~session[s].past
                       /\ session[s].token = token

Rotate(c) ==
  LET s == call[c].session IN
  /\ call[c].step = "found" /\ s \notin LockedSessions
  /\ IF Rotatable(s, call[c].token)
     THEN /\ session' = [session EXCEPT ![s].token = @ + 1]
          /\ call'    = [call EXCEPT ![c].step = "rotated"]
          /\ spent'   = spent \cup {<<s, call[c].token>>}
     ELSE Rests(c) /\ UNCHANGED <<session, spent>>
  /\ UNCHANGED <<business, branches, person, removal>>

\* logout with the current token; with any other nothing happens.
Logout(s) ==
  /\ session[s].status = "ACTIVE" /\ ~session[s].past /\ s \notin LockedSessions
  /\ session' = Revoked({s})
  /\ UNCHANGED <<business, branches, person, call, removal, spent>>

\* expires_at passes.
SessionPasses(s) ==
  /\ session[s].status = "ACTIVE" /\ ~session[s].past
  /\ session' = [session EXCEPT ![s].past = TRUE]
  /\ UNCHANGED <<business, branches, person, call, removal, spent>>

AccessNext ==
  \/ Register
  \/ \E next \in BusinessStatuses : ChangeStatus(next)
  \/ \E b \in Branches : CreateBranch(b)
  \/ \E actor \in {Owner, Admin}, u \in Staff, b \in Branches, role \in StaffRoles :
       CreateStaff(actor, u, b, role)
  \/ \E u \in Staff : \/ BeginRemoval(u) \/ CommitRemoval(u)
                      \/ \E c \in Calls : BreakDeadlock(c, u)
  \/ \E c \in Calls : \/ \E u \in People : Login(c, u)
                      \/ BeginSession(c) \/ InsertSession(c) \/ CommitSession(c)
                      \/ Answer(c) \/ Compensate(c)
                      \/ \E s \in Sessions : Refresh(c, s)
                      \/ Rotate(c)
  \/ \E s \in Sessions : Logout(s) \/ SessionPasses(s)

AccessSpec == AccessInit /\ [][AccessNext]_accessVars
-----------------------------------------------------------------------------
\* A waiter never has two active sessions, however many devices log in at once
\* (createBusinessSession, payguard_enforce_waiter_single_session).
OneWaiterSession == \A u \in Staff : IsWaiter(u) => Cardinality(ActiveSessions(u)) <= 1

\* A refresh token is accepted once, whichever calls present it together (rotateRefreshToken).
TokensAreSingleUse ==
  [][\A c \in Calls : call[c].step = "found" /\ call'[c].step = "rotated" =>
       <<call[c].session, call[c].token>> \notin spent]_accessVars

\* A session begins while the context it was given for is in force: neither a removal nor a
\* suspension commits under an open login (assertActiveContext).
SessionsStartInForce ==
  [][\A s \in Sessions : session[s].status = "none" /\ session'[s].status = "ACTIVE" =>
       InForce(session'[s].who)]_accessVars

\* A branch that had a manager keeps one, although managers are removed concurrently (remove).
BranchKeepsManager ==
  [][\A b \in Branches : Managers(b) # {} => Managers(b)' # {}]_accessVars

\* A removed assignment has no active session left, whatever logs in meanwhile: the session's
\* foreign key makes the two transactions meet (remove, createBusinessSession).
RemovalEndsSessions == \A u \in Staff : person[u].status = "REMOVED" => ActiveSessions(u) = {}
=============================================================================
