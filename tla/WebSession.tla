----------------------------- MODULE WebSession -----------------------------
(***************************************************************************)
(* The session of a browser, which the web client keeps in three cookies:  *)
(* an access token, a refresh token and a role that chooses the portal.    *)
(* Every tab calls the client's own endpoints, which call the backend with *)
(* the cookies of the moment the call was made and change the cookies with *)
(* their answer; answers arrive in any order, or not at all.               *)
(***************************************************************************)
EXTENDS Naturals, FiniteSets

CONSTANTS
  Tabs,          \* tabs of the browser, one call each at a time
  Users,         \* who may sign in
  Missing,       \* no cookie
  MaxSignIns,    \* bound: sessions that are created
  MaxRefreshes   \* bound: rotations of a session's token

ASSUME MissingApart == Missing \notin Users
ASSUME WebBounds == MaxSignIns \in Nat /\ MaxRefreshes \in Nat

VARIABLES
  grant,   \* the backend's sessions
  jar,     \* the browser's cookies
  tab      \* the call a tab makes

webVars == <<grant, jar, tab>>

Grants  == 1..MaxSignIns
NoGrant == [who |-> Missing, live |-> FALSE, token |-> 0]
NoToken == [grant |-> 0, token |-> 0]
Quiet   == [step |-> "quiet", sent |-> NoToken, got |-> NoToken]
Empty   == [access |-> 0, refresh |-> NoToken, role |-> Missing]

WebInit ==
  /\ grant = [g \in Grants |-> NoGrant]
  /\ jar   = Empty
  /\ tab   = [t \in Tabs |-> Quiet]

\* The backend accepts the access token while its session is active.
Accepted(g) == g # 0 /\ grant[g].live

\* The middleware shows a portal to a browser whose role cookie names it.
Admits(portal) == jar.role = portal

Step(t, call) == tab' = [tab EXCEPT ![t] = call]
-----------------------------------------------------------------------------
(* Signing in: session/login.                                              *)

SignIn(t, u) ==
  /\ tab[t].step = "quiet"
  /\ \E g \in Grants :
     /\ grant[g] = NoGrant /\ \A h \in 1..(g - 1) : grant[h] # NoGrant
     /\ grant' = [grant EXCEPT ![g] = [who |-> u, live |-> TRUE, token |-> 0]]
     /\ Step(t, [Quiet EXCEPT !.step = "signingIn", !.got = [grant |-> g, token |-> 0]])
  /\ UNCHANGED jar

SignedIn(t) ==
  /\ tab[t].step = "signingIn"
  /\ jar' = [access  |-> tab[t].got.grant, refresh |-> tab[t].got,
             role    |-> grant[tab[t].got.grant].who]
  /\ Step(t, Quiet) /\ UNCHANGED grant
-----------------------------------------------------------------------------
(* getSession: session/me, and on a 401 session/refresh.                   *)

Denied(t) ==
  /\ tab[t].step = "quiet" /\ ~Accepted(jar.access)
  /\ Step(t, [Quiet EXCEPT !.step = "denied"])
  /\ UNCHANGED <<grant, jar>>

\* Without a cookie the call ends; otherwise it is made with the token the browser holds now.
AskRefresh(t) ==
  /\ tab[t].step = "denied"
  /\ Step(t, IF jar.refresh = NoToken THEN Quiet
             ELSE [Quiet EXCEPT !.step = "refreshing", !.sent = jar.refresh])
  /\ UNCHANGED <<grant, jar>>

\* auth/refresh rotates the session's current token and refuses any other.
Current(token) == grant[token.grant].live /\ grant[token.grant].token = token.token

BackendRefreshes(t) ==
  LET sent == tab[t].sent IN
  /\ tab[t].step = "refreshing"
  /\ IF Current(sent)
     THEN /\ sent.token < MaxRefreshes
          /\ grant' = [grant EXCEPT ![sent.grant].token = @ + 1]
          /\ Step(t, [tab[t] EXCEPT !.step = "refreshed",
                                    !.got = [sent EXCEPT !.token = @ + 1]])
     ELSE Step(t, [tab[t] EXCEPT !.step = "refused"]) /\ UNCHANGED grant
  /\ UNCHANGED jar

\* Two of the three cookies are set.
Refreshed(t) ==
  /\ tab[t].step = "refreshed"
  /\ jar' = [jar EXCEPT !.access = tab[t].got.grant, !.refresh = tab[t].got]
  /\ Step(t, Quiet) /\ UNCHANGED grant

\* Mutant: the role is left to expire.
TokensCleared(cookies) == [cookies EXCEPT !.access = 0, !.refresh = NoToken]

\* The cookies are deleted, whichever tokens they hold by now.
CookiesCleared(cookies) == Empty

Refused(t) ==
  /\ tab[t].step = "refused"
  /\ jar' = CookiesCleared(jar)
  /\ Step(t, Quiet) /\ UNCHANGED grant
-----------------------------------------------------------------------------
(* Signing out: session/logout.                                            *)

AskSignOut(t) ==
  /\ tab[t].step = "quiet" /\ jar.refresh # NoToken
  /\ Step(t, [Quiet EXCEPT !.step = "signingOut", !.sent = jar.refresh])
  /\ UNCHANGED <<grant, jar>>

\* auth/logout revokes the session of a current token and answers alike otherwise; that the
\* backend could not be asked is ignored.
BackendSignsOut(t) ==
  LET sent == tab[t].sent IN
  /\ tab[t].step = "signingOut"
  /\ \/ grant' = IF Current(sent) THEN [grant EXCEPT ![sent.grant].live = FALSE] ELSE grant
     \/ UNCHANGED grant
  /\ Step(t, [tab[t] EXCEPT !.step = "leaving"])
  /\ UNCHANGED jar

SignedOut(t) ==
  /\ tab[t].step = "leaving"
  /\ jar' = Empty
  /\ Step(t, Quiet) /\ UNCHANGED grant
-----------------------------------------------------------------------------
\* An answer of the web client is lost: no cookie changes.
AnswerLost(t) ==
  /\ tab[t].step \in {"signingIn", "refreshed", "refused", "leaving"}
  /\ Step(t, Quiet) /\ UNCHANGED <<grant, jar>>

\* Cookies expire.  The role's life starts at sign-in and the refresh token's starts again with
\* each refresh, so the role is gone first.
AccessExpires  == jar.access # 0 /\ jar' = [jar EXCEPT !.access = 0]
                  /\ UNCHANGED <<grant, tab>>
RoleExpires    == jar.role # Missing /\ jar' = [jar EXCEPT !.role = Missing]
                  /\ UNCHANGED <<grant, tab>>
RefreshExpires == /\ jar.role = Missing /\ jar.refresh # NoToken
                  /\ jar' = [jar EXCEPT !.refresh = NoToken]
                  /\ UNCHANGED <<grant, tab>>

\* The backend ends a session: a removal, a suspension, its expiry.
GrantEnds(g) ==
  /\ grant[g].live
  /\ grant' = [grant EXCEPT ![g].live = FALSE]
  /\ UNCHANGED <<jar, tab>>

WebNext ==
  \/ \E t \in Tabs : \/ \E u \in Users : SignIn(t, u)
                     \/ SignedIn(t)
                     \/ Denied(t) \/ AskRefresh(t) \/ BackendRefreshes(t)
                     \/ Refreshed(t) \/ Refused(t)
                     \/ AskSignOut(t) \/ BackendSignsOut(t) \/ SignedOut(t)
                     \/ AnswerLost(t)
  \/ AccessExpires \/ RoleExpires \/ RefreshExpires
  \/ \E g \in Grants : GrantEnds(g)

WebSpec == WebInit /\ [][WebNext]_webVars
-----------------------------------------------------------------------------
\* The middleware lets a browser into a portal by its role cookie alone: then it also holds a
\* refresh token, so that its first 401 is not a dead end, however the answers of its tabs and
\* the ends of the cookies' lives interleave (middleware, session/login, session/refresh).
PortalHasToken == (\E portal \in Users : Admits(portal)) => jar.refresh # NoToken
=============================================================================
