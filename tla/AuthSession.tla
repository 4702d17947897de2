------------------------------ MODULE AuthSession ------------------------------
(***************************************************************************)
(* One login of one browser: the row of rag.auth_sessions whose refresh    *)
(* token is replaced at every use (app/service/auth.py), the cookie that   *)
(* holds the token, and the tabs that share the cookie, take turns by a    *)
(* Web Lock where the browser has Web Locks, and tell one another the      *)
(* access token they were given (frontend/src/api.ts).                     *)
(*                                                                         *)
(* Refresh tokens are numbered; 0 is no token.  An access token is as good *)
(* as its session, until it expires.  A tab that asks for a refresh goes   *)
(* through the places of Tab.at; the request, its handling by the server   *)
(* and the arrival of the answer are separate steps.                       *)
(***************************************************************************)
EXTENDS Naturals, Sequences

CONSTANTS
  Tabs,         \* tabs of the browser
  NoTab,        \* the Web Lock is free
  MaxRenewals,  \* bound of the model: access tokens expire until this refresh token
  MaxFaults     \* bound of the model: lost messages, reloads, logouts, revocations

ASSUME AuthAssumption ==
  NoTab \notin Tabs /\ MaxRenewals \in Nat \ {0} /\ MaxFaults \in Nat

VARIABLES
  session,  \* [token, revoked]: the row; revoked says by what
  cookie,   \* rag_refresh
  webLocks, \* the browser has navigator.locks
  lock,     \* who holds rag-auth-refresh
  tab,      \* [Tabs -> Tab]
  mail,     \* [Tabs -> Seq]: messages of the channel rag-auth not yet delivered
  stray,    \* tokens of requests whose tab no longer waits for the answer
  lost,     \* history: a tab lost the answer to a refresh
  faults    \* lost messages, reloads and logouts so far

authVars == <<session, cookie, webLocks, lock, tab, mail, stray, lost, faults>>

Tokens == Nat
\* access: the access token in memory; carries: the refresh token of the
\* request, or of its answer; at: where refresh() is, or what it returned.
Tab == [access : {"none", "valid", "out"},
        at : {"idle", "queued", "sent", "granted", "denied", "ok", "refused", "broken"},
        carries : Tokens]

AuthTypeOK ==
  /\ session \in [token : Tokens, revoked : {"no", "logout", "replayed"}]
  /\ cookie \in Tokens /\ webLocks \in BOOLEAN /\ lock \in Tabs \cup {NoTab}
  /\ tab \in [Tabs -> Tab] /\ mail \in [Tabs -> Seq({"token", "out"})]
  /\ stray \subseteq Tokens /\ lost \in BOOLEAN /\ faults \in Nat

\* _issue_session, after login or registration in one of the tabs.
AuthInit ==
  /\ session = [token |-> 1, revoked |-> "no"] /\ cookie = 1
  /\ webLocks \in BOOLEAN /\ lock = NoTab
  /\ tab \in [Tabs -> {[access |-> a, at |-> "idle", carries |-> 0] : a \in {"none", "valid"}}]
  /\ mail = [t \in Tabs |-> <<>>] /\ stray = {} /\ lost = FALSE /\ faults = 0

\* authenticate: the token is not expired and its session not revoked.
Authenticated(t) == tab[t].access = "valid" /\ session.revoked = "no"

Told(t, message) == [u \in Tabs |-> IF u = t THEN mail[u] ELSE Append(mail[u], message)]
Free(t) == IF lock = t THEN NoTab ELSE lock

\* Access tokens live for minutes: none expires while its tab refreshes.
Expire(t) ==
  /\ tab[t].access = "valid" /\ tab[t].at = "idle" /\ session.token < MaxRenewals
  /\ tab' = [tab EXCEPT ![t].access = "none"]
  /\ UNCHANGED <<session, cookie, webLocks, lock, mail, stray, lost, faults>>

\* The tab starts, or one of its requests was answered 401.
Want(t) ==
  /\ tab[t].at = "idle"
  /\ tab' = [tab EXCEPT ![t].at = "queued"]
  /\ UNCHANGED <<session, cookie, webLocks, lock, mail, stray, lost, faults>>

Turn_Bug(t) == TRUE   \* the request does not wait for the lock

\* Without Web Locks a tab does not wait for the others.
Turn(t) == webLocks => lock = NoTab

\* job: a tab that was told a token meanwhile does not ask for another.
Acquire(t) ==
  /\ tab[t].at = "queued" /\ Turn(t)
  /\ IF tab[t].access = "valid"
     THEN tab' = [tab EXCEPT ![t].at = "ok"] /\ UNCHANGED lock
     ELSE tab' = [tab EXCEPT ![t].at = "sent", ![t].carries = cookie]
          /\ lock' = IF webLocks THEN t ELSE lock
  /\ UNCHANGED <<session, cookie, webLocks, mail, stray, lost, faults>>

Accepted(token) == session.revoked = "no" /\ token = session.token

\* refresh: the current token is replaced, any other revokes the session.
Rotated(token) ==
  IF token = 0 \/ session.revoked # "no" THEN session
  ELSE IF token # session.token THEN [session EXCEPT !.revoked = "replayed"]
  ELSE [session EXCEPT !.token = token + 1]

Serve(t) ==
  /\ tab[t].at = "sent"
  /\ session' = Rotated(tab[t].carries)
  /\ tab' = IF Accepted(tab[t].carries)
            THEN [tab EXCEPT ![t].at = "granted", ![t].carries = session.token + 1]
            ELSE [tab EXCEPT ![t].at = "denied", ![t].carries = 0]
  /\ UNCHANGED <<cookie, webLocks, lock, mail, stray, lost, faults>>

\* A request reaches the server although nobody waits for it any more.
ServeStray(token) ==
  /\ token \in stray
  /\ session' = Rotated(token) /\ stray' = stray \ {token}
  /\ UNCHANGED <<cookie, webLocks, lock, tab, mail, lost, faults>>

\* The answer arrives: set_refresh_cookie, setToken and the message to the
\* other tabs; a refusal only clears the tab's own token.
Arrive(t) ==
  /\ \/ /\ tab[t].at = "granted"
        /\ cookie' = tab[t].carries /\ mail' = Told(t, "token")
        /\ tab' = [tab EXCEPT ![t] = [access |-> "valid", at |-> "ok", carries |-> 0]]
     \/ /\ tab[t].at = "denied"
        /\ tab' = [tab EXCEPT ![t] = [access |-> "out", at |-> "refused", carries |-> 0]]
        /\ UNCHANGED <<cookie, mail>>
  /\ lock' = Free(t)
  /\ UNCHANGED <<session, webLocks, stray, lost, faults>>

\* A refresh is under way: the tab has sent the request and has no answer.
Renewing(t) == tab[t].at \in {"sent", "granted", "denied"}

Abandoned(t) == IF tab[t].at = "sent" THEN stray \cup {tab[t].carries} ELSE stray

\* The connection fails; the request may still get through, its answer not.
LoseAnswer(t) ==
  /\ Renewing(t) /\ faults < MaxFaults
  /\ stray' = Abandoned(t) /\ lost' = TRUE
  /\ tab' = [tab EXCEPT ![t] = [access |-> "none", at |-> "broken", carries |-> 0]]
  /\ lock' = Free(t) /\ faults' = faults + 1
  /\ UNCHANGED <<session, cookie, webLocks, mail>>

\* A reload ends the tab's requests, its lock and what it knows.
ReloadTab(t) ==
  /\ faults < MaxFaults /\ stray' = Abandoned(t) /\ lost' = (lost \/ Renewing(t))
  /\ tab' = [tab EXCEPT ![t] = [access |-> "none", at |-> "idle", carries |-> 0]]
  /\ mail' = [mail EXCEPT ![t] = <<>>] /\ lock' = Free(t) /\ faults' = faults + 1
  /\ UNCHANGED <<session, cookie, webLocks>>

Deliver(t) ==
  /\ mail[t] # <<>>
  /\ mail' = [mail EXCEPT ![t] = Tail(@)]
  /\ tab' = [tab EXCEPT ![t].access = IF Head(mail[t]) = "token" THEN "valid" ELSE "out"]
  /\ UNCHANGED <<session, cookie, webLocks, lock, stray, lost, faults>>

\* What refresh() returned has been taken note of.
Settle(t) ==
  /\ tab[t].at \in {"ok", "refused", "broken"}
  /\ tab' = [tab EXCEPT ![t].at = "idle"]
  /\ UNCHANGED <<session, cookie, webLocks, lock, mail, stray, lost, faults>>

\* logout in a tab, and logout_all from another device.
LogOut(t) ==
  /\ Authenticated(t) /\ tab[t].at = "idle" /\ faults < MaxFaults
  /\ session' = [session EXCEPT !.revoked = "logout"] /\ cookie' = 0
  /\ tab' = [tab EXCEPT ![t].access = "out"] /\ mail' = Told(t, "out")
  /\ faults' = faults + 1
  /\ UNCHANGED <<webLocks, lock, stray, lost>>

LogOutAll ==
  /\ session.revoked = "no" /\ faults < MaxFaults
  /\ session' = [session EXCEPT !.revoked = "logout"] /\ faults' = faults + 1
  /\ UNCHANGED <<cookie, webLocks, lock, tab, mail, stray, lost>>

\* The steps that go on by themselves.
AuthStep ==
  \/ \E t \in Tabs : Acquire(t) \/ Serve(t) \/ Arrive(t) \/ Deliver(t)
  \/ \E token \in stray : ServeStray(token)

-----------------------------------------------------------------------------
\* The server takes a repeated token for a theft and revokes the login
\* (auth.py:169).  The tabs of a browser with Web Locks never cause that by
\* expiries, logouts and refreshes in any order: one of them must have lost the
\* answer to a refresh, by the connection or by its own reload (api.ts:41).  In
\* a browser without Web Locks two tabs that refresh together are enough.
ReplayNeedsLoss == session.revoked = "replayed" => lost \/ ~webLocks
=============================================================================
