---------------------------- MODULE RunStreamProofs ----------------------------
(***************************************************************************)
(* Proofs about RunStream and AuthSession, for any number of tabs, events, *)
(* reconnections and faults and any size of a batch: the reader sees every *)
(* event once and in order, and the tabs of a browser with Web Locks do    *)
(* not look like a thief to the server unless an answer was lost.          *)
(***************************************************************************)
EXTENDS RunStream, SequenceTheorems, TLAPS

-----------------------------------------------------------------------------
(* The login.                                                              *)

\* While the login lasts, only the holder of the lock renews, the request
\* carries the current token, and the cookie has it whenever nobody renews.
InStep ==
  /\ \A t \in Tabs : Renewing(t) => lock = t
  /\ \A t \in Tabs : tab[t].at = "sent" => tab[t].carries = session.token
  /\ \A t \in Tabs : tab[t].at = "granted" => tab[t].carries = session.token
  /\ \A t \in Tabs : tab[t].at # "denied"
  /\ (\A t \in Tabs : tab[t].at # "granted") => cookie = session.token

\* What tabs that take turns and lose no answer rely on: the login goes on in
\* step with them, or was ended by a logout.
Undisturbed ==
  /\ session.revoked # "replayed" /\ stray = {}
  /\ session.revoked = "no" => InStep

AuthInv ==
  /\ AuthTypeOK /\ session.token # 0
  /\ webLocks /\ ~lost => Undisturbed

\* A request with the current token is accepted, any other one leaves a token
\* that is not none.
LEMMA Rotations ==
  ASSUME AuthTypeOK, session.token # 0, NEW token \in Tokens
  PROVE  /\ Rotated(token) \in [token : Tokens, revoked : {"no", "logout", "replayed"}]
         /\ Rotated(token).token # 0
         /\ Accepted(token) => Rotated(token) = [session EXCEPT !.token = token + 1]
  BY DEF AuthTypeOK, Rotated, Accepted, Tokens

LEMMA AuthInitially == AuthInit => AuthInv
<1> SUFFICES ASSUME AuthInit PROVE AuthInv
  OBVIOUS
<1>1. tab \in [Tabs -> Tab] /\ \A t \in Tabs : tab[t].at = "idle"
  BY DEF AuthInit, Tab, Tokens
<1>2. <<>> \in Seq({"token", "out"}) /\ mail \in [Tabs -> Seq({"token", "out"})]
  BY DEF AuthInit
<1>3. AuthTypeOK
  BY <1>1, <1>2 DEF AuthInit, AuthTypeOK, Tokens
<1> QED
  BY <1>1, <1>3 DEF AuthInit, AuthInv, Undisturbed, InStep, Renewing

\* What is told to the others, the lock and the strays stay of their types.
LEMMA Typing ==
  ASSUME AuthTypeOK, NEW t \in Tabs
  PROVE  /\ Free(t) \in Tabs \cup {NoTab}
         /\ Abandoned(t) \subseteq Tokens
         /\ \A message \in {"token", "out"} : Told(t, message) \in [Tabs -> Seq({"token", "out"})]
<1>1. Free(t) \in Tabs \cup {NoTab}
  BY DEF AuthTypeOK, Free
<1>2. tab[t].carries \in Tokens
  BY DEF AuthTypeOK, Tab
<1>3. Abandoned(t) \subseteq Tokens
  BY <1>2 DEF AuthTypeOK, Abandoned
<1>4. ASSUME NEW message \in {"token", "out"}, NEW u \in Tabs
      PROVE  Append(mail[u], message) \in Seq({"token", "out"}) /\ mail[u] \in Seq({"token", "out"})
  BY <1>4 DEF AuthTypeOK
<1> QED
  BY <1>1, <1>3, <1>4 DEF Told

\* A tab asks, waits for its turn, sends, and takes note of what came back.
LEMMA TabSteps ==
  ASSUME AuthInv, NEW t \in Tabs,
         Expire(t) \/ Want(t) \/ Acquire(t) \/ Settle(t) \/ Deliver(t)
  PROVE  AuthInv'
<1>1. CASE Expire(t)
  <2> DEFINE out == [tab[t] EXCEPT !.access = "none"]
  <2>1. out \in Tab /\ out.at = tab[t].at /\ out.carries = tab[t].carries
    BY DEF AuthInv, AuthTypeOK, Tab
  <2>2. tab' = [tab EXCEPT ![t] = out] /\ UNCHANGED <<session, cookie, webLocks, lock, mail, stray, lost, faults>>
    BY <1>1 DEF Expire
  <2> HIDE DEF out
  <2> QED
    BY <2>1, <2>2 DEF AuthInv, AuthTypeOK, Undisturbed, InStep, Renewing
<1>2. CASE Want(t)
  <2> DEFINE queued == [tab[t] EXCEPT !.at = "queued"]
  <2>1. queued \in Tab /\ queued.at = "queued" /\ tab[t].at = "idle"
    BY <1>2 DEF AuthInv, AuthTypeOK, Tab, Want
  <2>2. tab' = [tab EXCEPT ![t] = queued] /\ UNCHANGED <<session, cookie, webLocks, lock, mail, stray, lost, faults>>
    BY <1>2 DEF Want
  <2> HIDE DEF queued
  <2> QED
    BY <2>1, <2>2 DEF AuthInv, AuthTypeOK, Undisturbed, InStep, Renewing
<1>3. CASE Acquire(t)
  <2>1. CASE tab[t].access = "valid"
    <3> DEFINE ok == [tab[t] EXCEPT !.at = "ok"]
    <3>1. ok \in Tab /\ ok.at = "ok" /\ tab' = [tab EXCEPT ![t] = ok] /\ tab[t].at = "queued"
      BY <1>3, <2>1 DEF AuthInv, AuthTypeOK, Tab, Acquire
    <3>2. UNCHANGED <<session, cookie, webLocks, lock, mail, stray, lost, faults>>
      BY <1>3, <2>1 DEF Acquire
    <3> HIDE DEF ok
    <3> QED
      BY <3>1, <3>2 DEF AuthInv, AuthTypeOK, Undisturbed, InStep, Renewing
  <2>2. CASE tab[t].access # "valid"
    <3> DEFINE asking == [tab[t] EXCEPT !.at = "sent", !.carries = cookie]
    <3>1. /\ asking \in Tab /\ asking.at = "sent" /\ asking.carries = cookie
          /\ tab' = [tab EXCEPT ![t] = asking] /\ lock' \in {t, lock}
          /\ webLocks => lock' = t /\ lock = NoTab
          /\ UNCHANGED <<session, cookie, webLocks, mail, stray, lost, faults>>
      BY <1>3, <2>2 DEF AuthInv, AuthTypeOK, Tab, Acquire, Turn
    <3>2. AuthTypeOK' /\ session'.token # 0
      BY <3>1 DEF AuthInv, AuthTypeOK
    <3>3. ASSUME webLocks, ~lost PROVE Undisturbed'
      <4>1. CASE session.revoked = "no"
        <5>1. \A u \in Tabs : ~Renewing(u)
          BY <3>1, <3>3, <4>1, AuthAssumption DEF AuthInv, Undisturbed, InStep
        <5>2. cookie = session.token
          BY <3>3, <4>1, <5>1 DEF AuthInv, Undisturbed, InStep, Renewing
        <5> QED
          BY <3>1, <3>3, <5>1, <5>2 DEF AuthInv, AuthTypeOK, Undisturbed, InStep, Renewing
      <4>2. CASE session.revoked # "no"
        BY <3>1, <3>3, <4>2 DEF AuthInv, Undisturbed
      <4> QED
        BY <4>1, <4>2
    <3> QED
      BY <3>1, <3>2, <3>3 DEF AuthInv
  <2> QED
    BY <2>1, <2>2
<1>4. CASE Settle(t)
  <2> DEFINE idle == [tab[t] EXCEPT !.at = "idle"]
  <2>1. idle \in Tab /\ idle.at = "idle" /\ tab[t].at \in {"ok", "refused", "broken"}
    BY <1>4 DEF AuthInv, AuthTypeOK, Tab, Settle
  <2>2. tab' = [tab EXCEPT ![t] = idle] /\ UNCHANGED <<session, cookie, webLocks, lock, mail, stray, lost, faults>>
    BY <1>4 DEF Settle
  <2> HIDE DEF idle
  <2> QED
    BY <2>1, <2>2 DEF AuthInv, AuthTypeOK, Undisturbed, InStep, Renewing
<1>5. CASE Deliver(t)
  <2> DEFINE access == IF Head(mail[t]) = "token" THEN "valid" ELSE "out"
             told == [tab[t] EXCEPT !.access = access]
  <2>3. tab' = [tab EXCEPT ![t] = told] /\ UNCHANGED <<session, cookie, webLocks, lock, stray, lost, faults>>
    BY <1>5 DEF Deliver
  <2>4. access \in {"valid", "out"} /\ tab[t] \in Tab
    BY DEF AuthInv, AuthTypeOK
  <2> HIDE DEF access
  <2>1. told \in Tab /\ told.at = tab[t].at /\ told.carries = tab[t].carries
    BY <2>4 DEF Tab
  <2>2. mail' \in [Tabs -> Seq({"token", "out"})]
    BY <1>5 DEF AuthInv, AuthTypeOK, Deliver
  <2> HIDE DEF told
  <2> QED
    BY <2>1, <2>2, <2>3 DEF AuthInv, AuthTypeOK, Undisturbed, InStep, Renewing
<1> QED
  BY <1>1, <1>2, <1>3, <1>4, <1>5

\* The server replaces the token, and its answer arrives.
LEMMA ServerSteps ==
  ASSUME AuthInv, NEW t \in Tabs, Serve(t) \/ Arrive(t)
  PROVE  AuthInv'
<1>1. CASE Serve(t)
  <2>1. tab[t] \in Tab /\ tab[t].carries \in Tokens
    BY DEF AuthInv, AuthTypeOK, Tab
  <2>2. CASE Accepted(tab[t].carries)
    <3> DEFINE next == session.token + 1
               granted == [tab[t] EXCEPT !.at = "granted", !.carries = next]
    <3>8. session.token \in Nat /\ tab \in [Tabs -> Tab] /\ next \in Tokens
      BY DEF AuthInv, AuthTypeOK, Tokens
    <3>9. granted \in Tab /\ granted.at = "granted" /\ granted.carries = session.token + 1
      <4>1. next = session.token + 1
        OBVIOUS
      <4> HIDE DEF next
      <4> QED
        BY <2>1, <3>8, <4>1 DEF Tab
    <3>1. /\ granted \in Tab /\ granted.at = "granted" /\ granted.carries = session.token + 1
          /\ tab' = [tab EXCEPT ![t] = granted]
          /\ UNCHANGED <<cookie, webLocks, lock, mail, stray, lost, faults>>
      BY <1>1, <2>2, <3>8, <3>9 DEF Serve
    <3>2. /\ session' = [session EXCEPT !.token = session.token + 1]
          /\ session' \in [token : Tokens, revoked : {"no", "logout", "replayed"}]
          /\ session'.token # 0 /\ session'.token = session.token + 1
          /\ session'.revoked = session.revoked
      BY <1>1, <2>1, <2>2, Rotations DEF AuthInv, AuthTypeOK, Accepted, Tokens, Serve
    <3>3. tab[t].at = "sent"
      BY <1>1 DEF Serve
    <3> HIDE DEF granted
    <3>4. AuthTypeOK'
      BY <3>1, <3>2 DEF AuthInv, AuthTypeOK
    <3>5. ASSUME webLocks, ~lost PROVE Undisturbed'
      <4>1. session.revoked = "no"
        BY <2>2 DEF Accepted
      <4>2. \A u \in Tabs : u # t => ~Renewing(u)
        BY <3>1, <3>3, <3>5, <4>1 DEF AuthInv, Undisturbed, InStep, Renewing
      <4> QED
        BY <3>1, <3>2, <3>3, <3>5, <4>1, <4>2 DEF AuthInv, AuthTypeOK, Undisturbed, InStep, Renewing
    <3> QED
      BY <3>1, <3>2, <3>4, <3>5 DEF AuthInv
  <2>3. CASE ~Accepted(tab[t].carries)
    <3> DEFINE denied == [tab[t] EXCEPT !.at = "denied", !.carries = 0]
    <3>1. /\ denied \in Tab /\ tab' = [tab EXCEPT ![t] = denied]
          /\ UNCHANGED <<cookie, webLocks, lock, mail, stray, lost, faults>>
      BY <1>1, <2>1, <2>3 DEF AuthInv, AuthTypeOK, Tab, Tokens, Serve
    <3>2. /\ session' \in [token : Tokens, revoked : {"no", "logout", "replayed"}]
          /\ session'.token # 0
      BY <1>1, <2>1, Rotations DEF AuthInv, Serve
    <3>3. ASSUME webLocks, ~lost PROVE Undisturbed'
      <4>1. session.revoked # "no" /\ stray = {} /\ session.revoked # "replayed"
        BY <1>1, <2>3, <3>3 DEF AuthInv, Undisturbed, InStep, Accepted, Serve
      <4>2. session' = session
        BY <1>1, <4>1 DEF Rotated, Serve
      <4> QED
        BY <3>1, <4>1, <4>2 DEF Undisturbed
    <3> HIDE DEF denied
    <3> QED
      BY <3>1, <3>2, <3>3 DEF AuthInv, AuthTypeOK
  <2> QED
    BY <2>2, <2>3
<1>2. CASE Arrive(t)
  <2>1. CASE tab[t].at = "granted"
    <3> DEFINE ok == [access |-> "valid", at |-> "ok", carries |-> 0]
    <3>1. /\ ok \in Tab /\ ok.at = "ok" /\ tab' = [tab EXCEPT ![t] = ok]
          /\ cookie' = tab[t].carries /\ cookie' \in Tokens /\ mail' = Told(t, "token")
          /\ lock' = Free(t) /\ UNCHANGED <<session, webLocks, stray, lost, faults>>
      BY <1>2, <2>1 DEF AuthInv, AuthTypeOK, Tab, Tokens, Arrive
    <3> HIDE DEF ok
    <3>2. AuthTypeOK'
      BY <3>1, Typing DEF AuthInv, AuthTypeOK
    <3>3. ASSUME webLocks, ~lost PROVE Undisturbed'
      <4>1. CASE session.revoked = "no"
        <5>1. cookie' = session.token /\ lock = t
          BY <2>1, <3>1, <3>3, <4>1 DEF AuthInv, Undisturbed, InStep, Renewing
        <5>2. \A u \in Tabs : u # t => ~Renewing(u)
          BY <3>3, <4>1, <5>1 DEF AuthInv, Undisturbed, InStep
        <5> QED
          BY <3>1, <3>3, <4>1, <5>1, <5>2 DEF AuthInv, AuthTypeOK, Undisturbed, InStep, Renewing
      <4>2. CASE session.revoked # "no"
        BY <3>1, <3>3, <4>2 DEF AuthInv, Undisturbed
      <4> QED
        BY <4>1, <4>2
    <3> QED
      BY <3>1, <3>2, <3>3 DEF AuthInv
  <2>2. CASE tab[t].at = "denied"
    <3> DEFINE refused == [access |-> "out", at |-> "refused", carries |-> 0]
    <3>1. /\ refused \in Tab /\ tab' = [tab EXCEPT ![t] = refused]
          /\ lock' = Free(t) /\ UNCHANGED <<session, cookie, webLocks, mail, stray, lost, faults>>
      BY <1>2, <2>2 DEF Tab, Tokens, Arrive
    <3>2. ASSUME webLocks, ~lost PROVE Undisturbed'
      BY <2>2, <3>1, <3>2 DEF AuthInv, Undisturbed, InStep
    <3> HIDE DEF refused
    <3> QED
      BY <3>1, <3>2, Typing DEF AuthInv, AuthTypeOK
  <2> QED
    BY <1>2, <2>1, <2>2 DEF Arrive
<1> QED
  BY <1>1, <1>2

\* A tab that loses an answer is remembered, and only then a request is served
\* that nobody waits for; a logout ends the login for good.
LEMMA Disturbances ==
  ASSUME AuthInv,
         \/ \E t \in Tabs : LoseAnswer(t) \/ ReloadTab(t) \/ LogOut(t)
         \/ LogOutAll \/ \E token \in stray : ServeStray(token)
  PROVE  AuthInv'
<1>1. ASSUME NEW t \in Tabs, LoseAnswer(t) \/ ReloadTab(t) PROVE AuthInv'
  <2>0. /\ [access |-> "none", at |-> "idle", carries |-> 0] \in Tab
        /\ [access |-> "none", at |-> "broken", carries |-> 0] \in Tab
    BY DEF Tab, Tokens
  <2>1. PICK x \in Tab : tab' = [tab EXCEPT ![t] = x] /\ x.at \in {"idle", "broken"}
    <3>1. CASE LoseAnswer(t)
      BY <2>0, <3>1 DEF LoseAnswer
    <3>2. CASE ReloadTab(t)
      BY <2>0, <3>2 DEF ReloadTab
    <3> QED
      BY <1>1, <3>1, <3>2
  <2>2. /\ stray' = Abandoned(t) /\ lock' = Free(t) /\ faults' = faults + 1
        /\ lost' = (lost \/ Renewing(t)) /\ UNCHANGED <<session, cookie, webLocks>>
    BY <1>1 DEF AuthInv, AuthTypeOK, LoseAnswer, ReloadTab
  <2>3. <<>> \in Seq({"token", "out"}) /\ mail \in [Tabs -> Seq({"token", "out"})]
    BY DEF AuthInv, AuthTypeOK
  <2>4. mail' \in [Tabs -> Seq({"token", "out"})]
    BY <1>1, <2>3 DEF LoseAnswer, ReloadTab
  <2>5. stray' \subseteq Tokens /\ lock' \in Tabs \cup {NoTab}
    BY <2>2, Typing DEF AuthInv
  <2>6. tab' \in [Tabs -> Tab]
    BY <2>1 DEF AuthInv, AuthTypeOK
  <2>7. AuthTypeOK' /\ session'.token # 0
    BY <2>2, <2>4, <2>5, <2>6 DEF AuthInv, AuthTypeOK
  <2>8. ASSUME webLocks, ~lost' PROVE Undisturbed'
    <3>1. ~Renewing(t) /\ ~lost /\ stray' = stray
      BY <2>2, <2>8 DEF Abandoned, Renewing
    <3>2. ASSUME session.revoked = "no" PROVE InStep'
      <4>1. InStep
        BY <2>8, <3>1, <3>2 DEF AuthInv, Undisturbed
      <4>2. ~Renewing(t)' /\ tab'[t].at \notin {"sent", "granted", "denied"}
        BY <2>1 DEF AuthInv, AuthTypeOK, Renewing
      <4>3. \A u \in Tabs : u # t => tab'[u] = tab[u] /\ (lock = u => lock' = u)
        BY <2>1, <2>2 DEF AuthInv, AuthTypeOK, Free
      <4> QED
        BY <2>2, <3>1, <4>1, <4>2, <4>3 DEF InStep, Renewing
    <3> QED
      BY <2>2, <2>8, <3>1, <3>2 DEF AuthInv, Undisturbed
  <2> QED
    BY <2>2, <2>7, <2>8 DEF AuthInv
<1>2. ASSUME NEW t \in Tabs, LogOut(t) PROVE AuthInv'
  <2> DEFINE out == [tab[t] EXCEPT !.access = "out"]
  <2>1. out \in Tab /\ tab' = [tab EXCEPT ![t] = out]
    BY <1>2 DEF AuthInv, AuthTypeOK, Tab, LogOut
  <2>2. /\ session' \in [token : Tokens, revoked : {"no", "logout", "replayed"}]
        /\ session'.token = session.token /\ faults' = faults + 1
        /\ cookie' = 0 /\ mail' = Told(t, "out") /\ UNCHANGED <<webLocks, lock, stray, lost>>
        /\ session'.revoked = "logout"
    BY <1>2 DEF AuthInv, AuthTypeOK, LogOut
  <2> HIDE DEF out
  <2>3. AuthTypeOK' /\ session'.token # 0
    BY <2>1, <2>2, Typing DEF AuthInv, AuthTypeOK, Tokens
  <2> QED
    BY <2>2, <2>3 DEF AuthInv, Undisturbed
<1>3. CASE LogOutAll
  BY <1>3 DEF AuthInv, AuthTypeOK, Undisturbed, LogOutAll
<1>4. ASSUME NEW token \in stray, ServeStray(token) PROVE AuthInv'
  <2>1. token \in Tokens /\ (webLocks => lost)
    BY <1>4 DEF AuthInv, AuthTypeOK, Undisturbed
  <2>2. /\ session' \in [token : Tokens, revoked : {"no", "logout", "replayed"}]
        /\ session'.token # 0
    BY <1>4, <2>1, Rotations DEF AuthInv, ServeStray
  <2> QED
    BY <1>4, <2>1, <2>2 DEF AuthInv, AuthTypeOK, ServeStray
<1> QED
  BY <1>1, <1>2, <1>3, <1>4

\* What no step of the login changes.
LEMMA AuthUnchanged == AuthInv /\ UNCHANGED authVars => AuthInv'
  BY DEF AuthInv, AuthTypeOK, Undisturbed, InStep, Renewing, authVars

LEMMA AuthSteps == AuthInv /\ AuthStep => AuthInv'
  BY TabSteps, ServerSteps, Disturbances DEF AuthStep

-----------------------------------------------------------------------------
(* The journal, the stream and its reader.                                 *)

Conns ==
  [at : {"none", "opened", "looping", "resting", "rereading", "closed", "broken"},
   cursor : Nat, upto : Nat, last : Nat, state : {"active", "waiting", "ended"}, signal : BOOLEAN]
Readers ==
  [at : {"connect", "refresh", "again", "reading", "ended", "gaveUp"},
   for : {"state", "stream"}, cursor : Nat, attempt : 0..MaxAttempts,
   outcome : {"none", "asked"} \cup Endings]
Row == [n : Nat, current : BOOLEAN]

JournalTyped == journal \in Seq(Events) /\ run \in {"active", "waiting", "ended"} /\ outbox \in BOOLEAN
ConnTyped == conn \in Conns /\ listening \in BOOLEAN /\ member \in BOOLEAN /\ pipe \in Seq(Row)

\* The stream has returned rows of the journal only, and what is in the pipe
\* lies between what the tab has shown and what the stream has sent.
Following ==
  /\ reader.cursor <= Logged
  /\ conn.cursor <= conn.upto /\ conn.upto <= Logged
  /\ reader.at = "reading" =>
       /\ \A i \in DOMAIN pipe : pipe[i].n = reader.cursor + i
       /\ conn.cursor = reader.cursor + Len(pipe)

StreamInv == JournalTyped /\ ConnTyped /\ reader \in Readers /\ Following

IInv == AuthInv /\ StreamInv

\* Min of two numbers.
LEMMA MinOfTwo ==
  ASSUME NEW a \in Nat, NEW b \in Nat
  PROVE  Min({a, b}) \in {a, b} /\ Min({a, b}) <= a /\ Min({a, b}) <= b
<1>1. \E x \in {a, b} : \A y \in {a, b} : x <= y
  <2>1. CASE a <= b
    BY <2>1
  <2>2. CASE b <= a
    BY <2>2
  <2> QED
    BY <2>1, <2>2
<1>2. Min({a, b}) \in {a, b} /\ \A y \in {a, b} : Min({a, b}) <= y
  BY <1>1 DEF Min
<1> QED
  BY <1>2

\* The ends of the reader: it gives up, or connects again from where it was.
LEMMA Retries ==
  ASSUME reader \in Readers
  PROVE  /\ GaveUp \in Readers /\ GaveUp.cursor = reader.cursor /\ GaveUp.at = "gaveUp"
         /\ Retried \in Readers /\ Retried.cursor = reader.cursor /\ Retried.at # "reading"
<1>1. GaveUp \in Readers /\ GaveUp.cursor = reader.cursor /\ GaveUp.at = "gaveUp"
  BY DEF Readers, GaveUp
<1>2. CASE reader.for = "state" \/ reader.attempt >= MaxAttempts
  BY <1>1, <1>2 DEF Retried
<1>3. CASE ~(reader.for = "state" \/ reader.attempt >= MaxAttempts)
  <2> DEFINE next == reader.attempt + 1
             again == [reader EXCEPT !.at = "connect", !.attempt = next]
  <2>1. next \in 0..MaxAttempts
    BY <1>3, StreamAssumption DEF Readers
  <2>2. Retried = again
    BY <1>3 DEF Retried
  <2> HIDE DEF next
  <2>3. again \in Readers /\ again.cursor = reader.cursor /\ again.at = "connect"
    BY <2>1 DEF Readers
  <2> QED
    BY <1>1, <2>2, <2>3
<1> QED
  BY <1>2, <1>3

\* The readers that start anew, by looking at the Run.
LEMMA NewReaders ==
  /\ NewReader \in Readers /\ NewReader.cursor = 0 /\ NewReader.at = "connect"
  /\ \A r \in Readers : [r EXCEPT !.for = "state"] \in Readers
  /\ \A r \in Readers, c \in Nat : [r EXCEPT !.for = "state", !.cursor = c] \in Readers
<1>1. NewReader \in Readers /\ NewReader.cursor = 0 /\ NewReader.at = "connect"
  BY StreamAssumption DEF Readers, NewReader
<1>2. /\ \A r \in Readers : [r EXCEPT !.for = "state"] \in Readers
      /\ \A r \in Readers, c \in Nat : [r EXCEPT !.for = "state", !.cursor = c] \in Readers
  BY DEF Readers
<1> QED
  BY <1>1, <1>2

LEMMA StreamInitially == Init => IInv
<1> SUFFICES ASSUME Init PROVE IInv
  OBVIOUS
<1>1. AuthInv
  BY AuthInitially DEF Init
<1>2. JournalTyped /\ Logged = 1
  BY DEF Init, JournalTyped, Events, Logged
<1>3. ConnTyped
  BY DEF Init, ConnTyped, NoConn, Conns
<1>4. reader \in Readers /\ reader.cursor = 0 /\ reader.at = "connect"
  BY StreamAssumption DEF Init, NewReader, Readers
<1>5. conn.cursor = 0 /\ conn.upto = 0
  BY DEF Init, NoConn
<1> QED
  BY <1>1, <1>2, <1>3, <1>4, <1>5 DEF IInv, StreamInv, Following

\* The journal only grows.
LEMMA Logs ==
  ASSUME JournalTyped, NEW events \in Seq(Events), NEW state \in {"active", "waiting", "ended"},
         Log(events, state)
  PROVE  JournalTyped' /\ Logged' >= Logged /\ Logged \in Nat /\ Logged' \in Nat
  BY DEF JournalTyped, Log, Logged

\* A longer journal disturbs nobody.
LEMMA JournalGrows ==
  ASSUME StreamInv, JournalTyped', Logged' >= Logged, Logged \in Nat, Logged' \in Nat,
         UNCHANGED <<listening, conn, pipe, reader, member>>
  PROVE  StreamInv'
<1>1. conn.upto \in Nat /\ reader.cursor \in Nat
  BY DEF StreamInv, ConnTyped, Conns, Readers
<1> QED
  BY <1>1 DEF StreamInv, ConnTyped, Following

LEMMA RunSteps ==
  ASSUME StreamInv, Work \/ Ask \/ End
  PROVE  StreamInv'
<1>1. PICK events \in Seq(Events), state \in {"active", "waiting", "ended"} : Log(events, state)
  <2>1. CASE Work
    <3>1. <<"progress">> \in Seq(Events)
      BY DEF Events
    <3> QED
      BY <2>1, <3>1 DEF Work
  <2>2. CASE Ask
    <3>1. <<"asked">> \in Seq(Events)
      BY DEF Events
    <3> QED
      BY <2>2, <3>1 DEF Ask
  <2>3. CASE End
    <3>1. <<"progress", "done">> \in Seq(Events) /\ <<"error">> \in Seq(Events)
      BY DEF Events, Endings
    <3> QED
      BY <2>3, <3>1 DEF End
  <2> QED
    BY <2>1, <2>2, <2>3
<1>2. UNCHANGED <<listening, conn, pipe, reader, member>>
  BY DEF Work, Ask, End
<1> QED
  BY <1>1, <1>2, Logs, JournalGrows DEF StreamInv

\* Dispatch and the LISTEN connection touch no rows.
LEMMA NotifySteps ==
  ASSUME StreamInv, Dispatch \/ Deafen \/ Listen \/ Dismiss
  PROVE  StreamInv'
<1>1. CASE Dispatch
  <2> DEFINE signalled == [conn EXCEPT !.signal = TRUE]
  <2>1. signalled \in Conns /\ signalled.cursor = conn.cursor /\ signalled.upto = conn.upto
    BY DEF StreamInv, ConnTyped, Conns
  <2>2. conn' \in {conn, signalled} /\ outbox' = FALSE
        /\ UNCHANGED <<journal, run, listening, pipe, reader, member>>
    BY <1>1 DEF Dispatch
  <2> HIDE DEF signalled
  <2> QED
    BY <2>1, <2>2 DEF StreamInv, JournalTyped, ConnTyped, Following, Logged
<1>2. CASE Deafen \/ Listen \/ Dismiss
  BY <1>2 DEF Deafen, Listen, Dismiss, StreamInv, JournalTyped, ConnTyped, Following, Logged
<1> QED
  BY <1>1, <1>2

\* What a read returns goes on from the cursor and not beyond the journal.
LEMMA Reads ==
  ASSUME JournalTyped, NEW at \in {"opened", "looping"}, NEW cursor \in Nat, cursor <= Logged,
         NEW signal \in BOOLEAN
  PROVE  /\ Read(at, cursor, signal) \in Conns
         /\ Read(at, cursor, signal).cursor = cursor
         /\ cursor <= Read(at, cursor, signal).upto /\ Read(at, cursor, signal).upto <= Logged
<1>1. Logged \in Nat /\ cursor + Batch \in Nat /\ cursor <= cursor + Batch
  BY StreamAssumption DEF JournalTyped, Logged
<1> DEFINE upto == Min({cursor + Batch, Logged})
<1>2. upto \in Nat /\ cursor <= upto /\ upto <= Logged
  BY <1>1, MinOfTwo
<1>3. /\ Read(at, cursor, signal).upto = upto /\ Read(at, cursor, signal).cursor = cursor
      /\ Read(at, cursor, signal) = [at |-> at, cursor |-> cursor, upto |-> upto, last |-> Logged,
                                     state |-> run, signal |-> signal]
  BY DEF Read
<1> HIDE DEF upto
<1> QED
  BY <1>1, <1>2, <1>3 DEF Conns, JournalTyped

\* The rows of a read follow one another.
LEMMA RowsFollow ==
  ASSUME conn \in Conns, conn.cursor <= conn.upto
  PROVE  /\ Rows(conn) \in Seq(Row) /\ Len(Rows(conn)) = conn.upto - conn.cursor
         /\ \A i \in 1..Len(Rows(conn)) : Rows(conn)[i].n = conn.cursor + i
<1> DEFINE size == conn.upto - conn.cursor
<1>1. size \in Nat /\ conn.cursor \in Nat
  BY DEF Conns
<1>2. \A i \in 1..size : [n |-> conn.cursor + i, current |-> conn.state = "waiting" /\ conn.cursor + i = conn.last] \in Row
  BY <1>1 DEF Row
<1>3. Rows(conn) = [i \in 1..size |->
         [n |-> conn.cursor + i, current |-> conn.state = "waiting" /\ conn.cursor + i = conn.last]]
  BY DEF Rows
<1> HIDE DEF size
<1>4. Rows(conn) \in [1..size -> Row] /\ \A i \in 1..size : Rows(conn)[i].n = conn.cursor + i
  BY <1>2, <1>3
<1> HIDE DEF Row
<1>5. Rows(conn) \in Seq(Row) /\ Len(Rows(conn)) = size
  BY <1>1, <1>4
<1>6. size = conn.upto - conn.cursor
  BY DEF size
<1> QED
  BY <1>4, <1>5, <1>6

\* One turn of the loop sends what the last read returned.
LEMMA SendStep ==
  ASSUME StreamInv, Send
  PROVE  StreamInv'
<1> DEFINE rows == Rows(conn)
           place == IF Complete(conn) THEN "closed"
                    ELSE IF conn.upto = conn.cursor THEN "resting" ELSE "rereading"
           sent == [conn EXCEPT !.cursor = conn.upto, !.signal = FALSE, !.at = place]
<1>1. conn \in Conns /\ conn.cursor <= conn.upto /\ pipe \in Seq(Row) /\ reader \in Readers
  BY DEF StreamInv, ConnTyped, Following
<1>2. rows \in Seq(Row) /\ Len(rows) = conn.upto - conn.cursor
      /\ \A i \in 1..Len(rows) : rows[i].n = conn.cursor + i
  BY <1>1, RowsFollow
<1>3. pipe' = pipe \o rows /\ conn' = sent /\ UNCHANGED <<journal, run, outbox, listening, reader, member>>
  BY DEF Send
<1> HIDE DEF rows, place
<1>4. place \in {"closed", "resting", "rereading"}
  BY DEF place
<1>5. conn' \in Conns /\ conn'.cursor = conn.upto /\ conn'.upto = conn.upto
  BY <1>1, <1>3, <1>4 DEF Conns
<1> HIDE DEF sent
<1>6. pipe' \in Seq(Row) /\ Len(pipe') = Len(pipe) + Len(rows)
  BY <1>1, <1>2, <1>3, ConcatProperties
<1>7. ASSUME reader.at = "reading"
      PROVE  (\A i \in DOMAIN pipe' : pipe'[i].n = reader.cursor + i)
             /\ conn'.cursor = reader.cursor + Len(pipe')
  <2>1. (\A i \in 1..Len(pipe) : pipe[i].n = reader.cursor + i) /\ conn.cursor = reader.cursor + Len(pipe)
    BY <1>1, <1>7 DEF StreamInv, Following
  <2>2. reader.cursor \in Nat /\ conn.cursor \in Nat /\ conn.upto \in Nat
    BY <1>1 DEF Readers, Conns
  <2>3. ASSUME NEW i \in 1..Len(pipe') PROVE pipe'[i].n = reader.cursor + i
    <3>1. CASE i <= Len(pipe)
      <4>1. i \in 1..Len(pipe)
        BY <1>1, <3>1
      <4> QED
        BY <1>1, <1>2, <1>3, <2>1, <4>1, ConcatProperties
    <3>2. CASE i > Len(pipe)
      <4> DEFINE k == i - Len(pipe)
      <4>1. k \in 1..Len(rows) /\ k \in Nat /\ i = Len(pipe) + k /\ Len(pipe) \in Nat
        BY <1>1, <1>2, <1>6, <3>2
      <4>2. pipe'[i] = rows[k]
        BY <1>1, <1>2, <1>3, <1>6, <3>2, ConcatProperties
      <4> HIDE DEF k
      <4>3. pipe'[i].n = conn.cursor + k /\ conn.cursor = reader.cursor + Len(pipe)
        BY <1>2, <2>1, <4>1, <4>2
      <4> QED
        BY <2>2, <4>1, <4>3
    <3> QED
      BY <1>1, <3>1, <3>2
  <2>4. conn'.cursor = reader.cursor + (Len(pipe) + Len(rows)) /\ Len(pipe) \in Nat /\ Len(rows) \in Nat
    BY <1>1, <1>2, <1>5, <2>1, <2>2
  <2>5. DOMAIN pipe' = 1..Len(pipe')
    BY <1>6
  <2> QED
    BY <1>6, <2>3, <2>4, <2>5
<1> QED
  BY <1>1, <1>3, <1>5, <1>6, <1>7 DEF StreamInv, JournalTyped, ConnTyped, Following, Logged, Conns

\* The other steps of the stream.
LEMMA StreamSteps ==
  ASSUME StreamInv, Subscribe \/ Wake \/ Reread
  PROVE  StreamInv'
<1>1. conn \in Conns /\ UNCHANGED <<journal, run, outbox, listening, pipe, reader, member>>
  BY DEF StreamInv, ConnTyped, Subscribe, Wake, Reread
<1>2. conn' \in Conns /\ conn'.cursor = conn.cursor /\ conn.cursor <= conn'.upto /\ conn'.upto <= Logged
  <2>1. ASSUME NEW at \in {"looping", "rereading", "broken"}, conn' = [conn EXCEPT !.at = at]
        PROVE  conn' \in Conns /\ conn'.cursor = conn.cursor /\ conn'.upto = conn.upto
    BY <1>1, <2>1 DEF Conns
  <2>2. CASE conn' = Read("looping", conn.cursor, conn.signal)
    <3>1. conn.cursor \in Nat /\ conn.cursor <= Logged /\ conn.signal \in BOOLEAN
      BY <1>1 DEF Conns, StreamInv, Following, JournalTyped, Logged
    <3> QED
      BY <2>2, <3>1, Reads DEF StreamInv
  <2>3. \/ \E at \in {"looping", "rereading", "broken"} : conn' = [conn EXCEPT !.at = at]
        \/ conn' = Read("looping", conn.cursor, conn.signal)
    BY DEF Subscribe, Wake, Reread
  <2> QED
    BY <2>1, <2>2, <2>3 DEF StreamInv, Following
<1> QED
  BY <1>1, <1>2 DEF StreamInv, JournalTyped, ConnTyped, Following, Logged

\* A reader that is not reading asks nothing of the pipe.
LEMMA NotReading ==
  ASSUME StreamInv, reader' \in Readers, reader'.cursor <= Logged, reader'.at # "reading",
         conn' \in {conn, NoConn}, pipe' \in {pipe, <<>>},
         UNCHANGED <<journal, run, outbox, listening, member>>
  PROVE  StreamInv'
<1>1. NoConn \in Conns /\ NoConn.cursor = 0 /\ NoConn.upto = 0 /\ <<>> \in Seq(Row)
  BY DEF NoConn, Conns
<1>2. conn' \in Conns /\ conn'.cursor <= conn'.upto /\ conn'.upto <= Logged /\ Logged \in Nat
  BY <1>1 DEF StreamInv, JournalTyped, ConnTyped, Following, Logged
<1> QED
  BY <1>1, <1>2 DEF StreamInv, JournalTyped, ConnTyped, Following, Logged

\* The request is refused, or opens a stream behind what the tab has shown.
LEMMA FetchStep ==
  ASSUME StreamInv, Fetch
  PROVE  StreamInv'
<1>1. reader \in Readers /\ reader.cursor \in Nat /\ reader.cursor <= Logged /\ Logged \in Nat
  BY DEF StreamInv, Following, Readers, JournalTyped, Logged
<1>2. UNCHANGED <<journal, run, outbox, listening, member>>
  BY DEF Fetch
<1>3. ASSUME NEW place \in {"refresh", "connect"}, NEW for \in {"state", "stream"}
      PROVE  LET r == [reader EXCEPT !.at = place, !.for = for]
             IN r \in Readers /\ r.cursor = reader.cursor /\ r.at = place
  BY <1>1 DEF Readers
<1>4. CASE ~Authenticated(Follower)
  <2> DEFINE asking == [reader EXCEPT !.at = "refresh"]
  <2>1. asking \in Readers /\ asking.cursor = reader.cursor /\ asking.at = "refresh"
    BY <1>1 DEF Readers
  <2>2. reader' \in {GaveUp, asking} /\ UNCHANGED <<conn, pipe>>
    BY <1>4 DEF Fetch
  <2> HIDE DEF asking
  <2> QED
    BY <1>1, <1>2, <2>1, <2>2, Retries, NotReading
<1>5. CASE Authenticated(Follower) /\ (~Readable \/ (reader.for = "stream" /\ After(reader) > Logged))
  <2>1. reader' = GaveUp /\ UNCHANGED <<conn, pipe>>
    BY <1>5 DEF Fetch
  <2> QED
    BY <1>1, <1>2, <2>1, Retries, NotReading
<1>6. CASE /\ Authenticated(Follower) /\ Readable /\ reader.for = "state"
  <2> DEFINE asked == [reader EXCEPT !.at = "ended", !.cursor = Logged, !.outcome = "asked"]
             following == [reader EXCEPT !.at = "connect", !.for = "stream"]
  <2>1. /\ asked \in Readers /\ asked.cursor = Logged /\ asked.at = "ended"
        /\ following \in Readers /\ following.cursor = reader.cursor /\ following.at = "connect"
    <3> HIDE DEF Logged
    <3> QED
      BY <1>1 DEF Readers
  <2>2. reader' \in {asked, following} /\ UNCHANGED <<conn, pipe>>
    BY <1>6 DEF Fetch
  <2> HIDE DEF asked, following
  <2> QED
    BY <1>1, <1>2, <2>1, <2>2, NotReading
<1>7. CASE /\ Authenticated(Follower) /\ Readable /\ reader.for = "stream" /\ After(reader) <= Logged
  <2> DEFINE reading == [reader EXCEPT !.at = "reading"]
             opened == Read("opened", reader.cursor, FALSE)
  <2>1. reading \in Readers /\ reading.cursor = reader.cursor
    BY <1>1 DEF Readers
  <2>2. ~(~Readable \/ (reader.for = "stream" /\ After(reader) > Logged)) /\ reader.for # "state"
    BY <1>1, <1>7 DEF After
  <2>5. reader' = reading /\ conn' = Read("opened", After(reader), FALSE) /\ pipe' = <<>>
    BY <1>7, <2>2 DEF Fetch
  <2>6. conn' = opened
    BY <2>5 DEF After
  <2>3. /\ opened \in Conns /\ opened.cursor = reader.cursor
        /\ opened.cursor <= opened.upto /\ opened.upto <= Logged
    BY <1>1, Reads DEF StreamInv
  <2>4. <<>> \in Seq(Row) /\ Len(<<>>) = 0 /\ DOMAIN (<<>>) = {}
    OBVIOUS
  <2> HIDE DEF reading, opened
  <2>8. ConnTyped' /\ JournalTyped' /\ reader' \in Readers /\ Logged' = Logged
    BY <1>2, <2>1, <2>3, <2>4, <2>5, <2>6 DEF StreamInv, JournalTyped, ConnTyped, Logged
  <2>9. Following'
    <3>1. reader'.cursor <= Logged' /\ conn'.cursor <= conn'.upto /\ conn'.upto <= Logged'
      BY <1>1, <2>1, <2>3, <2>5, <2>6, <2>8
    <3>2. conn'.cursor = reader'.cursor + Len(pipe')
      <4>1. Len(pipe') = 0
        BY <2>5
      <4>2. conn'.cursor = reader.cursor /\ reader'.cursor = reader.cursor
        BY <2>1, <2>3, <2>5, <2>6
      <4> QED
        BY <1>1, <4>1, <4>2
    <3>3. \A i \in DOMAIN pipe' : pipe'[i].n = reader'.cursor + i
      BY <2>4, <2>5
    <3> HIDE DEF Logged
    <3> QED
      BY <3>1, <3>2, <3>3 DEF Following
  <2> QED
    BY <2>8, <2>9 DEF StreamInv
<1>8. reader.for \in {"state", "stream"} /\ (After(reader) > Logged \/ After(reader) <= Logged)
  BY <1>1 DEF Readers, After
<1> QED
  BY <1>4, <1>5, <1>6, <1>7, <1>8

\* A refresh that is over, a stream that ends, a network that fails, a reload.
LEMMA ReaderStops ==
  ASSUME StreamInv, Refreshed \/ EndOfStream \/ Disconnect \/ Reload
  PROVE  StreamInv'
<1>1. reader \in Readers /\ reader.cursor <= Logged /\ Logged \in Nat
  BY DEF StreamInv, Following, JournalTyped, Logged
<1> DEFINE again == [reader EXCEPT !.at = "again"]
           anew == [NewReader EXCEPT !.for = "state"]
<1>2. again \in Readers /\ again.cursor = reader.cursor /\ again.at = "again"
  BY <1>1 DEF Readers
<1>3. anew \in Readers /\ anew.cursor = 0 /\ anew.at = "connect"
  BY NewReaders DEF NewReader
<1>4. /\ reader' \in {again, GaveUp, Retried, anew}
      /\ conn' \in {conn, NoConn} /\ pipe' \in {pipe, <<>>}
      /\ UNCHANGED <<journal, run, outbox, listening, member>>
  BY DEF Refreshed, EndOfStream, Disconnect, Reload
<1> HIDE DEF again, anew
<1> QED
  BY <1>1, <1>2, <1>3, <1>4, Retries, NotReading

\* The tab reads a row: it is the one after what it has shown.
LEMMA ConsumeStep ==
  ASSUME StreamInv, Consume
  PROVE  StreamInv'
<1> DEFINE row == Head(pipe)
           event == journal[row.n]
           shown == [reader EXCEPT !.cursor = row.n]
           ended == [shown EXCEPT !.at = "ended", !.outcome = event]
<1>1. /\ reader \in Readers /\ reader.cursor \in Nat /\ reader.cursor <= Logged /\ Logged \in Nat
      /\ reader.at = "reading" /\ conn \in Conns /\ conn.cursor <= Logged /\ conn.cursor \in Nat
      /\ journal \in Seq(Events)
  BY DEF StreamInv, ConnTyped, Following, Readers, JournalTyped, Logged, Consume, Conns
<1>2. /\ pipe \in Seq(Row) /\ pipe # <<>> /\ row = pipe[1] /\ 1 \in DOMAIN pipe
      /\ Tail(pipe) \in Seq(Row) /\ Len(pipe) = Len(Tail(pipe)) + 1
      /\ \A i \in 1..Len(Tail(pipe)) : Tail(pipe)[i] = pipe[i + 1]
  <2>1. pipe \in Seq(Row) /\ pipe # <<>>
    BY DEF StreamInv, ConnTyped, Consume
  <2> QED
    BY <2>1, HeadTailProperties
<1>3. /\ \A i \in DOMAIN pipe : pipe[i].n = reader.cursor + i
      /\ conn.cursor = reader.cursor + Len(pipe)
  BY <1>1 DEF StreamInv, Following
<1>4. row.n = reader.cursor + 1 /\ row.n <= Logged /\ row.n \in 1..Logged
  BY <1>1, <1>2, <1>3
<1>5. UNCHANGED <<journal, run, outbox, listening, member>>
  BY DEF Consume
<1>6. CASE event \in Endings \/ (event = "asked" /\ row.current)
  <2>1. reader' = ended /\ conn' = NoConn /\ pipe' = <<>>
    <3> HIDE DEF shown
    <3> QED
      BY <1>1, <1>4, <1>6 DEF Consume, shown
  <2>2. event \in {"none", "asked"} \cup Endings
    BY <1>6
  <2>4. row.n \in Nat
    BY <1>1, <1>4
  <2> HIDE DEF event, row
  <2>5. shown \in Readers /\ shown.cursor = row.n
    BY <1>1, <2>4 DEF Readers
  <2>3. ended \in Readers /\ ended.cursor = row.n /\ ended.at = "ended"
    <3> HIDE DEF shown
    <3> QED
      BY <2>2, <2>5 DEF Readers
  <2> QED
    BY <1>4, <1>5, <2>1, <2>3, NotReading
<1>7. CASE ~(event \in Endings \/ (event = "asked" /\ row.current))
  <2>1. reader' = shown /\ pipe' = Tail(pipe) /\ UNCHANGED conn
    <3> HIDE DEF shown
    <3> QED
      BY <1>1, <1>4, <1>7 DEF Consume, shown
  <2> HIDE DEF event, row
  <2>2. shown \in Readers /\ shown.cursor = row.n /\ shown.at = "reading"
    BY <1>1, <1>4 DEF Readers
  <2> HIDE DEF shown
  <2>3. DOMAIN Tail(pipe) = 1..Len(Tail(pipe)) /\ Len(Tail(pipe)) \in Nat
    BY <1>2
  <2>4. ASSUME NEW i \in 1..Len(Tail(pipe))
        PROVE  Tail(pipe)[i].n = row.n + i
    <3>1. i + 1 \in DOMAIN pipe
      BY <1>2, <2>3
    <3>2. pipe[i + 1].n = reader.cursor + (i + 1) /\ Tail(pipe)[i] = pipe[i + 1]
      BY <1>2, <1>3, <3>1
    <3> QED
      BY <1>1, <1>4, <3>2
  <2>5. conn.cursor = row.n + Len(Tail(pipe))
    BY <1>1, <1>2, <1>3, <1>4, <2>3
  <2> QED
    BY <1>1, <1>2, <1>4, <1>5, <2>1, <2>2, <2>3, <2>4, <2>5
    DEF StreamInv, JournalTyped, ConnTyped, Following, Logged
<1> QED
  BY <1>6, <1>7

\* The question is answered, here or in another tab.
LEMMA ResumeStep ==
  ASSUME StreamInv, Resume
  PROVE  StreamInv'
<1>1. Log(<<"resumed">>, "active") /\ UNCHANGED <<listening, conn, pipe, member>>
  BY DEF Resume
<1>2. <<"resumed">> \in Seq(Events)
  BY DEF Events
<1>3. JournalTyped' /\ Logged' >= Logged /\ Logged \in Nat /\ Logged' \in Nat
  BY <1>1, <1>2, Logs DEF StreamInv
<1>4. CASE UNCHANGED reader
  BY <1>1, <1>3, <1>4, JournalGrows
<1>5. CASE reader' = [NewReader EXCEPT !.for = "state", !.cursor = reader.cursor]
  <2>1. /\ reader \in Readers /\ reader.cursor \in Nat /\ reader.cursor <= Logged
        /\ conn \in Conns /\ conn.cursor <= conn.upto /\ conn.upto <= Logged /\ conn.upto \in Nat
    BY DEF StreamInv, ConnTyped, Conns, Following, Readers
  <2>2. reader' \in Readers /\ reader'.cursor = reader.cursor /\ reader'.at = "connect"
    BY <1>5, <2>1, NewReaders DEF NewReader
  <2> QED
    BY <1>1, <1>3, <2>1, <2>2 DEF StreamInv, ConnTyped, Following
<1> QED
  BY <1>4, <1>5 DEF Resume

\* What the login does leaves the stream alone.
LEMMA StreamUnchanged == StreamInv /\ UNCHANGED streamVars => StreamInv'
  BY DEF StreamInv, JournalTyped, ConnTyped, Following, Logged, streamVars

\* Losses of the stream are counted among the login's.
LEMMA AuthFaults ==
  ASSUME AuthInv, faults' = faults + 1,
         UNCHANGED <<session, cookie, webLocks, lock, tab, mail, stray, lost>>
  PROVE  AuthInv'
  BY DEF AuthInv, AuthTypeOK, Undisturbed, InStep, Renewing

-----------------------------------------------------------------------------
(* Every step keeps the invariant.                                         *)

LEMMA AccountStep == AuthInv /\ Account => AuthInv'
<1>1. ASSUME AuthInv, NEW t \in Tabs,
             Expire(t) \/ Want(t) \/ Settle(t) \/ LoseAnswer(t) \/ LogOut(t) \/ ReloadTab(t)
      PROVE  AuthInv'
  BY <1>1, TabSteps, Disturbances
<1>2. ASSUME AuthInv, AuthStep \/ LogOutAll
      PROVE  AuthInv'
  BY <1>2, AuthSteps, Disturbances
<1> QED
  BY <1>1, <1>2 DEF Account

LEMMA AuthInductive == IInv /\ [Next]_vars => AuthInv'
<1> SUFFICES ASSUME IInv, [Next]_vars PROVE AuthInv'
  OBVIOUS
<1>1. AuthInv /\ Follower \in Tabs
  BY StreamAssumption DEF IInv
<1>2. CASE Work \/ Ask \/ End \/ Dispatch \/ Listen \/ Dismiss \/ Resume
  BY <1>1, <1>2, AuthUnchanged DEF Work, Ask, End, Dispatch, Listen, Dismiss, Resume
<1>3. CASE Subscribe \/ Send \/ Wake \/ Reread \/ Consume \/ EndOfStream \/ Fetch
  BY <1>1, <1>3, AuthUnchanged DEF Subscribe, Send, Wake, Reread, Consume, EndOfStream, Fetch
<1>4. CASE Deafen \/ Disconnect
  BY <1>1, <1>4, AuthFaults DEF Deafen, Disconnect
<1>5. CASE Refreshed
  BY <1>1, <1>5, TabSteps DEF Refreshed
<1>6. CASE Reload
  BY <1>1, <1>6, Disturbances DEF Reload
<1>7. CASE Account
  BY <1>1, <1>7, AccountStep
<1>8. CASE UNCHANGED vars
  BY <1>1, <1>8, AuthUnchanged DEF vars
<1> QED
  BY <1>2, <1>3, <1>4, <1>5, <1>6, <1>7, <1>8 DEF Next, StreamStep, World

LEMMA StreamInductive == IInv /\ [Next]_vars => StreamInv'
<1> SUFFICES ASSUME IInv, [Next]_vars PROVE StreamInv'
  OBVIOUS
<1>1. StreamInv
  BY DEF IInv
<1>2. CASE StreamStep
  BY <1>1, <1>2, StreamSteps, SendStep, ConsumeStep, ReaderStops, FetchStep DEF StreamStep
<1>3. CASE World
  BY <1>1, <1>3, RunSteps, NotifySteps, ResumeStep, ReaderStops DEF World
<1>4. CASE Account \/ UNCHANGED vars
  BY <1>1, <1>4, StreamUnchanged DEF Account, vars
<1> QED
  BY <1>2, <1>3, <1>4 DEF Next

-----------------------------------------------------------------------------
(* The theorems.                                                           *)

\* The inductive invariant.
THEOREM Invariance == Spec => []IInv
<1>1. Init => IInv
  BY StreamInitially
<1>2. IInv /\ [Next]_vars => IInv'
  BY AuthInductive, StreamInductive DEF IInv
<1> QED
  BY <1>1, <1>2, PTL DEF Spec

\* The login, the stream and its reader stay of their types (StreamTypeOK):
\* the reader never tries more often than MaxAttempts.
THEOREM TypesHold == Spec => []StreamTypeOK
<1>1. IInv => StreamTypeOK
  BY DEF IInv, AuthInv, StreamInv, JournalTyped, ConnTyped, Conns, Readers, Row, StreamTypeOK
<1> QED
  BY <1>1, Invariance, PTL

\* The rows on their way to the tab continue what it has shown, without a gap
\* and without a repetition, and its cursor is never beyond the journal: after
\* any breaks, reloads, lost notifications and cuts into batches the tab shows
\* every event of the Run once and in order (sse.ts readEventStream).
THEOREM EventsOnce == Spec => []EveryEventOnce
<1>1. IInv => EveryEventOnce
  BY DEF IInv, StreamInv, Following, EveryEventOnce
<1> QED
  BY <1>1, Invariance, PTL

\* With Web Locks the session is revoked as replayed (auth.py refresh) only
\* after a tab lost the answer to a refresh, by the connection or by a reload
\* while the refresh was under way: tabs that take turns by the lock and share
\* the cookie never present a used token, whoever logs out or reloads meanwhile.
THEOREM ReplayAfterLoss == Spec => []ReplayNeedsLoss
<1>1. IInv => ReplayNeedsLoss
  BY DEF IInv, AuthInv, AuthTypeOK, Undisturbed, ReplayNeedsLoss
<1> QED
  BY <1>1, Invariance, PTL
=============================================================================
