------------------------------- MODULE RunStream -------------------------------
(***************************************************************************)
(* How an answer reaches the browser: the journal of a Run, the outbox and *)
(* the notifications that wake its readers (service/runs.py,               *)
(* manager/run_events.py), the stream of events (web/routes.py             *)
(* durable_stream) and the tab that follows it and reconnects              *)
(* (frontend/src/api.ts, sse.ts, store.ts).  The tab's access token is     *)
(* AuthSession's.                                                          *)
(*                                                                         *)
(* RunStore models who writes the journal and when; here its transactions  *)
(* are nondeterministic.  A stream, the tab that reads it, the LISTEN      *)
(* connection and the journal move on independently.                       *)
(***************************************************************************)
EXTENDS AuthSession, FiniteSetsExt

CONSTANTS
  Follower,    \* the tab that follows the Run
  MaxEvents,   \* bound of the model: events before the ending
  Batch,       \* 100: rows of one read
  MaxAttempts  \* 3: reconnections of resumeRun

ASSUME StreamAssumption ==
  /\ Follower \in Tabs /\ MaxEvents \in Nat /\ Batch \in Nat \ {0} /\ MaxAttempts \in Nat

VARIABLES
  journal,   \* Seq of the events of the Run: rag.chat_run_events
  run,       \* "active", "waiting" or "ended": state of the Run
  outbox,    \* an event has not been dispatched
  listening, \* the LISTEN connection of the API process is up
  conn,      \* the stream as the server holds it
  pipe,      \* rows that were sent and not read yet
  reader,    \* the tab's side: resumeRun and readEventStream
  member     \* the user belongs to the workspace of the session

streamVars == <<journal, run, outbox, listening, conn, pipe, reader, member>>
vars == <<streamVars, authVars>>

Endings == {"done", "error"}   \* error: or cancelled, which the reader treats alike
Events == {"progress", "asked", "resumed"} \cup Endings
Logged == Len(journal)

\* state, last: the Run as the last read saw it; upto: the rows it returned.
NoConn == [at |-> "none", cursor |-> 0, upto |-> 0, last |-> 0, state |-> "active", signal |-> FALSE]
\* for: the request that is made, of the Run's state or of its events.
NewReader == [at |-> "connect", for |-> "stream", cursor |-> 0, attempt |-> 0, outcome |-> "none"]

StreamTypeOK ==
  /\ AuthTypeOK
  /\ journal \in Seq(Events) /\ run \in {"active", "waiting", "ended"} /\ outbox \in BOOLEAN
  /\ listening \in BOOLEAN
  /\ conn \in [at : {"none", "opened", "looping", "resting", "rereading", "closed", "broken"},
               cursor : Nat, upto : Nat, last : Nat, state : {"active", "waiting", "ended"},
               signal : BOOLEAN]
  /\ pipe \in Seq([n : Nat, current : BOOLEAN])
  /\ reader \in [at : {"connect", "refresh", "again", "reading", "ended", "gaveUp"},
                 for : {"state", "stream"}, cursor : Nat, attempt : 0..MaxAttempts,
                 outcome : {"none", "asked"} \cup Endings]
  /\ member \in BOOLEAN

Init ==
  /\ AuthInit
  /\ journal = <<"progress">> /\ run = "active" /\ outbox = TRUE   \* run_started
  /\ listening = TRUE
  /\ conn = NoConn /\ pipe = <<>> /\ reader = NewReader /\ member = TRUE

-----------------------------------------------------------------------------
(* The journal and its notifications.                                      *)

\* One transaction: events, their outbox rows and the new state of the Run.
Log(events, state) ==
  /\ journal' = journal \o events /\ run' = state /\ outbox' = TRUE

Work ==
  /\ run = "active" /\ Logged < MaxEvents /\ Log(<<"progress">>, "active")
  /\ UNCHANGED <<listening, conn, pipe, reader, member, authVars>>

Ask ==
  /\ run = "active" /\ Logged < MaxEvents /\ Log(<<"asked">>, "waiting")
  /\ UNCHANGED <<listening, conn, pipe, reader, member, authVars>>

\* Publication (usage and done), failure or expiry, cancellation.
End ==
  /\ \/ run = "active" /\ Log(<<"progress", "done">>, "ended")
     \/ run # "ended" /\ Log(<<"error">>, "ended")
  /\ UNCHANGED <<listening, conn, pipe, reader, member, authVars>>

\* dispatch_outbox, in this process or another one, and wake: the notification
\* reaches who listens.  A signal set before the stream rests is cleared unseen.
Dispatch ==
  /\ outbox /\ outbox' = FALSE
  /\ conn' = IF listening /\ conn.at = "resting"
             THEN [conn EXCEPT !.signal = TRUE] ELSE conn
  /\ UNCHANGED <<journal, run, listening, pipe, reader, member, authVars>>

\* The LISTEN connection fails and is opened again.
Deafen ==
  /\ listening /\ faults < MaxFaults /\ listening' = FALSE /\ faults' = faults + 1
  /\ UNCHANGED <<journal, run, outbox, conn, pipe, reader, member,
                 session, cookie, webLocks, lock, tab, mail, stray, lost>>

Listen ==
  /\ ~listening /\ listening' = TRUE
  /\ UNCHANGED <<journal, run, outbox, conn, pipe, reader, member, authVars>>

\* The user leaves the workspace, or it is archived.
Dismiss ==
  /\ member /\ member' = FALSE
  /\ UNCHANGED <<journal, run, outbox, listening, conn, pipe, reader, authVars>>

-----------------------------------------------------------------------------
(* The stream.                                                             *)

\* get_row: the session of the Run is in a workspace of the user.
Readable == member

\* read: the Run and at most Batch rows after the cursor.
Read(at, cursor, signal) ==
  [at |-> at, cursor |-> cursor, upto |-> Min({cursor + Batch, Logged}), last |-> Logged,
   state |-> run, signal |-> signal]

\* The generator starts after the first read: it subscribes.
Subscribe ==
  /\ conn.at = "opened" /\ conn' = [conn EXCEPT !.at = "looping"]
  /\ UNCHANGED <<journal, run, outbox, listening, pipe, reader, member, authVars>>

Complete(c) == c.state # "active" /\ c.upto >= c.last

Rows(c) ==
  [i \in 1..(c.upto - c.cursor) |->
    [n |-> c.cursor + i, current |-> c.state = "waiting" /\ c.cursor + i = c.last]]

\* One turn of the loop up to its await: clear the signal, send the rows, end,
\* rest or read on.
Send ==
  /\ conn.at = "looping"
  /\ pipe' = pipe \o Rows(conn)
  /\ conn' = [conn EXCEPT !.cursor = conn.upto, !.signal = FALSE,
                          !.at = IF Complete(conn) THEN "closed"
                                 ELSE IF conn.upto = conn.cursor THEN "resting" ELSE "rereading"]
  /\ UNCHANGED <<journal, run, outbox, listening, reader, member, authVars>>

Overdue_Bug(c) == FALSE   \* only a notification wakes the stream

Overdue(c) == TRUE   \* half a second has passed

Wake ==
  /\ conn.at = "resting" /\ (conn.signal \/ Overdue(conn))
  /\ conn' = [conn EXCEPT !.at = "rereading"]
  /\ UNCHANGED <<journal, run, outbox, listening, pipe, reader, member, authVars>>

Reread ==
  /\ conn.at = "rereading"
  /\ conn' = IF Readable THEN Read("looping", conn.cursor, conn.signal) ELSE [conn EXCEPT !.at = "broken"]
  /\ UNCHANGED <<journal, run, outbox, listening, pipe, reader, member, authVars>>

-----------------------------------------------------------------------------
(* The tab that follows the Run.                                           *)

Stopped == reader.at \in {"ended", "gaveUp"}
Final == reader.at = "gaveUp" \/ reader.outcome \in Endings
GaveUp == [reader EXCEPT !.at = "gaveUp"]

\* resumeRun: what is not an answer of the server is tried again.
Retried ==
  IF reader.for = "state" \/ reader.attempt >= MaxAttempts THEN GaveUp
  ELSE [reader EXCEPT !.at = "connect", !.attempt = @ + 1]

After_Bug(r) == 0   \* the stream starts again without Logged-Event-ID

After(r) == r.cursor

\* The request: 401 asks for a refresh, once; 404 and 422 end the attempt;
\* recoverRun looks at the state of the Run before it follows it.
Fetch ==
  /\ reader.at \in {"connect", "again"} /\ tab[Follower].at = "idle"
  /\ IF ~Authenticated(Follower)
     THEN /\ reader' = IF reader.at = "again" THEN GaveUp ELSE [reader EXCEPT !.at = "refresh"]
          /\ UNCHANGED <<conn, pipe>>
     ELSE IF ~Readable \/ (reader.for = "stream" /\ After(reader) > Logged)
     THEN reader' = GaveUp /\ UNCHANGED <<conn, pipe>>
     ELSE IF reader.for = "state"
     THEN /\ reader' = IF run = "waiting"
                       THEN [reader EXCEPT !.at = "ended", !.cursor = Logged, !.outcome = "asked"]
                       ELSE [reader EXCEPT !.at = "connect", !.for = "stream"]
          /\ UNCHANGED <<conn, pipe>>
     ELSE /\ conn' = Read("opened", After(reader), FALSE) /\ pipe' = <<>>
          /\ reader' = [reader EXCEPT !.at = "reading"]
  /\ UNCHANGED <<journal, run, outbox, listening, member, authVars>>

\* await refresh(): the tab waits for AuthSession.
Refreshed ==
  /\ reader.at = "refresh" /\ tab[Follower].at \in {"ok", "refused", "broken"}
  /\ reader' = CASE tab[Follower].at = "ok" -> [reader EXCEPT !.at = "again"]
                 [] tab[Follower].at = "refused" -> GaveUp
                 [] OTHER -> Retried
  /\ Settle(Follower)
  /\ UNCHANGED <<journal, run, outbox, listening, conn, pipe, member>>

\* consume: a row already seen is skipped, a gap breaks the connection, an
\* ending or a current question stops the reader.
Consume ==
  /\ reader.at = "reading" /\ pipe # <<>>
  /\ LET row == Head(pipe)
         event == journal[row.n]
         shown == [reader EXCEPT !.cursor = row.n]
     IN \/ /\ row.n <= reader.cursor
           /\ pipe' = Tail(pipe) /\ UNCHANGED <<conn, reader>>
        \/ /\ row.n = reader.cursor + 1
           /\ IF event \in Endings \/ (event = "asked" /\ row.current)
              THEN /\ reader' = [shown EXCEPT !.at = "ended", !.outcome = event]
                   /\ conn' = NoConn /\ pipe' = <<>>
              ELSE reader' = shown /\ pipe' = Tail(pipe) /\ UNCHANGED conn
        \/ /\ row.n > reader.cursor + 1
           /\ reader' = Retried /\ conn' = NoConn /\ pipe' = <<>>
  /\ UNCHANGED <<journal, run, outbox, listening, member, authVars>>

\* The stream ends without an ending.
EndOfStream ==
  /\ reader.at = "reading" /\ pipe = <<>> /\ conn.at \in {"closed", "broken"}
  /\ reader' = Retried /\ conn' = NoConn
  /\ UNCHANGED <<journal, run, outbox, listening, pipe, member, authVars>>

\* The network fails while the tab reads.
Disconnect ==
  /\ reader.at = "reading" /\ faults < MaxFaults
  /\ reader' = Retried /\ conn' = NoConn /\ pipe' = <<>> /\ faults' = faults + 1
  /\ UNCHANGED <<journal, run, outbox, listening, member,
                 session, cookie, webLocks, lock, tab, mail, stray, lost>>

\* The user answers the question, here (continueRun, then recoverRun from the
\* question on) or in another tab.
Resume ==
  /\ run = "waiting" /\ member /\ Log(<<"resumed">>, "active")
  /\ \/ /\ reader.at = "ended" /\ reader.outcome = "asked" /\ reader.cursor = Logged
        /\ Authenticated(Follower) /\ tab[Follower].at = "idle"
        /\ reader' = [NewReader EXCEPT !.for = "state", !.cursor = reader.cursor]
     \/ UNCHANGED reader
  /\ UNCHANGED <<listening, conn, pipe, member, authVars>>

\* The tab is reloaded and finds the Run again, from its first event.
Reload ==
  /\ ReloadTab(Follower)
  /\ reader' = [NewReader EXCEPT !.for = "state"] /\ conn' = NoConn /\ pipe' = <<>>
  /\ UNCHANGED <<journal, run, outbox, listening, member>>

-----------------------------------------------------------------------------
\* The sessions matter to the reader only when it is about to send a request
\* or waits for a token; elsewhere their steps commute with the stream's, so
\* they are taken at these places.
\* A token does not expire between a refresh and the request it was for; only
\* a tab that waits for it asks for a refresh on the follower's behalf.
Account ==
  /\ reader.at \in {"connect", "refresh", "again"}
  /\ \/ AuthStep
     \/ \E t \in Tabs :
          \/ (t = Follower => reader.at # "again") /\ Expire(t)
          \/ (IF t = Follower THEN reader.at = "refresh" ELSE tab[t].access = "none") /\ Want(t)
          \/ LoseAnswer(t) \/ LogOut(t)
          \/ t # Follower /\ (Settle(t) \/ ReloadTab(t))
     \/ LogOutAll
  /\ UNCHANGED streamVars

StreamStep == Subscribe \/ Send \/ Wake \/ Reread \/ Consume \/ EndOfStream \/ Fetch \/ Refreshed

World == Work \/ Ask \/ Resume \/ End \/ Dispatch \/ Deafen \/ Listen \/ Dismiss \/ Disconnect \/ Reload

\* Once the follower has seen the ending or given up, nothing is modelled.
Next == ~Final /\ (StreamStep \/ Account \/ World)

Spec == Init /\ [][Next]_vars

\* Requests are served, timers run out, tabs go on; every Run ends (RunStore's
\* EveryRunEnds).
FairSpec ==
  /\ Spec /\ WF_vars(StreamStep) /\ WF_vars(End)
  /\ WF_vars((AuthStep \/ (reader.at = "refresh" /\ Want(Follower))) /\ UNCHANGED streamVars)

-----------------------------------------------------------------------------
(* Properties                                                              *)

\* What is under way continues what the tab has shown: whatever connections
\* break, notifications are lost and batches are cut, the error of sse.ts:14
\* ("sequence not contiguous") and the refusal of a cursor never happen.
EveryEventOnce ==
  /\ reader.cursor <= Logged
  /\ reader.at = "reading" =>
       /\ \A i \in DOMAIN pipe : pipe[i].n = reader.cursor + i
       /\ conn.cursor = reader.cursor + Len(pipe)

\* The tab always comes to an end: the answer, a question or an error.
FollowEnds == []<>Stopped
=============================================================================
