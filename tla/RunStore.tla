------------------------------ MODULE RunStore ------------------------------
(***************************************************************************)
(* The durable question-answering Run: its row in rag.chat_runs, the       *)
(* checkpoint and the assistant message that share its transactions, and   *)
(* the worker processes that lease it (app/service/runs.py,                *)
(* app/manager/run_execution.py, ChatService.execute_prepared).            *)
(*                                                                         *)
(* One action is one database transaction, or one step of a worker process *)
(* between two transactions.  A transaction that raises leaves every row   *)
(* as it was, so a refused call is a call whose action is not enabled.     *)
(*                                                                         *)
(* Timestamps are kept as their distance from the database clock: Tick     *)
(* shortens every lease and deadline by one, and 0 stands for "past".  A   *)
(* NULL lease is 0 too: every query reads it as it reads a lease that ran  *)
(* out, because owner_token is NULL with it.  Tokens are fresh UUIDs: an   *)
(* owner token is named by the generation it was issued with and a resume  *)
(* token by the checkpoint revision it was issued with, 0 being NULL.      *)
(***************************************************************************)
EXTENDS Naturals, FiniteSets

CONSTANTS
  Runs,          \* Run ids; each stands for one (user, Idempotency-Key) pair
  Sessions,      \* chat sessions of the user
  Workers,       \* execution slots (threads of run_worker processes)
  NoRun,         \* the claim of an idle worker
  NoWorker,      \* the holder of a free session lock
  Lease,         \* chat_run_lease_seconds
  Budget,        \* agent_timeout: execution time a Run may use in total
  Grace,         \* the 30 seconds added to the first expires_at
  WaitLimit,     \* chat_run_wait_seconds
  BusyDelay,     \* the 1 second a busy Run stays out of the queue
  EventLimit,    \* 8192: sequence at which ordinary events are refused
  Reserve,       \* 8: further sequences only terminal events may use
  QueueLimit     \* chat_run_queue_limit: active Runs of the user

ASSUME TimesAssumption ==
  /\ Lease \in Nat \ {0} /\ Budget \in Nat \ {0} /\ WaitLimit \in Nat \ {0}
  /\ Grace \in Nat /\ BusyDelay \in Nat
ASSUME LimitsAssumption ==
  /\ EventLimit \in Nat \ {0} /\ QueueLimit \in Nat
  /\ Reserve \in Nat /\ Reserve >= 3     \* context_usage, usage and done
ASSUME NamesAssumption ==
  NoRun \notin Runs /\ NoWorker \notin Workers /\ Sessions # {}

VARIABLES
  run,      \* [Runs -> Row]: chat_runs, with its checkpoint and message
  worker,   \* [Workers -> Process]: what each execution slot is doing
  lock,     \* [Sessions -> Workers or NoWorker]: the session advisory lock
  created   \* number of Runs created so far: the clock of created_at

vars == <<run, worker, lock, created>>

Active   == {"queued", "running", "waiting", "cancelling"}
Terminal == {"cancelled", "succeeded", "failed", "interrupted"}
States   == Active \cup Terminal
            \cup {"absent",     \* not created
                  "deleted"}    \* row removed with its session

Row ==
  [state      : States,
   session    : Sessions,
   born       : Nat,            \* created_at
   generation : Nat,
   owner      : Nat,            \* owner_token
   lease      : Nat,            \* lease_expires_at
   remaining  : Nat,            \* remaining_seconds
   used       : Nat,            \* min(now, lease_expires_at) - active_since
   expires    : Nat,            \* expires_at
   sequence   : Nat,            \* last event of the journal
   endings    : Nat,            \* done/error/run_cancelled events in it
   asked      : Nat,            \* run_waiting events in it
   revision   : Nat,            \* checkpoint revision, 0 = no checkpoint
   inputs     : Nat,            \* length of human_inputs in the checkpoint
   receipt    : Nat,            \* resume_receipt.key in the checkpoint
   resumeKey  : Nat,
   answer     : Nat,            \* generation that wrote the message, 0 = ""
   shown      : States]         \* run_metadata.state of the message

Process ==
  [pc      : {"idle", "claimed", "loaded", "executing", "leaving",
              "failing", "busy"},
   run     : Runs \cup {NoRun},
   gen     : Nat,               \* RunClaim.token and .generation
   beating : BOOLEAN,           \* the heartbeat thread is alive
   inputs  : Nat,               \* RunCheckpoint.state as it was loaded
   receipt : Nat,
   unclean : BOOLEAN]           \* the pending error is SANDBOX_CLEANUP_FAILED

(* Definitions named ..._Bug are what the next definition would be with a     *)
(* plausible mistake in the code.  Nothing uses them: the mutation runs that  *)
(* PROJECT.json lists put one in its place and expect a property to fail.     *)

Idle == [pc |-> "idle", run |-> NoRun, gen |-> 0, beating |-> FALSE,
         inputs |-> 0, receipt |-> 0, unclean |-> FALSE]

NoRow(s) == [state |-> "absent", session |-> s, born |-> 0, generation |-> 0,
             owner |-> 0, lease |-> 0, remaining |-> 0, used |-> 0,
             expires |-> 0, sequence |-> 0, endings |-> 0, asked |-> 0,
             revision |-> 0, inputs |-> 0, receipt |-> 0, resumeKey |-> 0,
             answer |-> 0, shown |-> "absent"]

Init ==
  /\ run = [r \in Runs |-> NoRow(CHOOSE s \in Sessions : TRUE)]
  /\ worker = [w \in Workers |-> Idle]
  /\ lock = [s \in Sessions |-> NoWorker]
  /\ created = 0

-----------------------------------------------------------------------------
(* What one transaction does to a row.                                     *)

IsActive(row) == row.state \in Active

CanLog_Bug(row) == row.sequence < EventLimit + Reserve   \* no reserve kept

\* _event: an ordinary event needs a sequence below EventLimit, a terminal
\* one may also use the reserve.  Sizes are counted in events, not in bytes.
CanLog(row)      == row.sequence < EventLimit
CanClose(row, n) == row.sequence + n <= EventLimit + Reserve

Logged(row) == [row EXCEPT !.sequence = @ + 1]
Ended(row, n) == [row EXCEPT !.sequence = @ + n, !.endings = @ + 1]

\* message_state: the assistant message repeats the state of its Run.
Moved(row, state) == [row EXCEPT !.state = state, !.shown = state]

\* A terminal state and its done, error or run_cancelled event, the last of
\* n terminal events.
Closed(row, state, n) == Ended(Moved(row, state), n)

\* owner_token = lease_expires_at = active_since = None
Released(row) == [row EXCEPT !.owner = 0, !.lease = 0, !.used = 0]

Expired(row) == row.state = "waiting" /\ row.expires = 0

\* expire(): the branch for a waiting Run.  The other one is for the rows of
\* the retired in-process executor (running with generation 0), which create
\* no longer makes.
Expire(row) == [Closed(row, "interrupted", 1) EXCEPT !.resumeKey = 0]

Abandoned_Bug(row) == row.state = "cancelling" /\ row.owner = 0   \* leases never run out

\* settle_cancellations: nobody is left to acknowledge the cancellation.
Abandoned(row) == row.state = "cancelling" /\ (row.lease = 0 \/ row.owner = 0)
Settled(row)   == Released(Closed(row, "cancelled", 1))

Claimable_Bug(row) ==   \* the lease is not looked at
  row.state = "queued" \/ (row.state = "running" /\ row.generation > 0)

Claimable(row) ==
  /\ row.lease = 0
  /\ \/ row.state = "queued"
     \/ row.state = "running" /\ row.generation > 0

-----------------------------------------------------------------------------
(* The API: create, read, cancel, resume, delete.                          *)

ActiveIn_Bug(s) == {q \in Runs : run[q].session = s /\ run[q].state \in {"queued", "running"}}

ActiveIn(s) == {q \in Runs : run[q].session = s /\ IsActive(run[q])}

Accepted(s, time) ==
  [NoRow(s) EXCEPT !.state = "queued", !.shown = "queued", !.born = time,
                   !.remaining = Budget, !.expires = Budget + Grace]

\* create(queued=True) for a new key.  An active Run of the session that is an
\* expired question is interrupted in the same transaction; any other one
\* refuses the call.  prepare_run saves the placeholder message.
Create(r, s) ==
  /\ run[r].state = "absent"
  /\ \A q \in ActiveIn(s) : Expired(run[q]) /\ CanClose(run[q], 1)
  /\ Cardinality({q \in Runs : IsActive(run[q])} \ ActiveIn(s)) < QueueLimit
  /\ run' = [q \in Runs |->
       IF q = r THEN Logged(Accepted(s, created))
       ELSE IF q \in ActiveIn(s) THEN Expire(run[q])
       ELSE run[q]]
  /\ created' = created + 1
  /\ UNCHANGED <<worker, lock>>

\* read(), and create() for a key already used: both only expire the Run.
Read(r) ==
  /\ Expired(run[r])
  /\ CanClose(run[r], 1)
  /\ run' = [run EXCEPT ![r] = Expire(@)]
  /\ UNCHANGED <<worker, lock, created>>

Cancelled(row) == [Closed(row, "cancelled", 1) EXCEPT !.resumeKey = 0]
Stopping(row)  == [Logged(Moved(row, "cancelling")) EXCEPT !.resumeKey = 0]

\* Nobody executes the Run: it is cancelled at once.
Unowned(row) == row.state \in {"queued", "waiting"} \/ row.owner = 0 \/ row.lease = 0

RequestCancel(r) ==
  /\ run[r].state \in {"queued", "running", "waiting"}
  /\ \/ /\ Unowned(run[r])
        /\ CanClose(run[r], 1)
        /\ run' = [run EXCEPT ![r] = Cancelled(@)]
     \/ /\ ~Unowned(run[r])
        /\ CanLog(run[r])
        /\ run' = [run EXCEPT ![r] = Stopping(@)]
  /\ UNCHANGED <<worker, lock, created>>

Resumed(row, token) ==
  [Logged(Moved(row, "queued")) EXCEPT
     !.inputs = row.inputs + 1, !.receipt = token, !.revision = row.revision + 1,
     !.resumeKey = 0]

\* resume() with the token of the pause numbered token.  A token that was
\* already consumed (the receipt names it) or has been replaced changes nothing.
Resume(r, token) ==
  /\ token # run[r].receipt
  /\ run[r].state = "waiting"
  /\ run[r].revision = token
  /\ run[r].resumeKey = token
  /\ \/ /\ run[r].expires = 0
        /\ CanClose(run[r], 1)
        /\ run' = [run EXCEPT ![r] = Expire(@)]
     \/ /\ run[r].expires > 0
        /\ CanLog(run[r])
        /\ run' = [run EXCEPT ![r] = Resumed(@, token)]
  /\ UNCHANGED <<worker, lock, created>>

RowsOf(s) == {r \in Runs : run[r].session = s /\ run[r].state \in Active \cup Terminal}

\* SessionService.delete: the rows of the session's Runs go with it.
DeleteSession(s) ==
  /\ lock[s] = NoWorker
  /\ RowsOf(s) # {}
  /\ run' = [r \in Runs |-> IF r \in RowsOf(s) THEN [NoRow(s) EXCEPT !.state = "deleted"]
                            ELSE run[r]]
  /\ UNCHANGED <<worker, lock, created>>

-----------------------------------------------------------------------------
(* claim_next: one transaction expires questions, settles abandoned         *)
(* cancellations and leases the oldest claimable Run.                       *)

\* The rows after the housekeeping half of claim_next.  skipped is what SKIP
\* LOCKED (and the LIMIT 10 of each query) leaves for a later call.
Swept(skipped) ==
  [r \in Runs |->
     IF r \in skipped THEN run[r]
     ELSE IF Expired(run[r]) THEN Expire(run[r])
     ELSE IF Abandoned(run[r]) THEN Settled(run[r])
     ELSE run[r]]

\* No event of the sweep may exceed the journal, or the transaction fails.
SweepFits(skipped) ==
  \A r \in Runs \ skipped :
    Expired(run[r]) \/ Abandoned(run[r]) => CanClose(run[r], 1)

\* lock_next_run: ORDER BY created_at LIMIT 1 FOR UPDATE SKIP LOCKED.
IsNext(r, skipped) ==
  /\ r \in Runs \ skipped
  /\ Claimable(run[r])
  /\ \A q \in Runs \ skipped : Claimable(run[q]) => run[r].born <= run[q].born

\* remaining <= 0 once the time of the last owner is charged, up to its lease.
Exhausted(row) == row.remaining <= row.used

Leased(row) ==
  [Logged(Moved(row, "running")) EXCEPT
     !.generation = row.generation + 1, !.owner = row.generation + 1, !.lease = Lease,
     !.remaining = row.remaining - row.used, !.used = 0,
     !.expires = row.remaining - row.used]

SweepOnly(w, skipped) ==
  /\ worker[w].pc = "idle"
  /\ SweepFits(skipped)
  /\ ~ \E r \in Runs : IsNext(r, skipped)
  /\ run' = Swept(skipped)
  /\ UNCHANGED <<worker, lock, created>>

ClaimExhausted(w, skipped) ==
  /\ worker[w].pc = "idle"
  /\ SweepFits(skipped)
  /\ \E r \in Runs :
       /\ IsNext(r, skipped)
       /\ Exhausted(run[r])
       /\ CanClose(run[r], 1)
       /\ run' = [Swept(skipped) EXCEPT ![r] = Closed(@, "failed", 1)]
  /\ UNCHANGED <<worker, lock, created>>

\* run_claimed is an ordinary event: at EventLimit it raises RUN_EVENT_LIMIT
\* and the whole transaction, sweep included, is rolled back.
ClaimRun(w, skipped) ==
  /\ worker[w].pc = "idle"
  /\ SweepFits(skipped)
  /\ \E r \in Runs :
       /\ IsNext(r, skipped)
       /\ ~Exhausted(run[r])
       /\ CanLog(run[r])
       /\ run' = [Swept(skipped) EXCEPT ![r] = Leased(@)]
       /\ worker' = [worker EXCEPT ![w] =
            [Idle EXCEPT !.pc = "claimed", !.run = r,
                         !.gen = run[r].generation + 1, !.beating = TRUE]]
  /\ UNCHANGED <<lock, created>>

ClaimNext(w, skipped) ==
  \/ SweepOnly(w, skipped)
  \/ ClaimExhausted(w, skipped)
  \/ ClaimRun(w, skipped)

-----------------------------------------------------------------------------
(* A worker that holds a claim.                                            *)

\* owned(): the fence every call of a worker passes.  HoldsLease is the form
\* with allow_cancelling and without check_deadline that finish_failure uses.
HoldsLease(w) ==
  LET row == run[worker[w].run]
  IN  /\ row.owner = worker[w].gen /\ row.generation = worker[w].gen
      /\ row.lease > 0
      /\ row.state \in {"running", "cancelling"}

Owned_Bug(w) == HoldsLease(w) /\ run[worker[w].run].expires > 0   \* a stop request is ignored

Owned(w) ==
  /\ HoldsLease(w)
  /\ run[worker[w].run].state = "running"
  /\ run[worker[w].run].expires > 0

InRun(w) == worker[w].pc # "idle"
HomeOf(w) == run[worker[w].run].session

SetPc(w, pc) == worker' = [worker EXCEPT ![w].pc = pc]

Unlocked(w) == [s \in Sessions |-> IF lock[s] = w THEN NoWorker ELSE lock[s]]

LoadCheckpoint_Bug(w) ==   \* a successor starts from an empty checkpoint
  /\ worker[w].pc = "claimed"
  /\ SetPc(w, IF Owned(w) THEN "loaded" ELSE "failing")
  /\ UNCHANGED <<run, lock, created>>

\* execute_prepared: read the snapshot under the lease, then RunCheckpoint
\* loads the checkpoint; both calls check the lease.
LoadCheckpoint(w) ==
  /\ worker[w].pc = "claimed"
  /\ IF Owned(w)
     THEN worker' = [worker EXCEPT ![w].pc = "loaded",
                                   ![w].inputs = run[worker[w].run].inputs,
                                   ![w].receipt = run[worker[w].run].receipt]
     ELSE SetPc(w, "failing")
  /\ UNCHANGED <<run, lock, created>>

\* sessions.exclusive: the lock is tried, not awaited; RESOURCE_BUSY if held.
EnterSession(w) ==
  /\ worker[w].pc = "loaded"
  /\ IF lock[HomeOf(w)] = NoWorker
     THEN lock' = [lock EXCEPT ![HomeOf(w)] = w] /\ SetPc(w, "executing")
     ELSE lock' = lock /\ SetPc(w, "busy")
  /\ UNCHANGED <<run, created>>

\* The connection that holds the advisory lock drops; the thread goes on.
LoseSessionLock(w) ==
  /\ worker[w].pc \in {"executing", "leaving"}
  /\ Unlocked(w) # lock
  /\ lock' = Unlocked(w)
  /\ UNCHANGED <<run, worker, created>>

\* append(): an answer fragment or an agent event, under the lease.
EmitEvent(w) ==
  /\ worker[w].pc = "executing"
  /\ Owned(w)
  /\ CanLog(run[worker[w].run])
  /\ run' = [run EXCEPT ![worker[w].run] = Logged(@)]
  /\ UNCHANGED <<worker, lock, created>>

\* The answer, and the checkpoint as its owner loaded it.
Saved(row, p) ==
  [row EXCEPT !.answer = p.gen, !.revision = row.revision + 1,
              !.inputs = p.inputs, !.receipt = p.receipt]

\* The last transaction of execute_prepared, for an answer: message,
\* checkpoint, context_usage, usage and done events and the state together.
Publish(w) ==
  /\ worker[w].pc = "executing"
  /\ Owned(w)
  /\ CanClose(run[worker[w].run], 3)
  /\ run' = [run EXCEPT ![worker[w].run] = Saved(Released(Closed(@, "succeeded", 3)), worker[w])]
  /\ SetPc(w, "leaving")
  /\ UNCHANGED <<lock, created>>

Paused(row) ==
  [Logged(Released(Moved(row, "waiting"))) EXCEPT
     !.asked = row.asked + 1, !.resumeKey = row.revision + 1,
     !.remaining = row.remaining - row.used, !.expires = WaitLimit]

\* The same transaction for a clarification: pause().  The question becomes
\* the content of the message until the Run is resumed.
Clarify(w) ==
  LET row == run[worker[w].run]
  IN  /\ worker[w].pc = "executing"
      /\ Owned(w)
      /\ row.remaining > row.used
      /\ CanLog(row)
      /\ run' = [run EXCEPT ![worker[w].run] = Saved(Paused(@), worker[w])]
      /\ SetPc(w, "leaving")
      /\ UNCHANGED <<lock, created>>

\* An exception leaves the exclusive block, which frees the lock: a refused
\* call above, a workflow error, a sandbox that could not be cleaned, or a
\* row lock that was not free (RESOURCE_BUSY).
Raise(w) ==
  /\ worker[w].pc = "executing"
  /\ \E pc \in {"failing", "busy"}, unclean \in BOOLEAN :
       /\ unclean => pc = "failing"
       /\ worker' = [worker EXCEPT ![w].pc = pc, ![w].unclean = unclean]
  /\ lock' = Unlocked(w)
  /\ UNCHANGED <<run, created>>

\* The committed worker leaves the exclusive block and joins its heartbeat.
LeaveSession(w) ==
  /\ worker[w].pc = "leaving"
  /\ lock' = Unlocked(w)
  /\ worker' = [worker EXCEPT ![w] = Idle]
  /\ UNCHANGED <<run, created>>

Requeued(row) ==
  [Released(Moved(row, "queued")) EXCEPT
     !.remaining = row.remaining - row.used, !.lease = BusyDelay]

\* run_once after RESOURCE_BUSY: release_busy, or only a log line when the
\* lease, the deadline or a cancellation refuses it.
ReleaseBusy(w) ==
  /\ worker[w].pc = "busy"
  /\ run' = IF Owned(w)
            THEN [run EXCEPT ![worker[w].run] = Requeued(@)]
            ELSE run
  /\ worker' = [worker EXCEPT ![w] = Idle]
  /\ UNCHANGED <<lock, created>>

\* run_once after any other error: finish_failure, or only a log line.
FinishFailure(w) ==
  LET row == run[worker[w].run]
      to  == IF row.state = "cancelling" /\ ~worker[w].unclean
             THEN "cancelled" ELSE "failed"
  IN  /\ worker[w].pc = "failing"
      /\ run' = IF HoldsLease(w) /\ CanClose(row, 1)
                THEN [run EXCEPT ![worker[w].run] = Released(Closed(@, to, 1))]
                ELSE run
      /\ worker' = [worker EXCEPT ![w] = Idle]
      /\ UNCHANGED <<lock, created>>

\* The heartbeat thread: every lease/3 it extends the lease, and its first
\* refusal ends it.
Heartbeat(w) ==
  /\ InRun(w) /\ worker[w].beating
  /\ IF Owned(w)
     THEN run' = [run EXCEPT ![worker[w].run].lease = Lease] /\ UNCHANGED worker
     ELSE worker' = [worker EXCEPT ![w].beating = FALSE] /\ UNCHANGED run
  /\ UNCHANGED <<lock, created>>

\* A database error also ends the heartbeat thread, the execution goes on.
HeartbeatDies(w) ==
  /\ InRun(w) /\ worker[w].beating
  /\ worker' = [worker EXCEPT ![w].beating = FALSE]
  /\ UNCHANGED <<run, lock, created>>

\* The process dies and is restarted; PostgreSQL drops its advisory locks.
Crash(w) ==
  /\ InRun(w)
  /\ worker' = [worker EXCEPT ![w] = Idle]
  /\ lock' = Unlocked(w)
  /\ UNCHANGED <<run, created>>

-----------------------------------------------------------------------------
(* Time.                                                                   *)

Less(n) == IF n = 0 THEN 0 ELSE n - 1

\* active_since is charged until the lease runs out, not longer.
Aged(row) ==
  [row EXCEPT !.lease = Less(@), !.expires = Less(@),
              !.used = IF row.owner # 0 /\ row.lease > 0 THEN @ + 1 ELSE @]

Tick ==
  /\ run' = [r \in Runs |-> IF IsActive(run[r]) THEN Aged(run[r]) ELSE run[r]]
  /\ UNCHANGED <<worker, lock, created>>

-----------------------------------------------------------------------------
Worker(w) ==
  \/ \E skipped \in SUBSET Runs : ClaimNext(w, skipped)
  \/ LoadCheckpoint(w) \/ EnterSession(w) \/ LoseSessionLock(w)
  \/ EmitEvent(w) \/ Publish(w) \/ Clarify(w) \/ Raise(w) \/ LeaveSession(w)
  \/ ReleaseBusy(w) \/ FinishFailure(w)
  \/ Heartbeat(w) \/ HeartbeatDies(w) \/ Crash(w)

User ==
  \/ \E r \in Runs, s \in Sessions : Create(r, s)
  \/ \E r \in Runs : Read(r) \/ RequestCancel(r) \/ Resume(r, run[r].resumeKey)
  \/ \E s \in Sessions : DeleteSession(s)

Next == User \/ Tick \/ \E w \in Workers : Worker(w)

Spec == Init /\ [][Next]_vars

-----------------------------------------------------------------------------
(* Properties.                                                             *)

TypeOK ==
  /\ run \in [Runs -> Row]
  /\ worker \in [Workers -> Process]
  /\ lock \in [Sessions -> Workers \cup {NoWorker}]
  /\ created \in Nat

\* A session never has two active Runs (create looks for one under the session
\* row lock; ix_chat_runs_session_active backs it).
OneActiveRun ==
  \A q, r \in Runs :
    IsActive(run[q]) /\ IsActive(run[r]) /\ run[q].session = run[r].session => q = r

\* Whatever crashes, takeovers and races with a cancellation happen, the
\* journal of a Run has exactly one done, error or run_cancelled event when the
\* Run is over and none before.
OneEnding ==
  \A r \in Runs : run[r].endings = IF run[r].state \in Terminal THEN 1 ELSE 0

\* An active Run always has room left for its terminal events, so the transition
\* that ends it is never refused (the comment in _event).
RoomToEnd == \A r \in Runs : IsActive(run[r]) => CanClose(run[r], 3)

\* Two processes never both pass the fence of one Run, however late the first
\* one notices that its lease was taken over.
OneOwner ==
  \A v, w \in Workers :
    InRun(v) /\ InRun(w) /\ worker[v].run = worker[w].run
      /\ HoldsLease(v) /\ HoldsLease(w) => v = w

\* The checkpoint of a Run that may execute holds the user's answer to every
\* question the Run asked, and that of a waiting Run lacks just the last one: no
\* owner writes an older checkpoint over an accepted supplement.
SupplementsKept ==
  \A r \in Runs :
    /\ run[r].state \in {"queued", "running", "cancelling"} => run[r].asked = run[r].inputs
    /\ run[r].state = "waiting" => run[r].asked = run[r].inputs + 1

\* The message a user reads agrees with the Run: it says the Run's state, and a
\* succeeded Run shows the answer of its last generation.
MessageAgrees ==
  \A r \in Runs :
    /\ run[r].shown = run[r].state \/ run[r].state = "deleted"
    /\ run[r].state = "succeeded" => run[r].answer = run[r].generation /\ run[r].answer > 0

\* An owner that still passes the fence has budget left: neither a takeover nor
\* a pause nor a busy session hands out more time than the Run has.
DeadlineWithinBudget ==
  \A r \in Runs :
    run[r].state = "running" =>
      run[r].expires = 0 \/ run[r].expires + run[r].used <= run[r].remaining

(* The inductive invariant behind the theorems of RunStoreProofs.           *)

RowInv(row) ==
  /\ row.owner \in {0, row.generation}
  /\ row.state = "absent" => row.generation = 0 /\ row.inputs = 0
  /\ row.state \in {"queued", "waiting"} => row.owner = 0 /\ row.used = 0
  /\ row.state \in {"running", "waiting"} => row.generation > 0
  /\ row.state = "running" => row.owner = row.generation
  /\ row.endings = (IF row.state \in Terminal THEN 1 ELSE 0)
  /\ IsActive(row) => row.sequence <= EventLimit
  /\ row.state \in {"queued", "running", "cancelling"} => row.asked = row.inputs
  /\ row.state = "waiting" => row.asked = row.inputs + 1
  /\ row.shown = row.state \/ row.state = "deleted"
  /\ row.state = "succeeded" => row.answer = row.generation /\ row.answer > 0
  /\ row.state = "running" => row.expires = 0 \/ row.expires + row.used <= row.remaining

\* A claim is older than its Run or the current one; the checkpoint a current
\* owner works with is the one in the database.
ClaimInv(w) ==
  LET row == run[worker[w].run]
  IN  InRun(w) =>
        /\ worker[w].run \in Runs
        /\ worker[w].gen > 0
        /\ row.state # "deleted" => worker[w].gen <= row.generation
        /\ worker[w].pc \in {"loaded", "executing"} /\ worker[w].gen = row.generation
             /\ row.state \in {"running", "cancelling"}
             => worker[w].inputs = row.inputs

ClaimsDiffer ==
  \A v, w \in Workers :
    /\ v # w /\ InRun(v) /\ InRun(w) /\ worker[v].run = worker[w].run
    /\ run[worker[v].run].state # "deleted"
    => worker[v].gen # worker[w].gen

IInv ==
  /\ TypeOK
  /\ \A r \in Runs : RowInv(run[r])
  /\ \A w \in Workers : ClaimInv(w)
  /\ ClaimsDiffer

\* The budget of a Run only shrinks.
BudgetNeverGrows ==
  [][\A r \in Runs : IsActive(run[r]) => run[r]'.remaining <= run[r].remaining]_vars

\* What a Run ended as is final: no step changes its row again, except the
\* deletion of its session.
EndedIsFinal ==
  [][\A r \in Runs : run[r].state \in Terminal =>
       run[r]' = run[r] \/ run[r].state' = "deleted"]_vars

\* A process whose Run was leased to another one changes nothing in the row by
\* the calls that end its attempt: no answer, question, failure or requeue of a
\* superseded owner reaches the Run.
StaleOwnerHarmless ==
  [][\A w \in Workers :
       InRun(w) /\ worker[w].gen # run[worker[w].run].generation /\ worker'[w] # worker[w]
         => run'[worker[w].run] = run[worker[w].run]]_vars

\* The part of a row a user can tell apart.
PhaseOf(state) ==
  CASE state = "absent"                -> "none"
    [] state \in {"queued", "running"} -> "open"
    [] state = "waiting"               -> "asking"
    [] state = "cancelling"            -> "closing"
    [] state = "deleted"               -> "removed"
    [] OTHER                           -> state

LifeOf(row) ==
  [phase    |-> PhaseOf(row.state),
   attempts |-> row.generation,
   supplied |-> row.inputs,
   answer   |-> IF row.state = "succeeded" THEN row.answer ELSE 0]

Lifecycle == INSTANCE RunLifecycle WITH life <- [r \in Runs |-> LifeOf(run[r])]

\* The protocol of leases, takeovers, sweeps and checkpoints implements the
\* abstract life of a Run: in particular an accepted stop request is never
\* answered by a success, and only the latest attempt delivers.
ImplementsLifecycle == Lifecycle!Spec

IsOver(row) == row.state \in Terminal \cup {"deleted"}
IsHeld(row) == row.state = "running" /\ row.lease > 0 /\ row.expires > 0

\* What owned() decides for the calls of a worker, seen from the Run.
FenceOf(row) == [gen   |-> IF IsOver(row) THEN 0 ELSE row.generation,
                 state |-> IF IsOver(row) THEN "over"
                           ELSE IF IsHeld(row) THEN "held" ELSE "free"]

Fencing == INSTANCE RunFence WITH fence <- [r \in Runs |-> FenceOf(run[r])]

\* The lease protocol implements the fence a worker's calls rely on: no two
\* grants of a Run overlap or share a number, and a lost one never comes back,
\* whatever heartbeats, requests to stop and deadlines do.
ImplementsFence == Fencing!Spec

-----------------------------------------------------------------------------
(* Liveness.  Every execution slot polls, finishes the calls it makes (all  *)
(* have timeouts) and settles its Run; time passes; rows do not stay locked. *)
(* Users and failures are not fair.                                         *)

Fairness ==
  /\ WF_vars(Tick)
  /\ \A w \in Workers :
       /\ WF_vars(ClaimNext(w, {}))
       /\ WF_vars(LoadCheckpoint(w)) /\ WF_vars(EnterSession(w))
       /\ WF_vars(Publish(w) \/ Clarify(w) \/ Raise(w))
       /\ WF_vars(LeaveSession(w))
       /\ WF_vars(ReleaseBusy(w)) /\ WF_vars(FinishFailure(w))

FairSpec == Spec /\ Fairness

\* A Run whose journal is full and whose owner is gone: claim_next picks it,
\* fails to log run_claimed, and rolls back.
Stuck(r) == Claimable(run[r]) /\ ~Exhausted(run[r]) /\ ~CanLog(run[r])

\* Every accepted Run ends (an unanswered question expires), whatever crashes,
\* unless a Run with a full journal blocks the queue.
EveryRunEnds ==
  \A r \in Runs : IsActive(run[r]) ~> ~IsActive(run[r]) \/ \E q \in Runs : Stuck(q)

\* docs/durable-chat-runs.md, on the 8192 events of a Run: exceeding the limit
\* records RUN_EVENT_LIMIT and ends the Run.
FullJournalEnds ==
  \A r \in Runs : (IsActive(run[r]) /\ ~CanLog(run[r])) ~> ~IsActive(run[r])

=============================================================================
