------------------------------ MODULE MemorySync ------------------------------
(***************************************************************************)
(* The automatic memory of one user (app/service/automatic_memory.py,      *)
(* app/dao/postgres/automatic_memory.py, app/manager/openviking.py): the   *)
(* user's consent with its generation, the local rows of memories, and the *)
(* durable jobs by which worker processes send the user's messages to the  *)
(* OpenViking server, publish what it extracted and remove it again.       *)
(*                                                                         *)
(* The chat side asks, recalls and saves an answer (search, its recheck,   *)
(* validate_citations and enqueue_capture in the transaction of the        *)
(* answer).  The server is external: sessions named after capture jobs,    *)
(* one asynchronous extraction per commit, a space of files per            *)
(* generation.  A request takes effect before its reply or never; its      *)
(* reply may be lost.  A worker may stand still anywhere for longer than   *)
(* its lease, between the check of the lease and the request included.     *)
(***************************************************************************)
EXTENDS Naturals, Sequences, FiniteSets, FiniteSetsExt

CONSTANTS
  Messages,        \* messages of the user
  Uris,            \* files of memories
  Workers,         \* memory worker processes
  NoOne,           \* owner of a job that was never claimed
  MaxGeneration,   \* bound of the model: generations of the consent
  MaxAttempts,     \* 3: errors after which a job fails
  MaxFaults        \* bound of the model: crashes, stalls and failed requests

ASSUME MemoryAssumption ==
  /\ NoOne \notin Workers
  /\ MaxGeneration \in Nat \ {0} /\ MaxAttempts \in Nat \ {0} /\ MaxFaults \in Nat

VARIABLES
  consent,   \* rag.memory_settings; fresh: the messages since enabled_since
  memory,    \* [Generations -> [Uris -> state]]: rag.automatic_memories
  jobs,      \* rag.memory_sync_jobs in the order of created_at
  chat,      \* [Messages -> Chat]: a message and the Run that answers it
  remote,    \* [Messages -> Session]: the server's session of a capture
  space,     \* [Generations -> SUBSET Uris]: the server's files
  worker,    \* [Workers -> Worker]: what a process has in memory
  faults     \* crashes, stalls and failed requests so far

vars == <<consent, memory, jobs, chat, remote, space, worker, faults>>

Generations == 1..MaxGeneration
Jobs == DOMAIN jobs

LiveStates == {"pending", "running", "waiting"}
Consent == [enabled : BOOLEAN, gen : Generations, fresh : SUBSET Messages]
MemoryRows == {"none", "ready", "deleting", "deleted"}
\* on: the message of a capture, the file of a delete; task: the receipt has a
\* task_id; gone: source_removed; lease: lease_until lies ahead; old: created
\* longer ago than openviking_task_timeout.
Job == [kind : {"capture", "delete", "purge"}, gen : Generations,
        on : Messages \cup Uris \cup {NoOne},
        state : LiveStates \cup {"succeeded", "failed", "uncertain", "cancelled"},
        phase : {"new", "appending", "appended", "committing", "waiting"},
        task : BOOLEAN, gone : BOOLEAN, attempts : 0..MaxAttempts,
        owner : Workers \cup {NoOne}, lease : BOOLEAN, old : BOOLEAN]
\* gen: the generation the recall read; under: the generation the message was
\* written under, 0 if automatic memory was off (history).
Chat == [at : {"unsent", "asked", "recalling", "recalled", "answered", "refused", "erased"},
         gen : 0..MaxGeneration, got : SUBSET Uris, under : 0..MaxGeneration]
\* unticketed: a commit was answered without a task_id though it runs;
\* reopened: created again after it was removed (history).
Session == [at : {"none", "open", "filled", "removed"},
            task : {"none", "running", "completed", "failed"},
            put : SUBSET Uris, del : SUBSET Uris, unticketed : BOOLEAN,
            reopened : BOOLEAN, appends : 0..2, commits : 0..2]
Worker == [at : {"idle", "begin", "open", "opened", "append", "appended",
                 "resume", "commit", "receipt", "poll", "tombs", "publish",
                 "load", "inspect", "drop", "mark", "remove", "settle", "handler"},
           job : Nat, todo : SUBSET Nat,
           reply : {"none", "task", "skipped", "silent", "uncertain"}]

Idle == [at |-> "idle", job |-> 0, todo |-> {}, reply |-> "none"]

Init ==
  /\ consent = [enabled |-> FALSE, gen |-> 1, fresh |-> {}]
  /\ memory = [g \in Generations |-> [u \in Uris |-> "none"]]
  /\ jobs = <<>>
  /\ chat = [c \in Messages |-> [at |-> "unsent", gen |-> 0, got |-> {}, under |-> 0]]
  /\ remote = [c \in Messages |-> [at |-> "none", task |-> "none", put |-> {}, del |-> {},
                                   unticketed |-> FALSE, reopened |-> FALSE,
                                   appends |-> 0, commits |-> 0]]
  /\ space = [g \in Generations |-> {}]
  /\ worker = [w \in Workers |-> Idle]
  /\ faults = 0

-----------------------------------------------------------------------------
(* Jobs: enqueue, claim and the fence owned().                             *)

Live(j) == jobs[j].state \in LiveStates

\* enqueue: (generation, dedup_key) is unique, an existing row is left alone.
Enqueued(kind, g, x) ==
  IF \E j \in Jobs : jobs[j].kind = kind /\ jobs[j].gen = g /\ jobs[j].on = x
  THEN jobs
  ELSE Append(jobs, [kind |-> kind, gen |-> g, on |-> x, state |-> "pending",
                     phase |-> "new", task |-> FALSE, gone |-> FALSE, attempts |-> 0,
                     owner |-> NoOne, lease |-> FALSE, old |-> FALSE])

Preceded_Bug(j) == FALSE   \* jobs are claimed in any order

\* An older job of the same generation is not finished.
Preceded(j) == \E i \in 1..(j - 1) : jobs[i].gen = jobs[j].gen /\ Live(i)

\* available_at may keep an older job back, so any claimable row may be next.
Claim(w, j) ==
  /\ worker[w] = Idle
  /\ Live(j) /\ ~jobs[j].lease /\ ~Preceded(j)
  /\ jobs' = [jobs EXCEPT ![j].owner = w, ![j].lease = TRUE, ![j].state = "running"]
  /\ worker' = [worker EXCEPT ![w].at = IF jobs[j].kind = "capture" THEN "begin" ELSE "load",
                              ![w].job = j]
  /\ UNCHANGED <<consent, memory, chat, remote, space, faults>>

Held(w) == jobs[worker[w].job]

Owned(w) == Held(w).owner = w /\ Held(w).state = "running" /\ Held(w).lease

\* The worker is done with its job, or has found that it lost it.
Leave(w) == worker' = [worker EXCEPT ![w] = Idle]
Goto(w, at) == worker' = [worker EXCEPT ![w].at = at]

\* One of the writes that begin with owned(): the row becomes `row' and the
\* worker goes on as `after' says, or it has lost its lease and leaves.
Write(w, row, after) ==
  \/ Owned(w) /\ jobs' = [jobs EXCEPT ![worker[w].job] = row] /\ after
  \/ ~Owned(w) /\ Leave(w) /\ UNCHANGED jobs

\* _save_progress
Progress(w, phase, state) ==
  [Held(w) EXCEPT !.phase = phase, !.state = state, !.lease = (state = "running")]

\* The reply of a request arrives, or the request ends in an error after all.
Reply(w, at) ==
  \/ Goto(w, at) /\ UNCHANGED faults
  \/ faults < MaxFaults /\ faults' = faults + 1 /\ Goto(w, "handler")

-----------------------------------------------------------------------------
(* The user: consent, deletion and chat.                                   *)

\* _clear: the generation is retired, its rows blocked, its purge enqueued.
Retire ==
  /\ consent.gen < MaxGeneration
  /\ memory' = [memory EXCEPT ![consent.gen] =
       [u \in Uris |-> IF @[u] = "none" THEN "none" ELSE "deleting"]]
  /\ jobs' = Enqueued("purge", consent.gen, NoOne)

Enable ==
  /\ ~consent.enabled
  /\ consent' = [consent EXCEPT !.enabled = TRUE, !.fresh = {}]
  /\ UNCHANGED <<memory, jobs, chat, remote, space, worker, faults>>

Disable ==
  /\ consent.enabled
  /\ Retire
  /\ consent' = [enabled |-> FALSE, gen |-> consent.gen + 1, fresh |-> {}]
  /\ UNCHANGED <<chat, remote, space, worker, faults>>

\* The clear forgets to move enabled_since.
Cleared_Bug == [consent EXCEPT !.gen = @ + 1]

Cleared == [consent EXCEPT !.gen = @ + 1, !.fresh = {}]

Clear ==
  /\ Retire
  /\ consent' = Cleared
  /\ UNCHANGED <<chat, remote, space, worker, faults>>

Delete(u) ==
  /\ memory[consent.gen][u] # "none"
  /\ memory' = [memory EXCEPT ![consent.gen][u] = "deleting"]
  /\ jobs' = Enqueued("delete", consent.gen, u)
  /\ UNCHANGED <<consent, chat, remote, space, worker, faults>>

Ask(c) ==
  /\ chat[c].at = "unsent"
  /\ chat' = [chat EXCEPT ![c].at = "asked",
                          ![c].under = IF consent.enabled THEN consent.gen ELSE 0]
  /\ consent' = [consent EXCEPT !.fresh = @ \cup {c}]
  /\ UNCHANGED <<memory, jobs, remote, space, worker, faults>>

Ready(g) == {u \in Uris : memory[g][u] = "ready"}

\* search reads the consent and calls the server; an error means no hits.
Search(c) ==
  /\ chat[c].at = "asked"
  /\ consent.enabled /\ Ready(consent.gen) # {}
  /\ chat' = [chat EXCEPT ![c].at = "recalling", ![c].gen = consent.gen]
  /\ UNCHANGED <<consent, memory, jobs, remote, space, worker, faults>>

Recheck(c) ==
  /\ chat[c].at = "recalling"
  /\ chat' = [chat EXCEPT ![c].at = "recalled",
       ![c].got = IF consent.enabled /\ consent.gen = chat[c].gen
                  THEN Ready(chat[c].gen) ELSE {}]
  /\ UNCHANGED <<consent, memory, jobs, remote, space, worker, faults>>

\* Only the consent is looked at, not the row.
Citable_Bug(g, u) == consent.enabled /\ consent.gen = g

\* validate_citations
Citable(g, u) == consent.enabled /\ consent.gen = g /\ memory[g][u] = "ready"

\* The transaction that saves an answer: it may cite some of what was
\* recalled, and registers the message for capture unless it only asks back.
Answer(c, cited, clarification) ==
  /\ chat[c].at \in {"asked", "recalled"}
  /\ cited \subseteq chat[c].got
  /\ \A u \in cited : Citable(chat[c].gen, u)
  /\ chat' = [chat EXCEPT ![c].at = "answered", ![c].got = cited]
  /\ jobs' = IF ~clarification /\ consent.enabled /\ c \in consent.fresh
             THEN Enqueued("capture", consent.gen, c) ELSE jobs
  /\ UNCHANGED <<consent, memory, remote, space, worker, faults>>

\* MEMORY_SCOPE_CHANGED
Refuse(c, cited) ==
  /\ chat[c].at = "recalled"
  /\ cited \subseteq chat[c].got
  /\ \E u \in cited : ~Citable(chat[c].gen, u)
  /\ chat' = [chat EXCEPT ![c].at = "refused", ![c].got = {}]
  /\ UNCHANGED <<consent, memory, jobs, remote, space, worker, faults>>

\* The chat session is deleted with its messages.
Erase(c) ==
  /\ chat[c].at = "answered"
  /\ chat' = [chat EXCEPT ![c].at = "erased", ![c].got = {}]
  /\ UNCHANGED <<consent, memory, jobs, remote, space, worker, faults>>

User ==
  \/ Enable \/ Disable \/ Clear
  \/ \E u \in Uris : Delete(u)
  \/ \E c \in Messages :
       \/ Ask(c) \/ Search(c) \/ Recheck(c) \/ Erase(c)
       \/ \E cited \in SUBSET chat[c].got :
            Refuse(c, cited) \/ \E b \in BOOLEAN : Answer(c, cited, b)

-----------------------------------------------------------------------------
(* _capture: sending a message and publishing what was extracted from it.  *)

Consented(w) == consent.enabled /\ consent.gen = Held(w).gen

\* The message of the capture is still there.
Sourced(w) == chat[Held(w).on].at = "answered"

Interrupted_Bug == {"committing"}   \* an append is simply done again

\* The phases in which a request may have been carried out unheard.
Interrupted == {"appending", "committing"}

Begin(w) ==
  /\ worker[w].at = "begin"
  /\ \/ /\ ~(Consented(w) /\ Sourced(w))
        /\ Write(w, Progress(w, Held(w).phase, "cancelled"), Leave(w))
     \/ /\ Consented(w) /\ Sourced(w)
        /\ \/ /\ Held(w).phase \in Interrupted
              /\ Write(w, Progress(w, Held(w).phase, "uncertain"), Leave(w))
           \/ /\ Held(w).phase \notin Interrupted
              /\ Goto(w, CASE Held(w).phase = "appended" -> "resume"
                           [] Held(w).phase = "waiting" -> "poll"
                           [] OTHER -> "open")
              /\ UNCHANGED jobs
  /\ UNCHANGED <<consent, memory, chat, remote, space, faults>>

\* The session is created if the server does not know it.
Open(w) ==
  /\ worker[w].at = "open"
  /\ remote' = [remote EXCEPT ![Held(w).on].at =
         IF @ \in {"none", "removed"} THEN "open" ELSE @,
       ![Held(w).on].reopened = @ \/ remote[Held(w).on].at = "removed"]
  /\ Reply(w, "opened")
  /\ UNCHANGED <<consent, memory, jobs, chat, space>>

\* The writes of the receipt around the two requests that are not idempotent.
Record(w) ==
  /\ \/ /\ worker[w].at = "opened"
        /\ Write(w, Progress(w, "appending", "running"), Goto(w, "append"))
     \/ /\ worker[w].at = "appended"
        /\ Write(w, Progress(w, "appended", "running"), Goto(w, "resume"))
     \/ /\ worker[w].at = "resume"
        /\ Write(w, Progress(w, "committing", "running"), Goto(w, "commit"))
     \/ /\ worker[w].at = "receipt"
        /\ Write(w, [Progress(w, "waiting", "running") EXCEPT !.task = (worker[w].reply = "task")],
                 Goto(w, CASE worker[w].reply = "task" -> "poll"
                           [] worker[w].reply = "skipped" -> "publish"
                           [] OTHER -> "handler"))
  /\ UNCHANGED <<consent, memory, chat, remote, space, faults>>

Known(c) == remote[c].at \in {"open", "filled"}

AppendMessage(w) ==
  /\ worker[w].at = "append"
  /\ Known(Held(w).on)
  /\ remote' = [remote EXCEPT ![Held(w).on].at = "filled", ![Held(w).on].appends = @ + 1]
  /\ Reply(w, "appended")
  /\ UNCHANGED <<consent, memory, jobs, chat, space>>

\* The server starts an extraction and answers with its task_id or, against
\* its contract, without; or it says that there is nothing to extract.
Commit(w, reply) ==
  /\ worker[w].at = "commit"
  /\ Known(Held(w).on)
  /\ remote' = [remote EXCEPT ![Held(w).on].commits = @ + 1,
       ![Held(w).on].task = IF reply = "skipped" THEN @ ELSE "running",
       ![Held(w).on].unticketed = @ \/ reply = "silent"]
  /\ \/ /\ worker' = [worker EXCEPT ![w].at = "receipt", ![w].reply = reply]
        /\ UNCHANGED faults
     \/ /\ faults < MaxFaults /\ faults' = faults + 1
        /\ Goto(w, "handler")
  /\ UNCHANGED <<consent, memory, jobs, chat, space>>

\* A session that was removed is a 404.
Unknown(w) ==
  /\ worker[w].at \in {"append", "commit"}
  /\ ~Known(Held(w).on)
  /\ Goto(w, "handler")
  /\ UNCHANGED <<consent, memory, jobs, chat, remote, space, faults>>

Expired_Bug(j) == FALSE   \* a task is waited for without an end

\* openviking_task_timeout since the job was created.
Expired(j) == jobs[j].old

Poll(w) ==
  /\ worker[w].at = "poll"
  /\ LET task == remote[Held(w).on].task IN
     \/ /\ ~Held(w).task \/ task = "failed" \/ (task = "running" /\ Expired(worker[w].job))
        /\ Goto(w, "handler") /\ UNCHANGED jobs
     \/ /\ Held(w).task /\ task = "running" /\ ~Expired(worker[w].job)
        /\ Write(w, Progress(w, "waiting", "waiting"), Leave(w))
     \/ /\ Held(w).task /\ task = "completed"
        /\ Goto(w, "tombs") /\ UNCHANGED jobs
  /\ UNCHANGED <<consent, memory, chat, remote, space, faults>>

Blocked(g) == {u \in Uris : memory[g][u] \in {"deleting", "deleted"}}

\* Files that the extraction wrote over a tombstone are removed again.
RemoveTombstoned(w) ==
  /\ worker[w].at = "tombs"
  /\ space' = [space EXCEPT ![Held(w).gen] = @ \ Blocked(Held(w).gen)]
  /\ Reply(w, "publish")
  /\ UNCHANGED <<consent, memory, jobs, chat, remote>>

\* Every file the extraction wrote becomes a row that can be recalled.

\* Tombstones stay: only an unknown file becomes a row.
Published(rows, put, del) ==
  [u \in Uris |-> IF u \in del /\ rows[u] # "none" THEN "deleted"
                  ELSE IF u \in put /\ rows[u] = "none" THEN "ready" ELSE rows[u]]

\* _publish, under a lock on the consent.
Publish(w) ==
  /\ worker[w].at = "publish"
  /\ \/ /\ Owned(w)
        /\ jobs' = [jobs EXCEPT ![worker[w].job].lease = FALSE,
             ![worker[w].job].state = IF Consented(w) THEN "succeeded" ELSE "cancelled"]
        /\ memory' = IF Consented(w)
             THEN [memory EXCEPT ![Held(w).gen] =
                     Published(@, remote[Held(w).on].put, remote[Held(w).on].del)]
             ELSE memory
     \/ ~Owned(w) /\ UNCHANGED <<jobs, memory>>
  /\ Leave(w)
  /\ UNCHANGED <<consent, chat, remote, space, faults>>

-----------------------------------------------------------------------------
(* _cleanup: the jobs "delete" and "purge".                                *)

\* The captures of the generation that may have left something behind.
Load(w) ==
  LET todo == {j \in Jobs : /\ jobs[j].kind = "capture" /\ jobs[j].gen = Held(w).gen
                            /\ jobs[j].phase # "new" /\ ~jobs[j].gone} IN
  /\ worker[w].at = "load"
  /\ worker' = [worker EXCEPT ![w].todo = todo, ![w].at = "inspect"]
  /\ UNCHANGED <<consent, memory, jobs, chat, remote, space, faults>>

\* The next capture of the loop.
Current(w) == Min(worker[w].todo)

\* A commit without a receipt ends the cleanup; a running task holds it up.
Inspect(w) ==
  /\ worker[w].at = "inspect" /\ worker[w].todo # {}
  /\ LET capture == jobs[Current(w)]
         running == capture.task /\ remote[capture.on].task = "running"
         uncertain == capture.phase = "committing" /\ ~capture.task IN
     \/ /\ uncertain
        /\ worker' = [worker EXCEPT ![w].at = "handler", ![w].reply = "uncertain"]
        /\ UNCHANGED jobs
     \/ /\ ~uncertain /\ running /\ Expired(worker[w].job)
        /\ Goto(w, "handler") /\ UNCHANGED jobs
     \/ /\ ~uncertain /\ running /\ ~Expired(worker[w].job)
        /\ Write(w, Progress(w, Held(w).phase, "waiting"), Leave(w))
     \/ /\ ~uncertain /\ ~running
        /\ Write(w, Progress(w, Held(w).phase, "running"), Goto(w, "drop"))
  /\ UNCHANGED <<consent, memory, chat, remote, space, faults>>

\* remove_session; a session the server does not know is as good.
Drop(w) ==
  /\ worker[w].at = "drop"
  /\ remote' = [remote EXCEPT ![jobs[Current(w)].on].at = IF @ = "none" THEN @ ELSE "removed"]
  /\ Reply(w, "mark")
  /\ UNCHANGED <<consent, memory, jobs, chat, space>>

\* mark_source_removed, under the lock on the job
Mark(w) ==
  /\ worker[w].at = "mark"
  /\ \/ /\ Owned(w)
        /\ jobs' = [jobs EXCEPT ![Current(w)].gone = TRUE]
        /\ worker' = [worker EXCEPT ![w].at = "inspect", ![w].todo = @ \ {Current(w)}]
     \/ ~Owned(w) /\ Leave(w) /\ UNCHANGED jobs
  /\ UNCHANGED <<consent, memory, chat, remote, space, faults>>

Finish(w) ==
  /\ worker[w].at = "inspect" /\ worker[w].todo = {}
  /\ Write(w, Progress(w, Held(w).phase, "running"), Goto(w, "remove"))
  /\ UNCHANGED <<consent, memory, chat, remote, space, faults>>

\* The files the job is about.
Targets(w) == IF Held(w).kind = "purge" THEN Uris ELSE {Held(w).on}

Remove(w) ==
  /\ worker[w].at = "remove"
  /\ space' = [space EXCEPT ![Held(w).gen] = @ \ Targets(w)]
  /\ Reply(w, "settle")
  /\ UNCHANGED <<consent, memory, jobs, chat, remote>>

Settle(w) ==
  /\ worker[w].at = "settle"
  /\ \/ /\ Owned(w)
        /\ jobs' = [jobs EXCEPT ![worker[w].job].state = "succeeded", ![worker[w].job].lease = FALSE]
        /\ memory' = [memory EXCEPT ![Held(w).gen] = [u \in Uris |->
             IF u \in Targets(w) /\ @[u] # "none" THEN "deleted" ELSE @[u]]]
     \/ ~Owned(w) /\ UNCHANGED <<jobs, memory>>
  /\ Leave(w)
  /\ UNCHANGED <<consent, chat, remote, space, faults>>

-----------------------------------------------------------------------------
(* Errors, crashes, the server and time.                                   *)

\* What an error makes of a job.
Failed(row, uncertain) ==
  IF uncertain \/ row.phase \in Interrupted THEN "uncertain"
  ELSE IF row.attempts + 1 >= MaxAttempts THEN "failed" ELSE "pending"

\* The except clause of run_once
Handle(w) ==
  /\ worker[w].at = "handler"
  /\ \/ /\ Owned(w)
        /\ jobs' = [jobs EXCEPT
             ![worker[w].job].state = Failed(Held(w), worker[w].reply = "uncertain"),
             ![worker[w].job].attempts = @ + 1, ![worker[w].job].lease = FALSE]
     \/ ~Owned(w) /\ UNCHANGED jobs
  /\ Leave(w)
  /\ UNCHANGED <<consent, memory, chat, remote, space, faults>>

Step(w) ==
  \/ Begin(w) \/ Open(w) \/ Record(w) \/ AppendMessage(w)
  \/ \E reply \in {"task", "skipped", "silent"} : Commit(w, reply)
  \/ Unknown(w) \/ Poll(w) \/ RemoveTombstoned(w) \/ Publish(w)
  \/ Load(w) \/ Inspect(w) \/ Drop(w) \/ Mark(w) \/ Finish(w) \/ Remove(w) \/ Settle(w)
  \/ Handle(w)

\* A request without effect: the server is away or answers nonsense.
RequestFails(w) ==
  /\ faults < MaxFaults
  /\ worker[w].at \in {"open", "append", "commit", "poll", "tombs", "inspect", "drop", "remove"}
  /\ worker[w].at = "inspect" => worker[w].todo # {} /\ jobs[Current(w)].task
  /\ faults' = faults + 1
  /\ Goto(w, "handler")
  /\ UNCHANGED <<consent, memory, jobs, chat, remote, space>>

\* The process ends, or an exception other than an AppError is logged.
Crash(w) ==
  /\ faults < MaxFaults
  /\ worker[w] # Idle
  /\ faults' = faults + 1
  /\ Leave(w)
  /\ UNCHANGED <<consent, memory, jobs, chat, remote, space>>

\* Somebody still works on the job under its present owner_token.
Attended(j) == \E w \in Workers : worker[w].job = j /\ jobs[j].owner = w

\* 180 seconds pass: without a worker, or while the worker stands still.
LeaseEnds(j) ==
  /\ jobs[j].lease
  /\ \/ ~Attended(j) /\ UNCHANGED faults
     \/ Attended(j) /\ faults < MaxFaults /\ faults' = faults + 1
  /\ jobs' = [jobs EXCEPT ![j].lease = FALSE]
  /\ UNCHANGED <<consent, memory, chat, remote, space, worker>>

\* openviking_task_timeout passes.  Only the two polls look at the age of a
\* job, so it need only change when one of them is next.
Age(j) ==
  /\ ~jobs[j].old
  /\ \E w \in Workers : worker[w].job = j /\ worker[w].at \in {"poll", "inspect"}
  /\ jobs' = [jobs EXCEPT ![j].old = TRUE]
  /\ UNCHANGED <<consent, memory, chat, remote, space, worker, faults>>

GenerationOf(c) ==
  jobs[CHOOSE j \in Jobs : jobs[j].kind = "capture" /\ jobs[j].on = c].gen

\* The server's extraction ends: files written and removed, and if it
\* completed a list of them; or it failed, with some written all the same.
Extract(c, put, del, end) ==
  /\ remote[c].task = "running"
  /\ put \cap del = {} /\ del \subseteq space[GenerationOf(c)]
  /\ space' = [space EXCEPT ![GenerationOf(c)] = (@ \ del) \cup put]
  /\ remote' = [remote EXCEPT ![c].task = end,
       ![c].put = IF end = "completed" THEN put ELSE {},
       ![c].del = IF end = "completed" THEN del ELSE {}]
  /\ UNCHANGED <<consent, memory, jobs, chat, worker, faults>>

Next ==
  \/ User
  \/ \E w \in Workers :
       Step(w) \/ RequestFails(w) \/ Crash(w) \/ \E j \in Jobs : Claim(w, j)
  \/ \E j \in Jobs : LeaseEnds(j) \/ Age(j)
  \/ \E c \in Messages, put \in SUBSET Uris, del \in SUBSET Uris,
         end \in {"completed", "failed"} : Extract(c, put, del, end)

Spec == Init /\ [][Next]_vars

Working == \E w \in Workers : Step(w) \/ \E j \in Jobs : Claim(w, j)

\* Some worker goes on as long as there is work, leases of the dead end and
\* time passes.  The user and the server need never do anything.
FairSpec ==
  /\ Spec
  /\ WF_vars(Working)
  /\ SF_vars(\E j \in Jobs : Age(j))
  /\ WF_vars(\E j \in Jobs : ~Attended(j) /\ LeaseEnds(j))

-----------------------------------------------------------------------------
(* Properties                                                              *)

\* Every row and every process in memory has one of the states of the code.
TypeOK ==
  /\ consent \in Consent
  /\ memory \in [Generations -> [Uris -> MemoryRows]]
  /\ jobs \in Seq(Job)
  /\ chat \in [Messages -> Chat]
  /\ remote \in [Messages -> Session]
  /\ space \in [Generations -> SUBSET Uris]
  /\ worker \in [Workers -> Worker]
  /\ faults \in 0..MaxFaults

\* What can be recalled belongs to the generation the user consents to now:
\* no publication slips in behind a clear or a disable (_publish, _clear).
ReadyIsCurrent ==
  \A g \in Generations, u \in Uris :
    memory[g][u] = "ready" => consent.enabled /\ consent.gen = g

\* A deleted memory does not come back: no later extraction and no captured
\* message makes its row readable again (tombstones in _publish).
TombstonesStay ==
  [][\A g \in Generations, u \in Uris :
       u \in Blocked(g) => memory'[g][u] \in {"deleting", "deleted"}]_vars

\* However workers crash, stall and take over, a message is appended to the
\* server's session at most once and committed at most once (_capture).
WrittenOnce == \A c \in Messages : remote[c].appends <= 1 /\ remote[c].commits <= 1

\* A message is sent only under the generation it was written under: nothing
\* from before the consent or before a clear is captured (enqueue_capture).
OnlyConsented ==
  \A j \in Jobs : jobs[j].kind = "capture" => jobs[j].gen = chat[jobs[j].on].under

\* An answer that is saved cites only memories that are still there at that
\* moment, whatever happened since they were recalled (validate_citations).
AnswersCiteLiving ==
  [][\A c \in Messages :
       chat[c].at # "answered" /\ chat'[c].at = "answered" =>
         \A u \in chat'[c].got : memory[chat[c].gen][u] = "ready" /\ consent.enabled]_vars

\* Something of the capture of c is or will be on the server: the user's words,
\* or an extraction that writes files.
Remains(c) == (remote[c].at = "filled" /\ ~remote[c].reopened) \/ remote[c].task = "running"

CapturesOf(g) == {jobs[j].on : j \in {i \in Jobs : jobs[i].kind = "capture" /\ jobs[i].gen = g}}

Purged(g) == \E j \in Jobs : jobs[j].kind = "purge" /\ jobs[j].gen = g /\ jobs[j].state = "succeeded"

\* A purge that is reported as done is true and stays true: no files, no
\* session with the user's words and no extraction that would write files
\* (_cleanup).  Excepted are generations with a commit whose reply broke the
\* server's contract, which is saved as waiting (automatic_memory.py:213), and
\* sessions that a late worker created again after the purge had removed them:
\* one that stood still before it creates the session (:192), while another
\* that took the capture over stands still before it appends to it (:201).
PurgeTruth ==
  \A g \in Generations :
    Purged(g) /\ (\A c \in CapturesOf(g) : ~remote[c].unticketed) =>
      space[g] = {} /\ \A c \in CapturesOf(g) : ~Remains(c)

\* Every job ends, as succeeded, cancelled, failed or uncertain: none is
\* retried or waited for without an end, and none waits behind another for
\* ever (run_once, claim).
QueueDrains == []<>(\A j \in Jobs : ~Live(j))
=============================================================================
