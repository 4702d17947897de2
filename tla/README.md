# Verification of the learning QA assistant

TLA+ models of the back end under `src/app`, checked with TLC, and proofs of
their central theorems checked with TLAPS. All paths below are relative to
`src/`; `PROJECT.json` maps each definition to the lines it stands for.

## 1. The system

A retrieval-augmented question answering service: a FastAPI process (`app/web`,
`app/service`) accepts questions and documents, and separate worker processes
carry them out. There is no broker. PostgreSQL is the queue, the lock manager,
the journal and the only shared memory: workers claim rows with
`FOR UPDATE SKIP LOCKED`, hold them by a token, a generation and a lease they
must renew, and every write of a worker first passes a check of that fence
(`owned`). Model providers, the vector store, the sandbox and the memory server
are called over the network, outside any transaction.

### Components

| component | state it keeps | operations | talks to | what makes it correct |
|---|---|---|---|---|
| run store, run workers (`service/runs.py`, `manager/run_execution.py`, `run_worker.py`) | `chat_runs`, `chat_run_checkpoints`, journal `chat_run_events`; per slot: the claim, a heartbeat thread, the session lock | create, claim, heartbeat, checkpoint, publish, pause, resume, cancel, expire, settle, release, fail, delete | API, chat service, journal | one owner at a time, one ending, nothing of a user's input lost, no budget granted twice, every accepted Run ends |
| run operations (`begin_operation`, `complete_operation`, `manager/run_checkpoint.py`, `manager/agent_runtime.py`) | receipts `chat_run_operations` | begin, replay, retry, mark uncertain, confirm | run store, supervisor | a side effect goes out at most once; confirmed results are reused; the allowance of calls is per Run |
| chat service, sessions (`service/chat.py`, `service/sessions.py`) | messages, the session lock, the frozen scope of a Run | prepare, execute, publish, rename, delete | run store, documents, memory | what is published was allowed when it was published |
| event journal, outbox, SSE (`manager/run_events.py`, `web/routes.py`) | `chat_event_outbox`, subscriptions, a cursor per reader | append, dispatch, notify, replay | run store, browser | each reader sees every event once and in order, even if notifications are lost |
| ingestion queue (`service/ingestion_jobs.py`, `worker.py`) | `ingestion_jobs`, receipts `document_tasks` | enqueue, claim, heartbeat, release, finish, reconcile | ingestion, retirement | attempts are bounded, a superseded worker settles nothing |
| ingestion and publication (`service/ingestion.py`, `service/document_publication.py`) | documents, `document_indexes`, series of versions | upload, build, verify, activate, retry | vector store, parser | only verified indexes are readable; one current version |
| retirement (`service/document_tasks.py`) | documents, pins of Runs, parent tasks | retire, retire a series, clean, retry | queue, run store | an index a Run still reads is not cleaned |
| automatic memory (`service/automatic_memory.py`) | consent with a generation, memories, jobs with receipts | enable, clear, delete, capture, publish, purge | memory server | what a user withdrew is neither used nor recreated |
| evaluation (`service/evaluation_jobs.py`, `service/evaluation_worker.py`) | jobs with leases, cases, judge receipts | create, claim, run a case, judge, finish, defer, cancel | run store | a job ends, its Runs end with it, its report says what they said, no review is paid twice |
| supervisor (`service/agent/supervisor.py`, `service/agent/knowledge.py`, `manager/evidence.py`) | in memory: registry of sources, counters, the place in the workflow; in the database: receipts and the saved state of a paused Run | plan, search, grade, rewrite, delegate, repair, publish, pause | run operations, retrieval, tools | only accepted evidence is cited, limits span the Run, a successor replays to the same state |
| authentication (`service/auth.py`, `frontend/src/api.ts`) | sessions with the digest of one refresh token; a cookie, a Web Lock and an access token per tab | login, refresh, logout, logout everywhere | API, tabs | a refresh token works once; tabs of one browser do not end their own login |
| sharing and workspaces (`service/sharing.py`, `dao/queries/sharing.py`) | members, grants, libraries, bindings of versions | every change of them, and an answer given from a library | chat service | who was entitled when asked still is at the commit |
| capabilities (`service/capabilities.py`) | a catalogue in revisions: tools, skills, runtime policies | change, delete, show, freeze, validate | chat service, tools | a Run uses what was frozen and approved, as long as it is still allowed |
| sandbox (`service/sandbox.py`, `manager/sandbox.py`, `manager/sandbox_runner.py`) | containers, named after their call; receipts; files | create, start, collect, clean, reap | run store, container daemon | a live call keeps its container, a forgotten one goes, the report is understood |
| model center (`service/model_center.py`) | the configuration in revisions, health, records of calls | update (two interfaces), migrate, probe, snapshot | model runtime | a recorded call names the model it was made with |
| retrieval, loaders, providers | none that outlives a call | pure functions and I/O | everything above | |

### What is hard here

- A process may stall, die or lose its database connection anywhere; its lease
  runs out and another process continues from receipts. The first one may come
  back and go on.
- Requests of users (cancel, answer, delete) arrive at any point of that.
- Each transaction does several things (sweep, claim, log) and fails as a whole.
- The effects outside the database cannot be rolled back.
- Limits (journal, allowance of calls, attempts, time) are counted across owners.
- What a Run was given at its start (documents, grants, tools, models) changes while it
  works; each of these is checked in another place and under other locks.
- A reader in a browser sees all this through connections, notifications and tokens
  that may be lost.

`PROJECT.json` lists these hazards one by one, at the line where each bites, with
the properties that cover it.

## 2. Modules

| module | models | role |
|---|---|---|
| `RunLifecycle` | what a Run promises its user | abstract specification |
| `RunFence` | what a worker may rely on when `owned` lets it pass | abstract specification, interface of the next two |
| `RunStore` | `chat_runs` and its workers in detail | implements both |
| `RunOperations` | the calls of one Run and their receipts | uses `RunFence` as the environment |
| `SupervisorTurn` | the decisions of one Run: evidence, delegations, counters, replay | detailed |
| `DocumentStore` | the versions of a document: ingestion queue, build, publication, retirement | detailed, with a Run that reads |
| `MemorySync` | the automatic memory of a user: consent, chat, jobs, memory server | detailed |
| `EvaluationJobs` | jobs of the evaluation workbench, their cases, Runs and reviews | detailed, with an abstract Run |
| `AuthSession` | one login in the tabs of a browser | extended by the next |
| `RunStream` | journal, outbox, notifications, the stream and the tab that follows it | composed with `AuthSession` |
| `Sharing` | members, grants and bindings of a team, statement by statement | detailed, with answers |
| `Capabilities`, `Sandbox`, `ModelCenter` | what a Run is configured with and where its code runs | detailed |
| `RunStoreProofs`, `RunOperationsProofs`, `SupervisorTurnProofs`, `DocumentStoreProofs`, `MemorySyncProofs`, `EvaluationJobsProofs`, `RunStreamProofs`, `RunServicesProofs` | theorems about the modules they extend | TLAPS |
| `MCRunExecution`, `MCAnswerSources` | three modules each, side by side | instances |
| `MCSupervisorTurn`, `MCRunStream`, `MCSharing` | sets of model values for TLC | instances |

The two instances that hold several modules do not multiply their states: parts that
share no variable cannot influence one another, so the product of their behaviours shows
nothing that they do not show alone. The variable `part` is chosen at the start and only
the modules of that part move; the states of the instance are the union of the parts'.
An invariant or a step property of a module is then checked in every state of its part,
and in the initial state of the others. `ContainersGo`, the one liveness property among
them, is checked under `SandboxFairness`: no behaviour that follows another part is fair,
so that it speaks of the sandbox alone.

`RunOperations` instantiates `RunFence` and moves it with its actions `Grant`,
`Revoke` and `Close`; `RunStore` is shown to implement `RunFence`, so what
`RunOperations` assumes about leases, takeovers, requests to stop and deletions
is what the lease protocol provides. That is how the two large modules are
composed without multiplying their states. Both halves are theorems: `FenceRefinement`
says that `RunStore` implements the fence, `KeepsFence` that `RunOperations` moves it
by no other steps.

### RunStore

State: `run[r]` is the row of a Run together with its checkpoint, its journal
counters and the state its message shows; `worker[w]` is the program counter of an
execution slot with the claim it holds and whether its heartbeat thread lives;
`lock[s]` is the advisory lock of a session; `created` orders the queue.

Each action is one database transaction of the code, or one step of
`RunExecution.run_once` between two of them:

| action | code |
|---|---|
| `Create`, `Read`, `RequestCancel`, `Resume`, `DeleteSession` | the API calls |
| `ClaimNext` = `SweepOnly`, `ClaimExhausted` or `ClaimRun` | `claim_next` with the sweeps it makes first |
| `LoadCheckpoint`, `EnterSession`, `EmitEvent`, `Publish`, `Clarify`, `LeaveSession` | one execution |
| `Raise`, `FinishFailure`, `ReleaseBusy` | its failure paths |
| `Heartbeat`, `HeartbeatDies`, `LoseSessionLock`, `Crash`, `Tick` | time and faults |

Abstractions, each of which leaves the control of the code intact:

- Time advances in ticks; `lease`, `expires` and `remaining` are numbers of ticks
  that are left. The journal is limited in events, not also in bytes; the
  reserve for terminal events is kept.
- The owner token is named by the generation, the resume token by the revision of
  the checkpoint: both are fresh by construction in the code (`uuid4`).
- A transaction that raises is rolled back and is a disabled action.
  `SKIP LOCKED` and `LIMIT 10` are the set `skipped` of rows a claim passes over.
- There is one user; the per-user admission lock serialises creation anyway.
- The check of the session lock's connection before publishing is not required,
  which allows more behaviours than the code has.
- The in-process executor (`queued=False`) is not created by the application any
  more and is left out, with the branch of `expire` that serves it.
- A deleted session and one created later may share a model value.

### RunOperations

An attempt alternates model calls and the tool call the model asked for. The key
of a call is a digest of everything before it, so a call is named by the sequence
of outcomes its attempt has seen; a successor that sees other outcomes makes other
calls. `op` holds the receipts, `attempt[w]` is where an attempt stands between
`begin_operation`, the second check, the request itself and `complete_operation`,
`room` is what the journal still takes. The request (`Send`) has no guard: it
goes out even if the lease was lost since the last check. Its number of executions
(`sent` in the receipt) is history, as are `refused` and `answer`.

Abstractions: one round between two pauses; tool calls of one message one after
another, as `RunCheckpoint.ordered` enforces; no provider fallback; room counted
in units, where the event about produced files may need more than one; the lease
protocol is the fence. `OPERATION_ALREADY_RUNNING` and a receipt with other inputs
cannot occur in a sequential attempt whose keys are digests of the inputs.

### DocumentStore

State: `doc[d]` is the row of a version with the row of its index; `stored[d]` what
the vector store and the upload directory hold of it; `series` the pointer to the
current version; `job[d]` the one job a version has in the queue, `receipt[d]` the
history of its tasks (the last is the job's), `parent` the task of a series' retirement;
`worker[w]` is where a worker stands between the transactions and the remote calls of
`IngestionWorker.run_once`; `run` is a Run as far as versions can notice it.

| action | code |
|---|---|
| `Upload`, `Activate`, `Retry`, `Retire`, `RetireSeries` | requests of the owner |
| `Claim`, `Enter`, `ReleaseBusy`, `Finish` | the queue and the advisory lock |
| `Start` .. `Ready`, `BuildFails`, `FailWipe`, `Mark` | `IngestionService.process` and `_fail` |
| `Check`, `Purge`, `Unlink`, `Retired`, `StepFails` | `process_retirement` |
| `Pin`, `Lapse`, `ClaimRun`, `Validate`, `Search`, `Answer`, `EndRun` | a Run that pins versions |
| `Abandon`, `Crash`, `LoseLock`, `LoseLease`, `LeaseEnds` | guards that refuse, and faults |

A transaction that holds the row of the document is one action. A remote call is an
action of its own without a guard: it takes effect after a guard that held some time
before. A worker holds the advisory lock of its document as long as its connection
lives; `Held` is the guard it hands to each step. `late` remembers the versions a worker
wrote to after its connection had broken: the store has no fencing
(`docs/durable-ingestion.md:50` says so), and the properties about stored data except
these versions and no others.

`enqueue` reads the job without locking its row, and the object mapper writes only the
columns that differ from what was read. `Requeued` therefore has two outcomes when a
claim of the queued job may have committed in between (`SlippedIn`): the job is replaced, or
it keeps the worker's state, token and lease under the new kind and receipt. Because the
worker's next step needs the row of the document, which the request holds, this can only
concern a worker that has not begun; the model lets it happen before `Enter`.

Abstractions:

- Publication, versions and the durable queue are enabled and the settings do not
  change; the kind `hierarchy`, legacy deletion and adoption are left out. There is one series.
- `available_at` and the back-off are abstracted: a queued job may be claimed at any time.
- The generation in the metadata, a second fence behind the token, is not relied on.
- A call of a process that was killed has taken effect, or never will, before the next
  process takes the lock.
- The calls repeated with an old `retry_of` change nothing and are not actions.
- `reconcile` finds nothing: uploads enqueue in their own transaction.
- A waiting or cancelling Run pins like a queued or running one and is not told apart;
  `ClaimRun` may come at any time, where the code waits for a lease.
- Activation, build and retirement lock the index or the series before they decide, so
  that their transactions are atomic for one another.

### MemorySync

State: `consent` is the settings row, with the messages written since `enabled_since`;
`memory[g][u]` the row of a remembered file `u` in generation `g`; `jobs` the table of
synchronisation jobs in the order of creation, each with the phase of its receipt;
`chat[c]` a message from the question to the saved answer; `worker[w]` where a memory
worker stands in `run_once`. `remote` and `space` are the server: the session of each
capture with its extraction, and the files of each generation.

| action | code |
|---|---|
| `Enable`, `Disable`, `Clear`, `Delete` | requests of the user |
| `Ask`, `Search`, `Recheck`, `Answer`, `Refuse`, `Erase` | the chat: recall before and after the remote search, citations and capture in the transaction of the answer |
| `Claim`, `Begin`, `Open`, `Record`, `AppendMessage`, `Commit`, `Unknown` | sending a message: receipt, request, receipt |
| `Poll`, `RemoveTombstoned`, `Publish` | waiting for the extraction and publishing it |
| `Load`, `Inspect`, `Drop`, `Mark`, `Finish`, `Remove`, `Settle` | `_cleanup`, for a delete and for a purge |
| `Handle`, `RequestFails`, `Crash`, `LeaseEnds`, `Age` | errors, faults and time |
| `Extract` | the server ends an extraction, in success or failure |

Requests have no guard: a worker that stood still for longer than its lease sends them all
the same, and only the next write of a receipt notices. A worker that was late may so create
a session again that a purge has removed (`reopened`, history). What is assumed of the
server: a request takes effect before its reply or never (the extraction that a commit
starts goes on for as long as it likes); a session that was removed answers 404; a commit is
answered with a task, as skipped, or, against its contract, with neither.

Abstractions: contents, scores, versions of rows and rank fusion are left out; hits are
what is readable at the second check, of which an answer cites any part; `available_at` is
abstracted, so any claimable job may be next; a job's age changes just before a poll
looks at it, which is the only place where it matters; organisations and evaluations,
which never capture, are not distinguished from a question that only asks back.

### EvaluationJobs

State: `job`, `case` and `run` are the rows; `worker[w]` is the place of a process in
`run_once` with the case under way; `stops` are the Runs that the API still has to cancel
after it cancelled a job; `world` says whether the owner is still an administrator and the
frozen scope still valid. `asked` counts the requests to the judge (history).

| action | code |
|---|---|
| `Create`, `Cancel` with `CancelRun` and `ForgetStops`, `Revoke` | the administrator and the world |
| `Scan`, `Reconcile`, `Claim` | `claim_next` with `abandoned_runs` |
| `Start`, `NextCase`, `OpenCase`, `CreateRun`, `ReadRun`, `TakeRun` | `run_once`, `_case_run` |
| `Generate`, `CommitRun`, `ReleaseRun`, `StopRun`, `FailRun`, `Predict`, `DropRun` | `_generate` with `RunExecution` |
| `OpenReview`, `AskJudge`, `ConfirmReview`, `SaveCase`, `Finish` | `_judge`, `_save_case`, `_finish` |
| `Defer`, `Refused`, `Handle`, `Crash`, `LapseJob`, `LapseRun`, `ExpireRun` | errors, leases, faults |

Abstractions: time is the lapse of a lease, free if nobody renews it and a fault if its
holder stands still; the Run is what `RunStore` says of one (claimed, answered, waiting,
cancelled, failed), without its journal and budget; that a Run has no time left is a
fault; datasets exist from the start; the figures of a report are not computed. What a Run
said is an answer, a question or something malformed: the last cannot be made a prediction
(`EVALUATION_PREDICTION_INVALID`), the case is saved as failed without a review, and a waiting
Run is then not cancelled by `DropRun` but by the `Reconcile` after the job has ended.

### SupervisorTurn

State: `turn` is everything a process has in memory (`at` is the place in the workflow,
`entries` the registry of sources, `excluded` the rejected ones, and the counters); `log`
holds the receipts of the round and `pos` how many of them the process has been through;
`saved` is the state of a paused Run; `scope` says whether all that was frozen is valid.
`graded`, `spent` and `front` are history variables.

| action | code |
|---|---|
| `Start`, `Recall` | `execute_prepared`, the memories of the user |
| `Supervise`, `Repair` | the supervisor's calls, `parse` and `EvidenceRegistry.validate` |
| `Delegate` | `delegate`, `invoke_public_tool` |
| `Plan`, `Search`, `Grade`, `Rewrite` | `KnowledgeWorkflow.run` |
| `Work`, `UseTool` | the loop of another specialist and its tools |
| `Publish`, `Resume`, `Crash`, `Revoke`, `Denied` | the end of a round, faults, a scope that changed |

`AskModel` and `CallTool` are the two kinds of calls: replayed while receipts are left,
made and recorded otherwise, refused beyond the allowance. `Heard` and `Received` say what
the caller makes of the result.

Abstractions: all decisions of models are free. There is one model with one successor,
not one per role; a model that is unavailable costs a fault. `search_tools`,
`describe_skill` and the explicit saving of a memory register nothing and are left out; the
sandbox counts as a public tool. A call always reaches its receipt: the loss of one is
`RunOperations`' subject. A source is what it cites, and the token budget is a number
of sources.

### RunStream and AuthSession

State of `RunStream`: the events of the Run (`journal`), whether an outbox row waits,
whether the `LISTEN` connection is up, the stream as the server holds it (`conn`) with what
it has sent (`pipe`), and the tab (`reader`) with its cursor. State of `AuthSession`: the
row of the login, the cookie, the Web Lock, each tab's access token and place in `refresh`,
messages between tabs, and refresh requests that nobody waits for any more. `webLocks` says
whether the browser has Web Locks at all: without them each tab refreshes at once (`Turn`).
`lost` remembers that the answer to a refresh never came (history).

| action | code |
|---|---|
| `Work`, `Ask`, `Resume`, `End` | transactions of `RunStore` that log events |
| `Dispatch`, `Deafen`, `Listen` | the outbox and `RunEvents` |
| `Subscribe`, `Send`, `Wake`, `Reread` | `durable_stream` |
| `Fetch`, `Refreshed`, `Consume`, `EndOfStream`, `Disconnect`, `Reload` | `api.ts`, `sse.ts`, `resumeRun`, `recoverRun` |
| `Want`, `Acquire`, `Serve`, `Arrive`, `Deliver`, `Settle`, `Expire`, `LoseAnswer`, `ReloadTab`, `LogOut`, `LogOutAll`, `ServeStray` | `refresh` in the tabs and on the server |

`MaxFaults` also counts logouts, because each of them ends the story. Steps of the
sessions matter to the reader only when it is about to send a request or waits for a
token (`Account`); at other places they commute with the stream's. A token does not expire
between a refresh and the request it was made for.

### Sharing

State: the rows of an organisation, its members, its library, the grants and the bindings
of the versions of one document; each request has its plan of statements, its place and the
locks it holds. `OpenRequest`, `Execute`, `Commit` and `Abort` are the same for all operations:
`Plan` gives the statements in the order of the code, `Locks` what each locks and how,
`Passes` what it checks. `Ask` is a question whose answer is saved later under locks, about
any bound versions that it names, or about the current one if it names none.

Abstractions: one organisation, one library, one series whose versions are ready and
belong to `Author`; the lock on the document row (NOWAIT) and what a retirement does to
bindings are left out; reading the existing grant is merged with the commit; lists change
nothing. Creating an organisation is the initial state. A deadlock of locks is resolved by
PostgreSQL: `Abort` is its victim.

### Capabilities, Sandbox, ModelCenter

| module | state | actions |
|---|---|---|
| `Capabilities` | the retained catalogues (`history`), what administrators have seen and are changing, the role of the user, one Run | `Look`, `Change`, `Delete`, `Persist`; `Show`, `Freeze`, `Call`, `ValidateApproval`, `Save`, `Fail`; `Promote`, `Demote` |
| `Sandbox` | the Run's row, a worker's attempt, containers with their runner's report, receipts, files, what reapers hold | `Claim`, `Begin`, `CreateContainer`, `LateCreate`, `Start`, `Collect`, `GiveUp`, `Clean`, `SaveFiles`, `Confirm`, `Leave`; the runner: `ReadRequest`, `ExecuteCode`, `CollectFiles`, `Killed`; `Age`, `Guard`, `Reap`; `Lapse`, `Close`, `CrashWorker` |
| `ModelCenter` | the retained configurations (`versions`), health, a probe under way, what a Run froze | `Update`, `UpdateCatalog`, `Migrate`, `Probe`, `SaveProbe`, `Snapshot`, `CallModel` |

A `docker create` whose command was killed may still make its container when the clean-up has
already looked for it (`LateCreate`); the reapers find it then. A report has the fields that
`decode_result` compares: whether there is an error, whether the exit code is 0, success, and
whether files were left and one of them has a name longer than 256 characters.

A Run that chooses a profile by its identifier from a legacy configuration freezes the
catalogue made of it, and its calls are recorded as version 1 of that profile; a Run that does
not choose records none (`cataloged` of `Snapshot`).

Abstractions. `Capabilities`: secrets, roles other than administrator, search modes, digests
and a tool that borrows the name of the sandbox; roles change outside this code. `Sandbox`:
a container ages by a step; a reaper that fails only delays (it polls again); more than 64
old containers stop the clean-up with an alert, by design; the two slots of a process are
two processes; the ways in which saving a file can fail are one. `ModelCenter`: the expected revision is compared in the transaction that
changes the row, so the submission and the change are one action; defaults of providers,
fallbacks and other roles' assignments are content; the end of a call's record is left out.

## 3. Runs

| run | instance | what it shows |
|---|---|---|
| `run_execution` | `RunStore` with 1 Run, 2 processes, lease 2, budget 3, journal of 8 + 3; `Sandbox` with 2 processes, 2 calls, 2 faults, with fairness; `ModelCenter` with 2 profiles, 3 contents, 4 configurations | room to end, supplements, both refinements; live containers stay, forgotten ones go, reports are understood but for long names; calls identify models but for legacy slots that were changed |
| `run_store_queue` | 2 Runs, 2 sessions, 1 slot, lease 1, budget 2, journal of 3 + 3, with fairness | one active Run per session; every accepted Run ends |
| `run_store_full_journal` | 1 Run, 1 process | a violation: see section 5 |
| `run_operations_unconfirmed` | 1 process, 1 claim | a violation: see section 5 |
| `supervisor_turn` | modes auto and web, 1 fragment, 5 model calls, 3 tool calls, 2 searches, 2 delegations, 1 supplement, 1 fault, with fairness | only graded evidence is cited, limits span the Run, replay is exact, every round ends |
| `document_store_takeover` | 1 version, 2 workers, 2 batches, 2 attempts, 2 tasks, 2 claims of the Run, 1 fault, with fairness | readable is whole, retired is gone, no answer from a torn index, every task ends |
| `answer_sources` | `DocumentStore` with 2 versions, 1 worker, 3 tasks each, no faults; `Capabilities` with a tool, a skill and two policies, 2 administrators, 4 revisions; `RunOperations` with 2 processes, 3 claims, 2 model calls, 2 executions of a read, 4 receipts, room 0 to 4 | one published version, the parent's truth, no return; versions identify, approved as shown, allowed at the commit; no effect twice, an answer that knows its effects |
| `memory_recall` | `MemorySync` with 2 messages, 1 file, 1 worker, 2 generations, 2 attempts, no faults | nothing withdrawn is captured or cited |
| `memory_sync_takeover` | 1 message, 1 file, 2 workers, 2 generations, 3 attempts, 1 fault, with fairness | nothing is sent twice, a purge reported as done stays true but for what a late worker reopens, the queue drains |
| `evaluation_jobs` | 1 job, 1 case, 2 workers, 2 attempts, 2 reviews, 2 faults, with fairness | the report says what Run and reviewer said, malformed results included, no review is paid twice, job and Runs end |
| `run_stream` | 2 tabs, 2 events before the ending, batches of 1, 3 reconnections, 1 fault, with fairness | every event once and in order, with Web Locks a login ends itself only after a lost answer, following ends |
| `sharing` | 3 users, 2 versions, 2 requests at once | entitled at the commit, no lost replacement, grants of members only |

Why the bounds are enough. In the store of `run_execution` the lease is shorter than the
budget, so a Run is taken over and the second owner still has time; the journal has
room for a question, its answer, two takeovers and further events and is also
filled to its limit. Two processes are enough for a stale and a current owner; a
third would repeat the first. In `run_store_queue` two Runs compete for one
session or use two, and a single slot forces the queue. In the receipts of `answer_sources`
three claims allow a call to be begun, taken over, repeated and taken over again
while the first request is in flight; two model calls ask for a call and then for another
one or for the answer; the limits are as small as lets each be hit
from both sides, and all of `room` from 0 is tried, so that each event is refused
somewhere. `MaxClaims` and `MaxRoom` bound the model only; the code bounds claims
by the Run's time budget. Processes, versions and administrators are
interchangeable, hence the symmetry sets;
the runs with a liveness property use none.

In `supervisor_turn` five model calls let a delegation plan, grade, rewrite or fail and the
supervisor answer, be repaired or ask; the second search and the third tool call reach their
limits; a fragment is found, rejected, found again and accepted. The mode decides which
specialists there are; auto has all of them. In `document_store_takeover` one fault is
enough for two workers to hold the same job in turn, because a request also replaces a job
that is being worked on; two attempts let one be left over or used up; two batches make a
half-written index; two claims let a Run go on after it was past its deadline. In the
documents of `answer_sources` three tasks let each version be built, retried and retired,
while the other is, too; one worker suffices, because the orders that matter are those of
transactions on different versions. In `memory_recall` the first message makes the memory
that the second recalls, and the user may withdraw and renew consent between any two steps;
crashes are not needed for that. In `memory_sync_takeover` one fault is a crash or a stall
between a receipt and its request or the other way round, after which the second worker
takes over; two generations give one purge behind a capture in any phase.

In `evaluation_jobs` two faults let a process lose one lease and its successor crash, or
both leases lapse; a second job would add an order of claims, a second case a repetition. In
`run_stream` a batch of one row makes every read partial and the stream hang behind the
journal; a fault is a broken stream, a deaf listener, a lost answer, a reload or a logout.
In `sharing` two requests give every pair of plans in every order of statements; the founder
may not be demoted, `ann` owns the document, `bob` is any other member. In the capabilities
of `answer_sources` four revisions let a name be declared, changed or deleted and declared
again around a freeze; the second administrator edits what the first has changed. In the
sandbox of `run_execution` two faults take a container's process and then a reaper, or lose
a Run twice.

Deadlock is checked in `run_store_queue` and `evaluation_jobs`. A system of the other runs
may stop: the Run is over and its claims used up, all versions settled, all jobs ended, a
follower at its end, revisions used up.

Fairness. `RunStore`: time passes; each slot keeps polling
(`consume` loops for ever) and its claims are not for ever passed over, because
other transactions hold row locks only briefly; and each step of an execution that
stays possible is taken, because the code has a timeout on each external call. A crash,
a lost heartbeat or a lost connection is never required and never excluded.

`SupervisorTurn`: some process takes the Run up and goes on (that is `EveryRunEnds` of
`RunStore` and the timeouts of calls); the user need not supplement. `DocumentStore`: a live
worker goes on (every remote call has a timeout); a queued job is not passed over for ever,
because the queue is ordered by the time a job became available (strong fairness of its
claim, whoever makes it); a lease that nobody renews runs out; the deadline of a Run passes.
No owner owes a request, no Run owes an end, and no fault or error is required.
`MemorySync`: some worker goes on while there is work (`main` loops for ever, requests have
timeouts), time passes for a job that is polled again and again, and the lease of a job
nobody works on runs out. Extractions need not end. `EvaluationJobs`: each process goes on,
leases nobody renews lapse; neither the administrator nor the API process owes anything.
`RunStream`: requests are served, timers run out, the Run ends (`EveryRunEnds`). `Sandbox`:
Runs end and some worker polls its reaper between Runs; nothing is assumed of a process that
works on a call.

## 4. Theorems

`RunStoreProofs` proves for any number of Runs, sessions and workers and any
values of the limits that satisfy the named assumptions of `RunStore`:

- `Invariance`: `Spec => []IInv`. The properties are not inductive: that a stale
  owner is refused depends on a claim's generation being no later than the row's
  and on two claims of one Run having different generations; that no supplement
  is lost depends on a current owner holding the checkpoint in the database. `IInv`
  adds these (`ClaimInv`, `ClaimsDiffer`) to a row invariant (`RowInv`) that ties
  owner, generation, journal, message and budget to the state of the Run.
- `RoomIsKept` (`RoomToEnd`), `KeepsSupplements` (`SupplementsKept`) and `OneRunPerSession`
  (`OneActiveRun`), which runs check, from `Invariance`; and, proved for every instance so
  that no run is spent on them any more, `TypeCorrect`, `EndsOnce` (a Run has one ending),
  `OwnersDiffer` (two processes never both pass `owned`), `MessageIsCurrent` and
  `DeadlineIsBounded`.
- `BudgetShrinks`, `EndingsAreFinal`, `StaleOwnersAreHarmless`: action
  properties, one step per action, proved and not run either.
- `Refinement`: `RunStore` implements `RunLifecycle`, and `FenceRefinement`: it
  implements `RunFence`. Each action maps to a step of the abstract Run or fence
  or to a stutter.

The proof has a lemma for each change of a row (claimed, paused, resumed, expired,
settled, aged ...), each of which preserves `RowInv`; the step of an action cites
the lemma for its row and argues only about claims.

`RunOperationsProofs` proves, for any finite set of slots and any claims, results and limits:

- `SideEffectsOnce` (`SentAtMost`), by counting (`Counted`): the executions of a call that
  went out, and the attempts that may still send one, are together no more than the
  executions its receipt has begun, and a side effect is begun once. A late owner is counted
  until it has sent, so that nothing needs to be known about when it does.
- `EffectsAreKnown` (`AnswerKnowsEffects`), by replay (`OneLine`): as long as no event was
  refused, what any attempt has seen are the confirmed results of the calls before, so that
  the calls of all attempts lie on one line, whose end is the answer. `MarkedUnlessRefused`
  is a consequence: the second finding of section 5 has no other cause than a refused event.
- `KeepsFence`: the fence moves as `RunFence` allows, and `TypesHold`.

`SupervisorTurnProofs` proves, for any limits, chunks, modes, rounds and faults
`AnswersAreGraded` (`CitationsGraded`), `BudgetForTheRun` (`BudgetSpansRun`),
`TakeoversAreExact` (`ReplayExact`) and `TypesHold`. A memory dies with its process, so the
invariant says where memories come from: there is a sequence `tr` of them, the first of the
round in front, each made from the one before by the receipt between them (`Chain`), and the
process has in memory the one its position belongs to (`Abreast`). Replay is exact because
the sequence does not depend on who walks along it; limits span the Run because what was
spent is what the last memory of the sequence counts; citations are graded because in each
memory of it what the model may see or cite was accepted (`Vouched`).

`DocumentStoreProofs` proves for any finite set of versions, any workers and any limits:

- `Invariance`: `Spec => []IInv`. None of the properties is inductive. That the current
  version is published depends on versions that are absent, on their way out or gone not
  being current; that a retired version stays retired depends on its job being a retirement
  (so that retiring it again is refused) and on an ingestion that still owns that job never
  finding the version retired (`GoneInv`: who was given the retirement alone gets it that
  far); that a receipt is final depends on the last receipt of a job in the queue not having
  ended (`QueueInv`).
- `PointerCorrect` (`PointerAgrees`), `NoReturn` (`LeavesForGood`) and `HistoryKept`
  (`ReceiptsFinal`) follow from it.
- `StoreInvariance`: a lock has one holder, and the place of the holder tells what is stored
  (`Fit`): all batches before `Ready`, none before `Unlink`, nothing before `Retired`;
  without a holder the row tells it (`Kept`). A worker that has lost its lock may write at
  any time; the version it hits is from then on in `late` and excepted, as the store has no
  fencing. `ReadableIsWhole` (`ReadableWhole`) and `RetiredIsClean` (`RetiredClean`) are
  what the row tells.
- `AnswersFromWhole` (`AnswerFromWhole`): a Run that found something torn had pinned a
  version that was hit or that has left (`RunInv`). A version that left does not come back,
  so the check in the transaction of the answer sees it. That the pins counted is not
  needed.
- `ParentsAreTrue` (`ParentTruth`): the children and the versions that were gone before make
  all versions (`Adds`), a child is on its way out, and it succeeded only if its version is
  gone. The rest is arithmetic of finite sets. That an ingestion which still owns the job of
  a child reports itself as cancelled, not as succeeded, is what a test would hardly reach.
- `TypesHold` (`TypeOK`): attempts stay between 0 and `MaxAttempts` through claims,
  releases, waits for Runs and claims that slip into a request.

Each action is first reduced to what it does to a version (`RowStep`: working, verified,
chosen, replaced, leaving ...), to the receipts of a job (`TrailStep`), to the owner of a
job (`OwnerStep`) and to a worker (`SlotStep`). Those relations preserve the first invariant
and imply the two action properties. For what is stored, an action is a step of one worker
on one version: with the lock, without it, or one that releases it (`LockedStep`,
`LeftStep`, `ReleasedStep`).

`MemorySyncProofs` proves for any number of messages, files, workers and generations
`RecallIsCurrent` (`ReadyIsCurrent`) and `DeletedStays` (`TombstonesStay`). Every step is
reduced to what it does to a row (`RowStep`: kept, blocked, or written for the first time
under the consent that holds now) and to the consent (`ConsentStep`: kept, given, or its
generation left with no row readable). Where the workers are, and who owns a job, does not
matter: the comparison of generations under the lock on the consent is what protects the
user. The invariant is `ReadyIsCurrent` with the types of these two.

About the jobs it proves `SentOnce` (`WrittenOnce`), `CapturedUnderConsent`
(`OnlyConsented`), `PurgesAreTrue` (`PurgeTruth`), `CitesLiving` (`AnswersCiteLiving`) and
`TypesHold`. Here the places of the workers matter, and the invariant has three parts.
`Structure`: a job fits what it is about, there is one capture for a message, and no job is
claimed before those of its generation ahead of it have ended. `Sending`: what a worker is
about to send has not been sent, though it may have lost the job, because the receipt was
written before the request and each phase is passed once. `Cleaning`: whatever a purge has
been through is finished (`Done`): nobody owns it, no extraction is under way and no session
is left. One lemma per action shows what the step is for everybody else (`Move`); the three
parts follow from that for the other workers, and from the step itself for the one that
takes it.

`EvaluationJobsProofs` proves, for any numbers of jobs, cases, processes, attempts and
faults, `ReportsAreTrue` (`ReportTruth`), `ReviewsPaidOnce` (`ReviewPaidOnce`) and
`TypesHold`. A process keeps what it has read while its job is taken over, cancelled or
ended by others. The invariant therefore separates what stays true of a Run whoever holds
the job (`WorkerOK`: an answer stays an answer) from what is true only for the holder
(`HolderOK`: the cases it has been through are settled, a review it is about to ask was not
asked). A step that finds it no longer holds the job needs the first alone.

`RunStreamProofs` proves, for any tabs, events, batches, reconnections and faults,
`EventsOnce` (`EveryEventOnce`), `ReplayAfterLoss` (`ReplayNeedsLoss`) and `TypesHold`. What
is on its way lies between the cursor of the reader and that of the connection, in order and
without a gap (`Following`), whatever notifications did. In a browser with Web Locks at most
one tab renews the login at a time, and as long as no answer was lost the cookie holds the
current token (`Undisturbed`). Without Web Locks two tabs may send the same token, and the
server takes the second for a replay although nothing was lost: the theorem excepts that case,
and only that.

`RunServicesProofs` proves about `Sharing`, for any users, versions and requests,
`CommitsAreEntitled` (`EntitledAtCommit`), `PublishersSawTheVersion` (`ReplacesWhatWasSeen`)
and `GrantsBelongToMembers` (`GrantsOfMembers`). The properties speak of the end of a
request, the invariant of each statement it has passed (`FactInv`): what the statement read
is still so, and the locks it took are held. The argument is the one of two-phase locking:
locks of different requests do not conflict (`LockInv`), what a commit changes is locked for
an update or was not there (`CommitEffects`), so the facts of the others stay
(`OthersKeepFacts`). The gap it has to close is the row that is not there and cannot be
locked: an invitation (`TargetInv`) has a second case, which the primary key decides
(`Collides`).

It proves about `Capabilities`, for any names, declarations and administrators,
`VersionsAreUnique` (`VersionsIdentify`), `CallsWereApproved` (`ApprovedAsShown`) and
`CommitsAreAllowed` (`AllowedAtCommit`). Each change of the catalogue makes an entry follow
the one before it; the closure of that relation (`Precedes`) is what any two retained
revisions satisfy: a version grows with each change and a name that was removed stays
removed. What a Run froze is then compared with today's entry by its version alone.

About `Sandbox` it proves, for any processes, calls and faults, `LiveContainersStay`
(`LiveContainerStays`) and `ReportsAreUnderstood` (`ReportsUnderstood`). The first needs only
that a reaper's lock and a live owner exclude each other (`GuardInv`); the second needs what
a container has to report at each place of its runner (`ReportInv`), and that nobody makes a
container twice for one call (`CreateInv`), also not one that comes late. It states exactly
which reports are refused: successes with a name that is too long.

About `ModelCenter` it proves, for any profiles, contents and number of changes,
`RecordedCallsIdentifyModels` (`CallsIdentifyModels`): schema 2 is never left, and in two
retained catalogues the version of a profile is not smaller in the later one, and equal only
if the profile is. That a name which was removed cannot come back (`WasUsed`) is what makes
this inductive. The slots of a legacy configuration are all version 1 (`LegacyInv`), so that
what a Run froze from one is what the first catalogue says of it, unless an update changed the
slot in between (`SlotChanged`, the exception of the theorem). `Capabilities`, `Sandbox` and `ModelCenter` are checked as parts of a
composed instance; each group of theorems is about the specification made of the module's own
initial predicate and next-state relation. The same holds for `RunOperations`.

The assumptions are the named `ASSUME`s of the modules, which TLC evaluates in the runs;
they say that limits are numbers, that some sets are finite or disjoint and that the marker
for nobody is nobody. The bounds of the models (claims, faults, revisions) are arbitrary in
the theorems.

Every safety property that a run checks is a theorem. Only model-checked are the liveness
properties (`EveryRunEnds`, `EveryTaskEnds`, `QueueDrains`, `TurnEnds`, `JobsAndRunsEnd`,
`FollowEnds`, `ContainersGo`), which need fairness and ENABLED, out of reach of the installed
provers, and the two violations of section 5. `ReceiptsFinal`, `ReadyIsCurrent`,
`TombstonesStay`, the other properties of `RunStore` listed above and the type invariants are
proved and not run any more. Where a proof needs an induction (the first worker that ..., the
earliest receipt that ...), it takes the least member of a set of numbers instead, because the
induction theorems of the library cannot be instantiated.

## 5. Findings

- **A full journal is never ended** (`run_store_full_journal`). `claim_next` logs
  `run_claimed` as an ordinary event. If the owner of a Run dies after the last
  ordinary event was written, each later claim raises `RUN_EVENT_LIMIT` and rolls
  back. The Run stays active; as the oldest claimable one it blocks all younger
  ones, and the expiry and settlement in the same transaction are rolled back with
  it. `docs/durable-chat-runs.md:48` says that exceeding the limit ends the Run.
  Only a user's cancellation helps, once the lease is over.
- **An executed side effect can stay unmarked** (`run_operations_unconfirmed`).
  `complete_operation` confirms the receipt and logs ordinary events in one
  transaction. If the journal refuses one, the receipt is rolled back to `started`;
  `RUN_EVENT_LIMIT` is no control error, so the tool reports a failure to the
  model and the Run may be answered. `docs/durable-run-execution.md:29` promises that
  an unconfirmed side effect is marked uncertain. Until the Run ends, the effect is
  not repeated (`SentAtMost` holds), but nobody is told that it happened.
Observed while modelling; the models contain this behaviour, and properties that hold say
what it does not harm:

- *A queued Run loses what it pinned.* `count_active_pins` (`service/document_tasks.py:72`)
  counts Runs whose `expires_at` lies ahead. A Run that waits in the queue for longer
  is claimed later with a new deadline; until then its pins do not count, so that the
  clean-up may remove the version and the Run fails with `DOCUMENT_SCOPE_CHANGED`. No wrong
  answer results (`AnswerFromWhole`).
- *A claim survives its replacement.* If a worker claims a
  queued ingestion while a request to retire the version has already read the job
  (`service/ingestion_jobs.py:63`), the request's assignments equal what it read and are not
  written. The worker keeps a valid token on the retirement and settles it as its own
  ingestion: cancelled. The version stays `deleting` until its owner retries; nothing is
  lost or revived (`LeavesForGood`, `RetiredClean`).
- *A purge is certified without a receipt.* A commit that is
  answered without a `task_id` is saved as `waiting` before the reply is found invalid
  (`service/automatic_memory.py:213`). A later purge takes it for ended and
  succeeds while the extraction may still run and write files. It needs a server that breaks
  its contract; `PurgeTruth` excepts these generations. What such a
  generation holds is not recalled (theorem `RecallIsCurrent`).
- *A session comes back after its purge.* One worker stands still between its look for the
  session and its creation (`service/automatic_memory.py:192`), a second one takes the capture
  over and stands still before it appends (`:201`), and a purge finds nobody at work and
  removes the session. The first creates it again, the second appends to it; no later step
  removes it, although cleanup is to delete source sessions (`docs/openviking-memory.md`,
  item 6). Both writes of receipts then fail, so that nothing is committed or extracted, and
  what is in the session is never recalled. `PurgeTruth` excepts the words in such a session,
  and nothing else of it.
- *A long name makes a success a protocol error.* The runner lets five names of 64 characters
  each make a path (`manager/sandbox_runner.py:138`), 324 with the separators; `decode_result`
  takes no more than 256 (`manager/sandbox.py:307`). A program that leaves such a file has its
  successful report replaced by `SANDBOX_PROTOCOL_ERROR`. `ReportsUnderstood` says that no
  other report is refused.
- *Version 1 of a legacy profile can name two models.* A Run that chooses a profile from a legacy
  configuration records it as version 1 (`service/model_center.py:160`). Legacy updates change
  slots without counting, and the first catalogue starts with version 1 of what they left
  (`:292`, `:298`). `CallsIdentifyModels` excepts calls whose slot was changed in that way.
- *Tabs without Web Locks end their own login.* `refresh` takes the lock only where
  `navigator.locks` exists (`frontend/src/api.ts:44`). Elsewhere two tabs whose tokens run out
  together send the same refresh token, and the second one revokes the login
  (`service/auth.py:169`). `ReplayNeedsLoss` excepts such browsers.
- *A question is cancelled before it is judged.* `_generate` cancels the waiting Run of a
  clarification (`service/evaluation_worker.py:139`) before the case is reviewed and saved.
  If the process dies in between, its successor finds a cancelled Run and records a failed
  generation for what was a question; `ReportTruth` allows this for questions only.
- *Version 1 superseded unbuilt.* If version 2 is activated while version 1, which is
  current, is still unbuilt, the index of version 1 becomes `superseded`, and from then
  on its build is refused as immutable.
- *An older supplement cannot be repeated.* The receipt of a supplement is overwritten by
  the next one; a client that repeats the older one after a lost answer is told
  `RESUME_CONFLICT` although it was accepted. Its content is kept (`SupplementsKept`).

## 6. Plan

Done: the modules, runs and theorems above; every safety property a run checks is proved. What
is left would add, in this order:

1. Refinements by name of what is now a set of properties: an abstract specification of the
   ingestion queue (a task is accepted, tried a bounded number of times and ends once),
   implemented by `DocumentStore` as `RunLifecycle` is by `RunStore`.
2. A stronger form of the exception for writes without a lock (`late`): that a version which
   was hit is whole again once it has been built anew by a worker that kept its lock.
3. Pure algorithms (rank fusion, hierarchies) against reference definitions, if their
   floating-point scores are replaced by an order.

## 7. Not modelled, and why

Loaders, parsers, the vector store, providers, embeddings and searches are I/O
against other systems and appear as nondeterministic outcomes. Prompts, routing and
ranking have no state. Configuration, migrations and start-up run once. Registration,
hashing, signatures and rate limits are local to a request. The frontend beyond the
stream and the refresh is a client: its retries are the repeated requests the models allow at
any time. The in-process executor of `RunStore` is not created by the application any more.
The parts of modelled components that are left out are named under each module in section 2
and in the notes of `PROJECT.json`.
