---------------------------- MODULE EvaluationJobs ----------------------------
(***************************************************************************)
(* The evaluation workbench (app/service/evaluation_jobs.py,               *)
(* evaluation_worker.py, evaluation_judge.py): durable jobs of an          *)
(* administrator, each with cases that worker processes answer one after   *)
(* another.  A case is answered by a durable Run of its own and reviewed   *)
(* by a judge model under a receipt.  The process that works on a job      *)
(* holds two leases, on the job and on the Run, and may lose either.       *)
(*                                                                         *)
(* Time is abstracted to the lapse of a lease: a lease that its holder     *)
(* keeps renewing never lapses, one whose holder died or lost the job      *)
(* does, and a process may stand still for longer than its leases.  Every  *)
(* step is one transaction or one call of a model; a call's check of the   *)
(* lease and the start of the request are one step.                        *)
(***************************************************************************)
EXTENDS Naturals, FiniteSets, FiniteSetsExt

CONSTANTS
  NumJobs,      \* jobs, in the order of created_at
  NumCases,     \* cases of every job, in the order of position
  Workers,      \* evaluation worker processes
  NoWorker,     \* owner of a row without a token
  QueueLimit,   \* evaluation_queue_limit
  MaxAttempts,  \* 3: claims of a job that are not given back
  MaxReviews,   \* 3: calls of the judge for a case
  MaxFaults     \* bound of the model: crashes, stalls and failed calls

ASSUME EvaluationAssumption ==
  /\ NumJobs \in Nat \ {0} /\ NumCases \in Nat \ {0} /\ NoWorker \notin Workers
  /\ QueueLimit \in Nat /\ MaxAttempts \in Nat \ {0}
  /\ MaxReviews \in Nat \ {0} /\ MaxFaults \in Nat

VARIABLES
  job,      \* [Jobs -> Job]: rag.evaluation_jobs
  case,     \* [Cases -> Case]: rag.evaluation_cases
  run,      \* [Cases -> Run]: rag.chat_runs of kind "evaluation"
  worker,   \* [Workers -> Worker]: what a process has in memory
  stops,    \* Runs the API still has to cancel after cancelling a job
  world,    \* the owner is an active administrator; the scope is as frozen
  asked,    \* [Cases -> Nat]: reviews requested from the judge (history)
  faults    \* crashes, stalls and failed calls so far

vars == <<job, case, run, worker, stops, world, asked, faults>>

Jobs == 1..NumJobs
Cases == Jobs \X (1..NumCases)

Active == {"queued", "running", "cancelling"}
Terminal == {"succeeded", "failed", "cancelled"}
LiveRun == {"queued", "running", "waiting", "cancelling"}

Job == [state : {"absent"} \cup Active \cup Terminal,
        owner : Workers \cup {NoWorker}, lease : BOOLEAN, attempts : 0..MaxAttempts]

\* What a result rests on: an answer, a question of the assistant (clarification),
\* a message that is no valid prediction, the failure of the Run or of the review.
Verdicts == {"none", "answer", "question", "malformed", "generation", "review"}
Case == [state : {"queued", "running", "succeeded", "failed", "cancelled"},
         receipt : {"none", "started", "succeeded", "failed"}, tries : 0..MaxReviews,
         verdict : Verdicts]

\* said: the assistant's message of the Run, which stays if the Run is cancelled.
RunStates == {"none", "interrupted"} \cup LiveRun \cup Terminal
Run == [state : RunStates,
        owner : Workers \cup {NoWorker}, lease : BOOLEAN,
        said : {"none", "answer", "question", "malformed"}]

\* saw: the state of the Run when it was read last.
Worker == [at : {"idle", "reconcile", "claim", "start", "next", "case", "create",
                 "read", "take", "generate", "commit", "busy", "fail", "stopRun", "endRun",
                 "reread", "result", "drop", "judge", "ask", "confirm", "save", "finish",
                 "defer", "deferLost", "handler"},
           job : 0..NumJobs, todo : SUBSET (1..NumCases), stale : SUBSET Cases,
           saw : RunStates,
           verdict : Verdicts]

Idle == [at |-> "idle", job |-> 0, todo |-> {}, stale |-> {}, saw |-> "none", verdict |-> "none"]

Init ==
  /\ job = [j \in Jobs |-> [state |-> "absent", owner |-> NoWorker, lease |-> FALSE, attempts |-> 0]]
  /\ case = [c \in Cases |-> [state |-> "queued", receipt |-> "none", tries |-> 0, verdict |-> "none"]]
  /\ run = [c \in Cases |-> [state |-> "none", owner |-> NoWorker, lease |-> FALSE, said |-> "none"]]
  /\ worker = [w \in Workers |-> Idle]
  /\ stops = {}
  /\ world = [admin |-> TRUE, scope |-> TRUE]
  /\ asked = [c \in Cases |-> 0]
  /\ faults = 0

-----------------------------------------------------------------------------
(* Rows of jobs, cases and Runs.                                           *)

Ended(j, state) == [job[j] EXCEPT !.state = state, !.owner = NoWorker, !.lease = FALSE]

Closed_Bug(j, state) == case   \* the cases keep their state

\* EvaluationService._finish: the cases without a result end with the job.
Closed(j, state) ==
  [c \in Cases |->
    IF c[1] = j /\ case[c].state \in {"queued", "running"}
    THEN [case[c] EXCEPT !.state = IF state = "cancelled" THEN "cancelled" ELSE "failed"]
    ELSE case[c]]

\* RunStore.request_cancel: a Run nobody executes is cancelled at once.
CancelledRun(r) ==
  IF r.state \notin LiveRun \ {"cancelling"} THEN r
  ELSE [r EXCEPT !.state = IF r.state \in {"queued", "waiting"} \/ r.owner = NoWorker \/ ~r.lease
                           THEN "cancelled" ELSE "cancelling"]

SettledRun_Bug(r) == r   \* a cancellation waits for its dead holder

\* RunStore.settle_cancellations
SettledRun(r) ==
  IF r.state = "cancelling" /\ (r.owner = NoWorker \/ ~r.lease)
  THEN [r EXCEPT !.state = "cancelled", !.owner = NoWorker, !.lease = FALSE] ELSE r

\* RunStore.lock_next_run
Takeable(r) == r.state = "queued" \/ (r.state = "running" /\ ~r.lease)

-----------------------------------------------------------------------------
(* The administrator and the world.                                        *)

\* The scope is ready and authorized, the idempotency key is new.
Create(j) ==
  /\ job[j].state = "absent" /\ \A i \in 1..(j - 1) : job[i].state # "absent"
  /\ world.admin /\ world.scope
  /\ Cardinality({i \in Jobs : job[i].state \in Active}) < QueueLimit
  /\ job' = [job EXCEPT ![j].state = "queued"]
  /\ UNCHANGED <<case, run, worker, stops, world, asked, faults>>

\* The job is cancelled in one transaction, its Runs afterwards one by one.
Cancel(j) ==
  /\ world.admin /\ job[j].state \in Active
  /\ \/ /\ job[j].state = "queued"
        /\ job' = [job EXCEPT ![j] = Ended(j, "cancelled")]
        /\ case' = Closed(j, "cancelled")
     \/ /\ job[j].state # "queued"
        /\ job' = [job EXCEPT ![j].state = "cancelling"]
        /\ UNCHANGED case
  /\ stops' = stops \cup {c \in Cases : c[1] = j /\ run[c].state # "none"}
  /\ UNCHANGED <<run, worker, world, asked, faults>>

CancelRun(c) ==
  /\ c \in stops
  /\ stops' = stops \ {c}
  /\ run' = [run EXCEPT ![c] = CancelledRun(@)]
  /\ UNCHANGED <<job, case, worker, world, asked, faults>>

\* The API process ends between the two.
ForgetStops ==
  /\ stops # {} /\ faults < MaxFaults
  /\ stops' = {} /\ faults' = faults + 1
  /\ UNCHANGED <<job, case, run, worker, world, asked>>

\* The owner is no longer an administrator, or a document, an index, an
\* authorization or a capability of the frozen scope has changed.
Revoke ==
  /\ \/ world.admin /\ world' = [world EXCEPT !.admin = FALSE]
     \/ world.scope /\ world' = [world EXCEPT !.scope = FALSE]
  /\ UNCHANGED <<job, case, run, worker, stops, asked, faults>>

-----------------------------------------------------------------------------
(* A worker's leases and errors.                                           *)

Mine(w) == worker[w].job
At(w) == <<Mine(w), Min(worker[w].todo)>>   \* the case under way
Goto(w, at) == worker' = [worker EXCEPT ![w].at = at]
Leave(w) == worker' = [worker EXCEPT ![w] = Idle]

\* owned with allow_cancelling, without authorization
Holds(w) ==
  /\ job[Mine(w)].owner = w /\ job[Mine(w)].lease
  /\ job[Mine(w)].state \in {"running", "cancelling"}

\* The points whose transaction also calls validate_scope, directly or
\* through check_owned.
Scoped == {"case", "create", "generate", "result", "ask", "save", "finish"}

Allowed(w) ==
  /\ Holds(w) /\ job[Mine(w)].state = "running" /\ world.admin
  /\ worker[w].at \in Scoped => world.scope

\* A checked step finds that the job is lost, and the process drops it; or
\* that it is cancelled, forbidden or out of scope, and goes to settle it.
\* A deferral inside the handler of errors is not caught again.
Refused(w) ==
  /\ worker[w].at \in Scoped \cup {"start", "judge", "confirm", "defer", "deferLost"}
  /\ ~Allowed(w)
  /\ \/ ~Holds(w) /\ Leave(w)
     \/ Holds(w) /\ worker[w].at = "deferLost" /\ Leave(w)
     \/ /\ Holds(w) /\ worker[w].at = "generate"
        /\ Goto(w, IF job[Mine(w)].state = "cancelling" THEN "stopRun" ELSE "fail")
     \/ Holds(w) /\ worker[w].at \notin {"deferLost", "generate"} /\ Goto(w, "handler")
  /\ UNCHANGED <<job, case, run, stops, world, asked, faults>>

\* The except clause of run_once: the job ends if the process still holds it.
Handle(w) ==
  /\ worker[w].at = "handler"
  /\ IF Holds(w)
     THEN LET end == IF job[Mine(w)].state = "cancelling" THEN "cancelled" ELSE "failed"
          IN job' = [job EXCEPT ![Mine(w)] = Ended(Mine(w), end)] /\ case' = Closed(Mine(w), end)
     ELSE UNCHANGED <<job, case>>
  /\ Leave(w)
  /\ UNCHANGED <<run, stops, world, asked, faults>>

\* _defer: the job waits for a Run somebody else holds and keeps its attempt.
Defer(w) ==
  /\ worker[w].at \in {"defer", "deferLost"} /\ Allowed(w)
  /\ LET attempts == job[Mine(w)].attempts
     IN job' = [job EXCEPT ![Mine(w)] =
          [Ended(Mine(w), "queued") EXCEPT !.attempts = IF attempts > 0 THEN attempts - 1 ELSE 0]]
  /\ Leave(w)
  /\ UNCHANGED <<case, run, stops, world, asked, faults>>

-----------------------------------------------------------------------------
(* claim_next                                                              *)

\* abandoned_runs: Runs that still live though their job has ended.
Scan(w) ==
  /\ worker[w] = Idle
  /\ worker' = [worker EXCEPT ![w].at = "reconcile",
       ![w].stale = {c \in Cases : job[c[1]].state \in Terminal /\ run[c].state \in LiveRun}]
  /\ UNCHANGED <<job, case, run, stops, world, asked, faults>>

Reconcile(w) ==
  /\ worker[w].at = "reconcile"
  /\ IF worker[w].stale = {} THEN Goto(w, "claim") /\ UNCHANGED run
     ELSE \E c \in worker[w].stale :
            /\ run' = [run EXCEPT ![c] = CancelledRun(@)]
            /\ worker' = [worker EXCEPT ![w].stale = @ \ {c}]
  /\ UNCHANGED <<job, case, stops, world, asked, faults>>

Claimable(j) ==
  job[j].state = "queued" \/ (job[j].state \in {"running", "cancelling"} /\ ~job[j].lease)

Exhausted(j) == job[j].attempts >= MaxAttempts

\* In the order of creation, what can no longer run is ended and the first
\* job that can is taken.
Claim(w) ==
  /\ worker[w].at = "claim"
  /\ run' = [c \in Cases |-> SettledRun(run[c])]
  /\ LET open == {j \in Jobs : Claimable(j)}
         over == {j \in open : job[j].state = "cancelling" \/ Exhausted(j)}
         next == IF open \ over = {} THEN 0 ELSE Min(open \ over)
         gone == {j \in over : next = 0 \/ j < next}
         End(j) == IF job[j].state = "cancelling" THEN "cancelled" ELSE "failed"
     IN /\ job' = [j \in Jobs |->
             IF j \in gone THEN Ended(j, End(j))
             ELSE IF j = next
             THEN [state |-> "running", owner |-> w, lease |-> TRUE, attempts |-> job[j].attempts + 1]
             ELSE job[j]]
        /\ case' = [c \in Cases |->
             IF c[1] \in gone THEN Closed(c[1], End(c[1]))[c] ELSE case[c]]
        /\ worker' = [worker EXCEPT ![w] =
             IF next = 0 THEN Idle ELSE [Idle EXCEPT !.at = "start", !.job = next]]
  /\ UNCHANGED <<stops, world, asked, faults>>

-----------------------------------------------------------------------------
(* run_once: the cases of the claimed job.                                 *)

\* The snapshot is rebuilt; the cases without a result are read.
Start(w) ==
  /\ worker[w].at = "start" /\ Allowed(w)
  /\ worker' = [worker EXCEPT ![w].at = "next",
       ![w].todo = {i \in 1..NumCases : case[<<Mine(w), i>>].state \in {"queued", "running"}}]
  /\ UNCHANGED <<job, case, run, stops, world, asked, faults>>

\* The next case, the end of the list, or a request to stop the process.
NextCase(w) ==
  /\ worker[w].at = "next"
  /\ \/ worker[w].todo = {} /\ Goto(w, "finish") /\ UNCHANGED faults
     \/ worker[w].todo # {} /\ Goto(w, "case") /\ UNCHANGED faults
     \/ /\ worker[w].todo # {} /\ faults < MaxFaults
        /\ faults' = faults + 1 /\ Goto(w, "defer")
  /\ UNCHANGED <<job, case, run, stops, world, asked>>

\* _case_run, first transaction: the case gets its session.
OpenCase(w) ==
  /\ worker[w].at = "case" /\ Allowed(w)
  /\ IF run[At(w)].state # "none" THEN Goto(w, "read") /\ UNCHANGED case
     ELSE case' = [case EXCEPT ![At(w)].state = "running"] /\ Goto(w, "create")
  /\ UNCHANGED <<job, run, stops, world, asked, faults>>

\* RunStore.create with prepare: the Run and the case's run_id are one
\* transaction, and the key of the case finds a Run that exists.
CreateRun(w) ==
  /\ worker[w].at = "create" /\ Allowed(w)
  /\ run' = [run EXCEPT ![At(w)].state = IF @ = "none" THEN "queued" ELSE @]
  /\ Goto(w, "read")
  /\ UNCHANGED <<job, case, stops, world, asked, faults>>

ReadRun(w) ==
  /\ worker[w].at \in {"read", "reread"}
  /\ LET s == run[At(w)].state
     IN worker' = [worker EXCEPT ![w].saw = s,
          ![w].at = IF worker[w].at = "read" /\ s \in {"queued", "running"} THEN "take" ELSE "result"]
  /\ UNCHANGED <<job, case, run, stops, world, asked, faults>>

\* RunStore.claim_next(run_id): cancellations of all Runs are settled; the Run
\* is taken, or it has no time left and fails, or somebody else holds it.
TakeRun(w) ==
  /\ worker[w].at = "take"
  /\ LET settled == [c \in Cases |-> SettledRun(run[c])]
     IN \/ /\ Takeable(run[At(w)])
           /\ run' = [settled EXCEPT ![At(w)].state = "running", ![At(w)].owner = w, ![At(w)].lease = TRUE]
           /\ Goto(w, "generate") /\ UNCHANGED faults
        \/ /\ Takeable(run[At(w)]) /\ faults < MaxFaults /\ faults' = faults + 1
           /\ run' = [settled EXCEPT ![At(w)].state = "failed"]
           /\ Goto(w, "defer")
        \/ /\ ~Takeable(run[At(w)])
           /\ run' = settled /\ Goto(w, "defer") /\ UNCHANGED faults
  /\ UNCHANGED <<job, case, stops, world, asked>>

RunHeld(w) == run[At(w)].owner = w /\ run[At(w)].lease

\* execute_prepared: the answer is produced while both leases are checked, the
\* external one last before the transaction that saves the answer.
Generate(w) ==
  /\ worker[w].at = "generate" /\ Allowed(w)
  /\ \/ Goto(w, "commit") /\ UNCHANGED faults
     \/ \E at \in {"busy", "fail"} :
          faults < MaxFaults /\ faults' = faults + 1 /\ Goto(w, at)
  /\ UNCHANGED <<job, case, run, stops, world, asked>>

\* ChatService's last transaction, which checks the lease of the Run alone.
CommitRun(w) ==
  /\ worker[w].at = "commit"
  /\ \/ /\ RunHeld(w) /\ run[At(w)].state = "running"
        /\ \E end \in {<<"succeeded", "answer">>, <<"waiting", "question">>}
                      \cup ({"succeeded", "waiting"} \X {"malformed"}) :
             run' = [run EXCEPT ![At(w)] = [state |-> end[1], owner |-> NoWorker,
                                            lease |-> FALSE, said |-> end[2]]]
        /\ Goto(w, "reread")
     \/ RunHeld(w) /\ run[At(w)].state # "running" /\ Goto(w, "fail") /\ UNCHANGED run
     \/ ~RunHeld(w) /\ Goto(w, "deferLost") /\ UNCHANGED run
  /\ UNCHANGED <<job, case, stops, world, asked, faults>>

\* RESOURCE_BUSY: the session is still locked, the Run goes back to the queue.
ReleaseRun(w) ==
  /\ worker[w].at = "busy"
  /\ \/ /\ RunHeld(w) /\ run[At(w)].state = "running"
        /\ run' = [run EXCEPT ![At(w)].state = "queued", ![At(w)].owner = NoWorker, ![At(w)].lease = FALSE]
        /\ Goto(w, "defer")
     \/ RunHeld(w) /\ run[At(w)].state # "running" /\ Goto(w, "handler") /\ UNCHANGED run
     \/ ~RunHeld(w) /\ Goto(w, "deferLost") /\ UNCHANGED run
  /\ UNCHANGED <<job, case, stops, world, asked, faults>>

\* EVALUATION_CANCEL_REQUESTED: the Run is cancelled as well, then ended.
StopRun(w) ==
  /\ worker[w].at = "stopRun"
  /\ run' = [run EXCEPT ![At(w)] = CancelledRun(@)]
  /\ Goto(w, "endRun")
  /\ UNCHANGED <<job, case, stops, world, asked, faults>>

\* RunStore.finish_failure
FailRun(w) ==
  /\ worker[w].at \in {"fail", "endRun"}
  /\ \/ /\ RunHeld(w) /\ run[At(w)].state \in {"running", "cancelling"}
        /\ run' = [run EXCEPT ![At(w)].state = IF @ = "cancelling" THEN "cancelled" ELSE "failed",
                              ![At(w)].owner = NoWorker, ![At(w)].lease = FALSE]
        /\ Goto(w, IF worker[w].at = "fail" THEN "reread" ELSE "handler")
     \/ /\ ~(RunHeld(w) /\ run[At(w)].state \in {"running", "cancelling"})
        /\ Goto(w, "deferLost") /\ UNCHANGED run
  /\ UNCHANGED <<job, case, stops, world, asked, faults>>

\* What the Run has to show: its message if it succeeded or waits, valid or not
\* (EVALUATION_PREDICTION_INVALID), else its error.
Predicted(w) ==
  IF worker[w].saw \in {"succeeded", "waiting"} THEN run[At(w)].said ELSE "generation"

\* The rest of _generate.  A clarification is an answer, its Run is dropped; one
\* that is malformed keeps its Run, which waits on.
Predict(w) ==
  /\ worker[w].at = "result" /\ Allowed(w)
  /\ worker' = [worker EXCEPT ![w].verdict = Predicted(w),
       ![w].at = IF Predicted(w) \in {"generation", "malformed"} THEN "save"
                 ELSE IF worker[w].saw = "waiting" THEN "drop" ELSE "judge"]
  /\ UNCHANGED <<job, case, run, stops, world, asked, faults>>

DropRun(w) ==
  /\ worker[w].at = "drop"
  /\ run' = [run EXCEPT ![At(w)] = CancelledRun(@)]
  /\ Goto(w, "judge")
  /\ UNCHANGED <<job, case, stops, world, asked, faults>>

-----------------------------------------------------------------------------
(* _judge, _save_case and _finish.                                         *)

Reviewed_Bug(w) == FALSE   \* a stored review is not looked for

Reviewed(w) == case[At(w)].receipt = "succeeded"

\* A confirmed review is used again; an unconfirmed one costs an attempt.
OpenReview(w) ==
  /\ worker[w].at = "judge" /\ Allowed(w)
  /\ \/ Reviewed(w) /\ Goto(w, "save") /\ UNCHANGED case
     \/ /\ ~Reviewed(w) /\ case[At(w)].tries >= MaxReviews
        /\ worker' = [worker EXCEPT ![w].at = "save", ![w].verdict = "review"]
        /\ UNCHANGED case
     \/ /\ ~Reviewed(w) /\ case[At(w)].tries < MaxReviews
        /\ case' = [case EXCEPT ![At(w)].receipt = "started", ![At(w)].tries = @ + 1]
        /\ Goto(w, "ask")
  /\ UNCHANGED <<job, run, stops, world, asked, faults>>

\* The judge's call: a valid review, an error that belongs to the case, or an
\* unknown error that leaves the job to its lease.
AskJudge(w) ==
  /\ worker[w].at = "ask" /\ Allowed(w)
  /\ asked' = [asked EXCEPT ![At(w)] = @ + 1]
  /\ \/ Goto(w, "confirm") /\ UNCHANGED faults
     \/ /\ faults < MaxFaults /\ faults' = faults + 1
        /\ \/ worker' = [worker EXCEPT ![w].at = "save", ![w].verdict = "review"]
           \/ Leave(w)
  /\ UNCHANGED <<job, case, run, stops, world>>

ConfirmReview(w) ==
  /\ worker[w].at = "confirm" /\ Allowed(w)
  /\ case' = [case EXCEPT ![At(w)].receipt = "succeeded"]
  /\ Goto(w, "save")
  /\ UNCHANGED <<job, run, stops, world, asked, faults>>

SaveCase(w) ==
  /\ worker[w].at = "save" /\ Allowed(w)
  /\ LET row == case[At(w)]
         receipt == IF worker[w].verdict = "review" /\ row.receipt = "started" THEN "failed" ELSE row.receipt
         state == IF worker[w].verdict \in {"malformed", "generation", "review"} THEN "failed" ELSE "succeeded"
     IN case' = [case EXCEPT ![At(w)] =
          [row EXCEPT !.state = state, !.verdict = worker[w].verdict, !.receipt = receipt]]
  /\ worker' = [worker EXCEPT ![w] = [Idle EXCEPT !.at = "next", !.job = Mine(w),
                                                  !.todo = worker[w].todo \ {At(w)[2]}]]
  /\ UNCHANGED <<job, run, stops, world, asked, faults>>

\* The report is made from all cases, in the transaction that ends the job.
Finish(w) ==
  /\ worker[w].at = "finish" /\ Allowed(w)
  /\ job' = [job EXCEPT ![Mine(w)] = Ended(Mine(w), "succeeded")]
  /\ Leave(w)
  /\ UNCHANGED <<case, run, stops, world, asked, faults>>

Step(w) ==
  \/ Scan(w) \/ Reconcile(w) \/ Claim(w) \/ Start(w) \/ NextCase(w) \/ OpenCase(w)
  \/ CreateRun(w) \/ ReadRun(w) \/ TakeRun(w) \/ Generate(w) \/ CommitRun(w)
  \/ ReleaseRun(w) \/ StopRun(w) \/ FailRun(w) \/ Predict(w) \/ DropRun(w)
  \/ OpenReview(w) \/ AskJudge(w) \/ ConfirmReview(w) \/ SaveCase(w) \/ Finish(w)
  \/ Defer(w) \/ Refused(w) \/ Handle(w)

-----------------------------------------------------------------------------
(* Crashes and leases.                                                     *)

\* The process ends, or an exception that is no AppError ends run_once.
Crash(w) ==
  /\ worker[w] # Idle /\ faults < MaxFaults
  /\ faults' = faults + 1
  /\ Leave(w)
  /\ UNCHANGED <<job, case, run, stops, world, asked>>

\* Some process renews the lease: the heartbeat of a job goes on through a
\* cancellation while its user is an administrator, that of a Run only while
\* check_owned(claim) succeeds.
JobRenewed(j) == world.admin /\ \E w \in Workers : Mine(w) = j /\ Holds(w)
RunRenewed(c) ==
  \E w \in Workers :
    /\ worker[w].at \in {"generate", "commit", "busy", "fail"} /\ At(w) = c
    /\ run[c].owner = w /\ Holds(w) /\ job[c[1]].state = "running"
    /\ world.admin /\ world.scope

\* A lease nobody renews lapses; one that is renewed, if the process stalls.
Lapse(held, lapsed) ==
  \/ ~held /\ lapsed /\ UNCHANGED faults
  \/ held /\ faults < MaxFaults /\ faults' = faults + 1 /\ lapsed

LapseJob(j) ==
  /\ job[j].lease
  /\ Lapse(JobRenewed(j), job' = [job EXCEPT ![j].lease = FALSE])
  /\ UNCHANGED <<case, run, worker, stops, world, asked>>

LapseRun(c) ==
  /\ run[c].lease
  /\ Lapse(RunRenewed(c), run' = [run EXCEPT ![c].lease = FALSE])
  /\ UNCHANGED <<job, case, worker, stops, world, asked>>

\* A question waits longer than chat_run_wait_seconds and is read or claimed.
ExpireRun(c) ==
  /\ run[c].state = "waiting" /\ faults < MaxFaults
  /\ run' = [run EXCEPT ![c].state = "interrupted"]
  /\ faults' = faults + 1
  /\ UNCHANGED <<job, case, worker, stops, world, asked>>

Next ==
  \/ \E j \in Jobs : Create(j) \/ Cancel(j) \/ LapseJob(j)
  \/ \E c \in Cases : CancelRun(c) \/ LapseRun(c) \/ ExpireRun(c)
  \/ \E w \in Workers : Step(w) \/ Crash(w)
  \/ ForgetStops \/ Revoke

Spec == Init /\ [][Next]_vars

\* Every process keeps going, and a lease nobody renews lapses.  Neither the
\* administrator nor the process that serves the API has to do anything.
FairSpec ==
  /\ Spec
  /\ \A w \in Workers : WF_vars(Step(w))
  /\ WF_vars(\E j \in Jobs : ~JobRenewed(j) /\ LapseJob(j))
  /\ WF_vars(\E c \in Cases : ~RunRenewed(c) /\ LapseRun(c))

-----------------------------------------------------------------------------
(* Properties                                                              *)

\* Every row and every process has one of the states of the code; the
\* recoveries of a job and the reviews of a case stay within their limits.
TypeOK ==
  /\ job \in [Jobs -> Job] /\ case \in [Cases -> Case] /\ run \in [Cases -> Run]
  /\ worker \in [Workers -> Worker]
  /\ stops \subseteq Cases /\ world \in [admin : BOOLEAN, scope : BOOLEAN]
  /\ asked \in [Cases -> 0..MaxReviews] /\ faults \in 0..MaxFaults

\* The report of a job that succeeded rests on a verdict for every case that
\* agrees with what its Run and its reviewer said, a message that is no valid
\* prediction has never been reviewed, and no ended job has a case under way,
\* whichever processes worked on it (_generate, _save_case, _finish).
ReportTruth ==
  \A c \in Cases :
    /\ job[c[1]].state \in Terminal => case[c].state \notin {"queued", "running"}
    /\ job[c[1]].state = "succeeded" => case[c].verdict # "none"
    /\ case[c].verdict \in {"answer", "question"} =>
         case[c].receipt = "succeeded" /\ run[c].said = case[c].verdict
    /\ case[c].verdict = "malformed" => run[c].said = "malformed" /\ case[c].receipt = "none"
    /\ case[c].verdict = "generation" =>
         run[c].state \in {"failed", "cancelled", "interrupted"} /\ run[c].said # "answer"

\* A confirmed review is never requested again: not by the process that takes
\* the job over after a crash, nor by one that lost it (_judge).
ReviewPaidOnce ==
  [][\A c \in Cases : case[c].receipt = "succeeded" =>
       asked'[c] = asked[c] /\ case'[c].receipt = "succeeded"]_vars

\* Every job ends, and then every Run of its cases: after a crash between the
\* two the next poll finds the Runs (abandoned_runs), and a job that waits for
\* a Run of a dead process waits only for that Run's lease (_defer).
JobsAndRunsEnd ==
  []<>(\A c \in Cases : job[c[1]].state \notin Active /\ run[c].state \notin LiveRun)

=============================================================================
