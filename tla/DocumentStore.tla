----------------------------- MODULE DocumentStore -----------------------------
(***************************************************************************)
(* The versions of one document series on their way into the vector store  *)
(* and out of it: uploads, the durable ingestion queue and its workers     *)
(* (app/service/ingestion_jobs.py, app/worker.py), the build of an index   *)
(* (IngestionService.process), its publication, its retirement behind the  *)
(* pins of Runs (app/service/document_tasks.py), and a Run that reads what *)
(* it pinned.  Publication, versions and the durable queue are enabled.    *)
(*                                                                         *)
(* PostgreSQL transactions hold the row of the document and are atomic.    *)
(* The vector store and the files are outside of them: such a call takes   *)
(* effect in a step of its own, after a guard that was true some time      *)
(* before.  A worker holds the advisory lock of its document as long as    *)
(* its connection lives.                                                   *)
(***************************************************************************)
EXTENDS Naturals, Sequences, FiniteSets, SequencesExt

CONSTANTS
  Docs,          \* the versions that may be uploaded to the series
  Workers,       \* processes that run IngestionWorker
  NoDoc,         \* no version, no worker
  NumBatches,    \* the batches of chunks of a version
  MaxAttempts,   \* ingestion_max_attempts
  MaxReceipts,   \* bound of the model: tasks one version may get
  MaxClaims,     \* bound of the model: times the Run may be claimed
  MaxFaults      \* bound of the model: crashes, lost connections, lost leases

ASSUME DocumentAssumption ==
  /\ NoDoc \notin Docs \cup Workers
  /\ IsFiniteSet(Docs)
  /\ NumBatches \in Nat \ {0} /\ MaxAttempts \in Nat \ {0} /\ MaxReceipts \in Nat \ {0}
  /\ MaxClaims \in Nat /\ MaxFaults \in Nat

VARIABLES
  doc,       \* [Docs -> Document]: rag.documents and rag.document_indexes
  stored,    \* [Docs -> Stored]: the vector store and the upload directory
  series,    \* rag.document_series
  job,       \* [Docs -> Job]: rag.ingestion_jobs
  receipt,   \* [Docs -> Seq(Receipt)]: rag.document_tasks; the last is the job's
  parent,    \* the delete_series task
  worker,    \* [Workers -> Process]
  run,       \* a Run and its rag.run_index_pins
  late,      \* history: versions written to by a worker without their lock
  faults     \* history: the faults so far

data == <<doc, stored, series, job, receipt, parent>>
vars == <<doc, stored, series, job, receipt, parent, worker, run, late, faults>>

-----------------------------------------------------------------------------
(* Types.                                                                  *)

Flag == {"yes", "no"}

Batches == 1 .. NumBatches

Document ==
  [status   : {"absent", "processing", "ready", "failed", "deleting", "retired"},
   retry    : Flag,      \* parser_metadata["retryable"]
   index    : {"none", "building", "verified", "published", "superseded",
               "retiring", "cleaned", "failed"},
   verified : Flag]      \* verified_at and leaf_sha256 are set

Stored == [chunks : SUBSET Batches, file : {"present", "gone"}]

Ended == {"succeeded", "failed", "cancelled"}

Job ==
  [state    : {"none", "queued", "running"} \cup Ended,
   kind     : {"ingest", "delete"},
   attempts : 0 .. MaxAttempts,
   token    : Workers \cup {NoDoc},
   lease    : {"none", "live", "expired"}]

Receipt ==
  [kind    : {"ingest", "delete"},
   state   : {"queued", "running"} \cup Ended,
   waiting : Flag,       \* phase = "waiting_runs"
   child   : Flag]       \* has a parent_task_id

Parent ==
  [state : {"none", "queued", "running", "succeeded", "failed"},
   total : Nat, already : Nat]

Series == [current : Docs \cup {NoDoc}, retired : Flag]

\* The calls that are out of the reach of the transactions.
Outside == {"wipe", "write", "failwipe", "purge", "unlink"}

Process ==
  [doc : Docs \cup {NoDoc}, kind : {"ingest", "delete"}, exhausted : Flag,
   fresh : Flag,         \* just claimed a job that was queued
   pc : Outside \cup {"idle", "enter", "start", "build", "verify", "ready", "mark",
                      "check", "retired", "finish"},
   batch : Nat, lock : Flag, error : {"none", "retryable", "final", "pinned"}]

Idle == [doc |-> NoDoc, kind |-> "ingest", exhausted |-> "no", fresh |-> "no",
         pc |-> "idle", batch |-> 0, lock |-> "no", error |-> "none"]

ActiveRun == {"queued", "running", "reading"}

Run ==
  [state : {"none", "answered", "ended"} \cup ActiveRun,
   expires : {"ahead", "past"}, pins : SUBSET Docs,
   read : {"none", "whole", "torn"}, claims : 0 .. MaxClaims]

Init ==
  /\ doc = [d \in Docs |-> [status |-> "absent", retry |-> "no", index |-> "none",
                            verified |-> "no"]]
  /\ stored = [d \in Docs |-> [chunks |-> {}, file |-> "gone"]]
  /\ series = [current |-> NoDoc, retired |-> "no"]
  /\ job = [d \in Docs |-> [state |-> "none", kind |-> "ingest", attempts |-> 0,
                            token |-> NoDoc, lease |-> "none"]]
  /\ receipt = [d \in Docs |-> << >>]
  /\ parent = [state |-> "none", total |-> 0, already |-> 0]
  /\ worker = [w \in Workers |-> Idle]
  /\ run = [state |-> "none", expires |-> "ahead", pins |-> {}, read |-> "none",
            claims |-> 0]
  /\ late = {}
  /\ faults = 0

-----------------------------------------------------------------------------
(* Helpers.                                                                *)

Present == {d \in Docs : doc[d].status # "absent"}

LockFree_Bug(d) == TRUE   \* the advisory lock is not taken

LockFree(d) == \A w \in Workers : worker[w].doc = d => worker[w].lock = "no"

Owned(w) ==
  LET j == job[worker[w].doc]
  IN  j.state = "running" /\ j.token = w /\ j.lease = "live"

\* The guard that the worker hands to every step: the lock's connection is
\* the one that took it, and the lease is the worker's.
Held(w) == worker[w].lock = "yes" /\ Owned(w)

At(w, pc) == worker[w].pc = pc

Immutable == {"published", "superseded", "retiring", "cleaned"}

Readable(d) ==
  /\ doc[d].status = "ready" /\ doc[d].verified = "yes"
  /\ doc[d].index \in {"published", "superseded"}

Whole(d) == stored[d].chunks = Batches

NewJob(kind) == [state |-> "queued", kind |-> kind, attempts |-> 0,
                 token |-> NoDoc, lease |-> "none"]

\* enqueue reads the job without a lock, and the mapper writes the columns that
\* differ from what it read.  A claim that commits in between keeps what it
\* wrote to the others: the job goes on running, for its new receipt.
SlippedIn(d) == \E w \in Workers : worker[w].doc = d /\ worker[w].fresh = "yes"
                                   /\ job[d].state = "running" /\ job[d].token = w

Requeued(d, kind, slipped) ==
  LET j == job[d]
      before == IF worker[j.token].exhausted = "yes" THEN j.attempts ELSE j.attempts - 1
  IN  IF slipped
      THEN [j EXCEPT !.kind = kind, !.attempts = IF before = 0 THEN j.attempts ELSE 0]
      ELSE NewJob(kind)

\* enqueue: the unfinished receipt of the job is cancelled, a new one begins.
Enqueued(s, kind, child) ==
  LET cancel(r) == [r EXCEPT !.state = "cancelled", !.waiting = "no"]
      old == [i \in DOMAIN s |-> IF i = Len(s) /\ s[i].state \notin Ended
                                 THEN cancel(s[i]) ELSE s[i]]
  IN  Append(old, [kind |-> kind, state |-> "queued", waiting |-> "no",
                   child |-> child])

\* sync_parent: the parent sums up the current receipt of every version.
Summary_Bug(r, p) ==   \* counts the receipts of all attempts
  LET receipts == UNION {{<<d, i>> : i \in DOMAIN r[d]} : d \in Docs}
      ended == {c \in receipts :
                  r[c[1]][c[2]].child = "yes" /\ r[c[1]][c[2]].state \in Ended}
  IN  [p EXCEPT !.state = IF p.state = "none" THEN "none"
                          ELSE IF p.already + Cardinality(ended) >= p.total THEN "succeeded"
                          ELSE "running"]

Summary(r, p) ==
  LET children == {d \in Docs : r[d] # << >> /\ Last(r[d]).child = "yes"}
      with(states) == {d \in children : Last(r[d]).state \in states}
      state ==
        IF p.already + Cardinality(with({"succeeded"})) = p.total THEN "succeeded"
        ELSE IF with({"failed", "cancelled"}) # {} THEN "failed"
        ELSE IF \E d \in children : Last(r[d]).waiting = "yes" THEN "queued"
        ELSE "running"
  IN  IF p.state = "none" THEN p ELSE [p EXCEPT !.state = state]

\* sync_task: the current receipt of d follows the job.
Synced(s, state, waiting) == [s EXCEPT ![Len(s)].state = state, ![Len(s)].waiting = waiting]

Sync(d, state, waiting) ==
  LET r == [receipt EXCEPT ![d] = Synced(@, state, waiting)]
  IN  receipt' = r /\ parent' = Summary(r, parent)

Goto(w, pc) == worker' = [worker EXCEPT ![w].pc = pc]
Stop(w, e)  == worker' = [worker EXCEPT ![w].pc = "finish", ![w].error = e]
Leave(w)    == worker' = [worker EXCEPT ![w] = Idle]

\* After a call outside of the database the guard decides whether to go on.
Afterwards(w, pc) == IF Held(w) THEN Goto(w, pc) ELSE Leave(w)

\* A write that reaches the store when its worker has lost the lock.
Touch(w) == late' = IF worker[w].lock = "yes" THEN late ELSE late \cup {worker[w].doc}

-----------------------------------------------------------------------------
(* Requests of the owner.                                                  *)

\* bind_document_version: the first version opens the series and is its current
\* version; a later one names a version of the series it is based on.
Bindable ==
  \/ Present = {}
  \/ series.retired = "no" /\ \E base \in Present : doc[base].status # "deleting"

Bound(d) == [series EXCEPT !.current = IF Present = {} THEN d ELSE @]

Upload(d) ==
  /\ doc[d].status = "absent"
  /\ Bindable
  /\ series' = Bound(d)
  /\ doc' = [doc EXCEPT ![d].status = "processing", ![d].index = "building"]
  /\ stored' = [stored EXCEPT ![d].file = "present"]
  /\ job' = [job EXCEPT ![d] = NewJob("ingest")]
  /\ receipt' = [receipt EXCEPT ![d] = Enqueued(@, "ingest", "no")]
  /\ UNCHANGED <<parent, worker, run, late, faults>>

Expected_Bug(expected) == TRUE   \* no comparison with the pointer the owner saw

Expected(expected) == series.current = expected

\* verify_for_publish: the stored fragments are read and compared once more.
Publishable(d) ==
  /\ doc[d].verified = "yes" /\ doc[d].index \in {"verified", "published", "superseded"}
  /\ Whole(d)

\* activate_document_version: what the pointer of the series may move to.
Selectable(d, expected) ==
  doc[d].status = "ready" /\ Expected(expected) /\ series.retired = "no"

\* activate_version, under the lock of the candidate only.
Activate(d, expected) ==
  /\ LockFree(d)
  /\ Publishable(d)
  /\ Selectable(d, expected)
  /\ series' = [series EXCEPT !.current = d]
  /\ doc' = [v \in Docs |->
               IF v = d THEN [doc[v] EXCEPT !.index = "published"]
               ELSE IF v = expected THEN [doc[v] EXCEPT !.index = "superseded"]
               ELSE doc[v]]
  /\ UNCHANGED <<stored, job, receipt, parent, worker, run, late, faults>>

Retriable_Bug(d) == doc[d].status # "ready"   \* whatever is not there can be built

Retriable(d) == doc[d].status \in {"failed", "processing"}

\* retry of an ingestion, by its failed receipt or by the document.
Retry(d) ==
  /\ LockFree(d)
  /\ Retriable(d)
  /\ stored[d].file = "present"
  /\ Len(receipt[d]) < MaxReceipts
  /\ doc' = [doc EXCEPT ![d].status = "processing", ![d].retry = "no"]
  /\ \E slipped \in {FALSE, SlippedIn(d)} :
       job' = [job EXCEPT ![d] = Requeued(d, "ingest", slipped)]
  /\ receipt' = [receipt EXCEPT ![d] = Enqueued(@, "ingest", "no")]
  /\ UNCHANGED <<stored, series, parent, worker, run, late, faults>>

\* prepare_version_delete
Withdrawn(d) == [series EXCEPT !.current = IF @ = d THEN NoDoc ELSE @]

\* retire, and the retry of a failed retirement: takes no advisory lock.
Retire(d) ==
  LET again == job[d].kind = "delete"
      child == IF again THEN Last(receipt[d]).child ELSE "no"
      r     == [receipt EXCEPT ![d] = Enqueued(@, "delete", child)]
  IN  /\ d \in Present
      /\ again => doc[d].status # "retired" /\ Last(receipt[d]).state \in {"failed", "cancelled"}
      /\ Len(receipt[d]) < MaxReceipts
      /\ doc' = [doc EXCEPT ![d].status = "deleting", ![d].index = "retiring"]
      /\ series' = Withdrawn(d)
      /\ \E slipped \in {FALSE, SlippedIn(d)} :
           job' = [job EXCEPT ![d] = Requeued(d, "delete", slipped)]
      /\ receipt' = r
      /\ parent' = IF child = "yes" THEN Summary(r, parent) ELSE parent
      /\ UNCHANGED <<stored, worker, run, late, faults>>

\* retire_series: closes the series and queues every version that is left.
RetireSeries ==
  LET pending == {d \in Present : doc[d].status # "retired"}
      r == [d \in Docs |-> IF d \in pending THEN Enqueued(receipt[d], "delete", "yes")
                           ELSE receipt[d]]
  IN  /\ Present # {} /\ series.retired = "no"
      /\ \A d \in pending : Len(receipt[d]) < MaxReceipts
      /\ series' = [current |-> NoDoc, retired |-> "yes"]
      /\ doc' = [d \in Docs |-> IF d \in pending
                                THEN [doc[d] EXCEPT !.status = "deleting", !.index = "retiring"]
                                ELSE doc[d]]
      /\ \E slipped \in SUBSET {d \in pending : SlippedIn(d)} :
           job' = [d \in Docs |-> IF d \in pending THEN Requeued(d, "delete", d \in slipped)
                                  ELSE job[d]]
      /\ receipt' = r
      /\ parent' = Summary(r, [state |-> "queued", total |-> Cardinality(Present),
                               already |-> Cardinality(Present \ pending)])
      /\ UNCHANGED <<stored, worker, run, late, faults>>

-----------------------------------------------------------------------------
(* The queue.                                                              *)

Exhausted(d) == job[d].attempts >= MaxAttempts

\* claim: a queued job, or a running one whose lease has run out.
Claim(w, d) ==
  /\ At(w, "idle")
  /\ \/ job[d].state = "queued"
     \/ job[d].state = "running" /\ job[d].lease = "expired"
  /\ LET waiting == IF job[d].kind = "delete" THEN Last(receipt[d]).waiting ELSE "no"
     IN  /\ job' = [job EXCEPT ![d].state = "running", ![d].token = w, ![d].lease = "live",
                                ![d].attempts = IF Exhausted(d) THEN @ ELSE @ + 1]
         /\ worker' = [worker EXCEPT ![w] =
                         [Idle EXCEPT !.doc = d, !.kind = job[d].kind, !.pc = "enter",
                                      !.fresh = IF job[d].state = "queued" THEN "yes" ELSE "no",
                                      !.exhausted = IF Exhausted(d) THEN "yes" ELSE "no"]]
         /\ Sync(d, "running", waiting)
  /\ UNCHANGED <<doc, stored, series, run, late, faults>>

\* exclusive: the advisory lock of the document and the first guard.
Enter(w) ==
  LET first == IF worker[w].exhausted = "yes" THEN "finish"
               ELSE IF worker[w].kind = "delete" THEN "check" ELSE "start"
  IN  /\ At(w, "enter") /\ LockFree(worker[w].doc)
      /\ IF Owned(w)
         THEN worker' = [worker EXCEPT ![w].pc = first, ![w].lock = "yes", ![w].fresh = "no"]
         ELSE Leave(w)
      /\ UNCHANGED <<data, run, late, faults>>

\* release_busy: another process still holds the lock; no attempt is spent.  The
\* table refuses a negative number of attempts, and the lease is left to expire.
ReleaseBusy(w) ==
  LET d == worker[w].doc
  IN  /\ At(w, "enter") /\ ~LockFree(d)
      /\ IF Owned(w) /\ (worker[w].exhausted = "yes" \/ job[d].attempts > 0)
         THEN /\ job' = [job EXCEPT ![d].state = "queued", ![d].token = NoDoc,
                                     ![d].lease = "none",
                                     ![d].attempts = IF worker[w].exhausted = "yes" THEN @ ELSE @ - 1]
              /\ Sync(d, "queued", "no")
         ELSE UNCHANGED <<job, receipt, parent>>
      /\ Leave(w)
      /\ UNCHANGED <<doc, stored, series, run, late, faults>>

\* finish: what becomes of a job whose attempt ended with the error e.
Verdict(w) ==
  LET d == worker[w].doc
      e == worker[w].error
      again == e = "retryable" /\ job[d].attempts < MaxAttempts
  IN  IF worker[w].kind = "delete"
      THEN IF doc[d].status = "retired" THEN "succeeded"
           ELSE IF e = "pinned" THEN "waiting"
           ELSE IF again THEN "queued" ELSE "failed"
      ELSE IF doc[d].status = "ready" THEN "succeeded"
           ELSE IF doc[d].status = "deleting" THEN "cancelled"
           ELSE IF again THEN "queued" ELSE "failed"

Finish(w) ==
  LET d == worker[w].doc
      v == Verdict(w)
      state == IF v = "waiting" THEN "queued" ELSE v
  IN  /\ At(w, "finish") /\ Held(w)
      /\ job' = [job EXCEPT ![d].state = state, ![d].token = NoDoc, ![d].lease = "none",
                            ![d].attempts = IF v = "waiting" /\ @ > 0 THEN @ - 1 ELSE @]
      /\ doc' = IF worker[w].kind = "delete" \/ v \in {"succeeded", "cancelled"} THEN doc
                ELSE IF v = "queued"
                THEN [doc EXCEPT ![d].status = "processing", ![d].retry = "no"]
                ELSE [doc EXCEPT ![d].status = "failed"]
      /\ Sync(d, state, IF v = "waiting" THEN "yes" ELSE "no")
      /\ Leave(w)
      /\ UNCHANGED <<stored, series, run, late, faults>>

-----------------------------------------------------------------------------
(* process: the build of a version.                                        *)

\* Every step but the first ends in _fail when it raises: the error is noted
\* and, if the index was never published, the chunks are removed.
Failing(w, e) ==
  LET d == worker[w].doc
      pc == IF doc[d].status # "processing" THEN "finish"
            ELSE IF doc[d].index \in Immutable THEN "mark" ELSE "failwipe"
  IN  worker' = [worker EXCEPT ![w].pc = pc, ![w].error = e]

\* A crash after _fail and before finish leaves status = failed behind.
Start(w) ==
  LET d == worker[w].doc
  IN  /\ At(w, "start") /\ Held(w)
      /\ \/ doc[d].status = "failed" /\ doc[d].retry = "no" /\ Stop(w, "final")
            /\ UNCHANGED doc
         \/ doc[d].status = "failed" /\ doc[d].retry = "yes" /\ Goto(w, "build")
            /\ doc' = [doc EXCEPT ![d].status = "processing", ![d].retry = "no"]
         \/ doc[d].status = "processing" /\ Goto(w, "build") /\ UNCHANGED doc
         \/ doc[d].status \notin {"failed", "processing"} /\ Goto(w, "finish") /\ UNCHANGED doc
      /\ UNCHANGED <<stored, series, job, receipt, parent, run, late, faults>>

\* assert_build
Build(w) ==
  LET d == worker[w].doc
  IN  /\ At(w, "build") /\ Held(w)
      /\ IF doc[d].index \in Immutable
         THEN Failing(w, "final") /\ UNCHANGED doc
         ELSE Goto(w, "wipe") /\ doc' = [doc EXCEPT ![d].index = "building"]
      /\ UNCHANGED <<stored, series, job, receipt, parent, run, late, faults>>

\* vectors.delete_document, before the first batch
Wipe(w) ==
  /\ At(w, "wipe")
  /\ stored' = [stored EXCEPT ![worker[w].doc].chunks = {}]
  /\ Touch(w)
  /\ IF Held(w)
     THEN worker' = [worker EXCEPT ![w].pc = "write", ![w].batch = 1]
     ELSE Leave(w)
  /\ UNCHANGED <<doc, series, job, receipt, parent, run, faults>>

\* vectors.upsert of one batch; the keys of its chunks make it repeatable
Write(w) ==
  LET d == worker[w].doc
      b == worker[w].batch
  IN  /\ At(w, "write")
      /\ stored' = [stored EXCEPT ![d].chunks = @ \cup {b}]
      /\ Touch(w)
      /\ IF ~Held(w) THEN Leave(w)
         ELSE IF b + 1 \in Batches THEN worker' = [worker EXCEPT ![w].batch = b + 1]
         ELSE Goto(w, "verify")
      /\ UNCHANGED <<doc, series, job, receipt, parent, run, faults>>

\* verify: the chunks are read back and compared with what was written.
Verify(w) ==
  /\ At(w, "verify") /\ Held(w)
  /\ IF Whole(worker[w].doc) THEN Goto(w, "ready") ELSE Failing(w, "final")
  /\ UNCHANGED <<data, run, late, faults>>

\* The last transaction: ready, verified, and published if it is current.
Ready(w) ==
  LET d == worker[w].doc
      index == IF series.current = d THEN "published" ELSE "verified"
  IN  /\ At(w, "ready") /\ Held(w)
      /\ doc' = IF doc[d].status # "processing" THEN doc
                ELSE [doc EXCEPT ![d].status = "ready", ![d].verified = "yes",
                                 ![d].index = index]
      /\ Goto(w, "finish")
      /\ UNCHANGED <<stored, series, job, receipt, parent, run, late, faults>>

\* A step of an ingestion raises, with an error that a retry may cure or not.
BuildFails(w, e) ==
  /\ \E pc \in {"build", "wipe", "write", "verify", "ready"} : At(w, pc)
  /\ Held(w)
  /\ Failing(w, e)
  /\ UNCHANGED <<data, run, late, faults>>

\* _fail: the clean-up may fail too, which is only logged.
FailWipe(w) ==
  /\ At(w, "failwipe")
  /\ \/ stored' = [stored EXCEPT ![worker[w].doc].chunks = {}] /\ Touch(w)
     \/ UNCHANGED <<stored, late>>
  /\ Afterwards(w, "mark")
  /\ UNCHANGED <<doc, series, job, receipt, parent, run, faults>>

Mark(w) ==
  LET d == worker[w].doc
      retry == IF worker[w].error = "retryable" THEN "yes" ELSE "no"
      index == IF doc[d].index \in Immutable THEN doc[d].index ELSE "failed"
  IN  /\ At(w, "mark") /\ Held(w)
      /\ doc' = IF doc[d].status # "processing" THEN doc
                ELSE [doc EXCEPT ![d].status = "failed", ![d].retry = retry,
                                 ![d].index = index]
      /\ Goto(w, "finish")
      /\ UNCHANGED <<stored, series, job, receipt, parent, run, late, faults>>

-----------------------------------------------------------------------------
(* process_retirement: the removal of a version.                           *)

Pinned_Bug(d) == d \in run.pins   \* pins of Runs that are over count as well

\* count_active_pins: a Run that is past its deadline does not count.
Pinned(d) == run.state \in ActiveRun /\ run.expires = "ahead" /\ d \in run.pins

Check(w) ==
  LET d == worker[w].doc
  IN  /\ At(w, "check") /\ Held(w)
      /\ \/ doc[d].status = "retired" /\ Goto(w, "finish")
            /\ UNCHANGED <<receipt, parent>>
         \/ doc[d].status = "deleting" /\ doc[d].index = "retiring" /\ Pinned(d)
            /\ Stop(w, "pinned") /\ UNCHANGED <<receipt, parent>>
         \/ doc[d].status = "deleting" /\ doc[d].index = "retiring" /\ ~Pinned(d)
            /\ Goto(w, "purge") /\ Sync(d, "running", "no")
      /\ UNCHANGED <<doc, stored, series, job, run, late, faults>>

Purge(w) ==
  /\ At(w, "purge")
  /\ stored' = [stored EXCEPT ![worker[w].doc].chunks = {}]
  /\ Touch(w)
  /\ Afterwards(w, "unlink")
  /\ UNCHANGED <<doc, series, job, receipt, parent, run, faults>>

Unlink(w) ==
  /\ At(w, "unlink")
  /\ stored' = [stored EXCEPT ![worker[w].doc].file = "gone"]
  /\ Touch(w)
  /\ Afterwards(w, "retired")
  /\ UNCHANGED <<doc, series, job, receipt, parent, run, faults>>

Retired(w) ==
  LET d == worker[w].doc
  IN  /\ At(w, "retired") /\ Held(w)
      /\ doc[d].status = "deleting" /\ doc[d].index = "retiring"
      /\ doc' = [doc EXCEPT ![d].status = "retired", ![d].index = "cleaned"]
      /\ Goto(w, "finish")
      /\ UNCHANGED <<stored, series, job, receipt, parent, run, late, faults>>

\* A step of a retirement, or the first of a build, raises.
StepFails(w, e) ==
  /\ \E pc \in {"start", "check", "purge", "unlink", "retired"} : At(w, pc)
  /\ Held(w)
  /\ Stop(w, e)
  /\ UNCHANGED <<data, run, late, faults>>

-----------------------------------------------------------------------------
(* Faults.                                                                 *)

\* The guard refuses to go on: the lease or the lock is gone.
Abandon(w) ==
  /\ \A pc \in {"idle", "enter"} : ~At(w, pc)
  /\ ~Held(w)
  /\ Leave(w)
  /\ UNCHANGED <<data, run, late, faults>>

Fault == faults < MaxFaults /\ faults' = faults + 1

Crash(w) ==
  /\ ~At(w, "idle")
  /\ Fault
  /\ Leave(w)
  /\ UNCHANGED <<data, run, late>>

\* The connection of the advisory lock breaks; the worker does not know yet.
LoseLock(w) ==
  /\ worker[w].lock = "yes"
  /\ Fault
  /\ worker' = [worker EXCEPT ![w].lock = "no"]
  /\ UNCHANGED <<data, run, late>>

\* Heartbeats fail for so long that the lease of a working process runs out.
LoseLease(w) ==
  LET d == worker[w].doc
  IN  /\ ~At(w, "idle") /\ Owned(w)
      /\ Fault
      /\ job' = [job EXCEPT ![d].lease = "expired"]
      /\ UNCHANGED <<doc, stored, series, receipt, parent, worker, run, late>>

\* Nobody renews the lease of a claim whose process is gone.
LeaseEnds(d) ==
  /\ job[d].state = "running" /\ job[d].lease = "live"
  /\ worker[job[d].token].doc # d
  /\ job' = [job EXCEPT ![d].lease = "expired"]
  /\ UNCHANGED <<doc, stored, series, receipt, parent, worker, run, late, faults>>

-----------------------------------------------------------------------------
(* A Run that pins versions (RunStore models how Runs move; here only what *)
(* matters to the versions).                                               *)

\* prepare_run: freezes versions that can be read, and pins them.
Pin(D) ==
  /\ run.state = "none" /\ D # {} /\ \A d \in D : Readable(d)
  /\ run' = [run EXCEPT !.state = "queued", !.pins = D]
  /\ UNCHANGED <<data, worker, late, faults>>

\* expires_at passes.
Lapse ==
  /\ run.state \in ActiveRun /\ run.expires = "ahead"
  /\ run' = [run EXCEPT !.expires = "past"]
  /\ UNCHANGED <<data, worker, late, faults>>

\* claim_next sets a new deadline, for a queued Run and for one left behind.
ClaimRun ==
  /\ run.state \in ActiveRun /\ run.claims < MaxClaims
  /\ run' = [run EXCEPT !.state = "running", !.expires = "ahead", !.claims = @ + 1]
  /\ UNCHANGED <<data, worker, late, faults>>

\* validate_targets, before every tool call
Validate ==
  /\ run.state = "running" /\ \A d \in run.pins : Readable(d)
  /\ run' = [run EXCEPT !.state = "reading"]
  /\ UNCHANGED <<data, worker, late, faults>>

\* the search itself
Search ==
  /\ run.state = "reading"
  /\ run' = [run EXCEPT !.state = "running",
                        !.read = IF @ # "torn" /\ \A d \in run.pins : Whole(d)
                                 THEN "whole" ELSE "torn"]
  /\ UNCHANGED <<data, worker, late, faults>>

\* execute_prepared validates again in the transaction of the answer.
MayAnswer_Bug == run.expires = "ahead"

MayAnswer == run.expires = "ahead" /\ \A d \in run.pins : Readable(d)

Answer ==
  /\ run.state = "running" /\ run.read # "none"
  /\ MayAnswer
  /\ run' = [run EXCEPT !.state = "answered"]
  /\ UNCHANGED <<data, worker, late, faults>>

\* The Run fails, is cancelled or is interrupted.
EndRun ==
  /\ run.state \in ActiveRun
  /\ run' = [run EXCEPT !.state = "ended"]
  /\ UNCHANGED <<data, worker, late, faults>>

-----------------------------------------------------------------------------
Step(w) ==
  \/ Enter(w) \/ ReleaseBusy(w) \/ Finish(w) \/ Abandon(w)
  \/ Start(w) \/ Build(w) \/ Wipe(w) \/ Write(w) \/ Verify(w) \/ Ready(w)
  \/ FailWipe(w) \/ Mark(w)
  \/ Check(w) \/ Purge(w) \/ Unlink(w) \/ Retired(w)

Fails(w) == \E e \in {"retryable", "final"} : BuildFails(w, e) \/ StepFails(w, e)

Request ==
  \/ \E d \in Docs : Upload(d) \/ Retry(d) \/ Retire(d)
  \/ \E d \in Docs, expected \in Docs \cup {NoDoc} : Activate(d, expected)
  \/ RetireSeries

Reader ==
  \/ \E D \in SUBSET Docs : Pin(D)
  \/ Lapse \/ ClaimRun \/ Validate \/ Search \/ Answer \/ EndRun

Next ==
  \/ Request \/ Reader
  \/ \E w \in Workers : Step(w) \/ Fails(w) \/ Crash(w) \/ LoseLock(w) \/ LoseLease(w)
  \/ \E w \in Workers, d \in Docs : Claim(w, d)
  \/ \E d \in Docs : LeaseEnds(d)

\* A process that is alive goes on; the queue orders by available_at, so that
\* no job is passed over for ever; time passes.  Owners and errors owe nothing.
Fairness ==
  /\ \A w \in Workers : WF_vars(Step(w))
  /\ \A d \in Docs : SF_vars(\E w \in Workers : Claim(w, d)) /\ WF_vars(LeaseEnds(d))
  /\ WF_vars(Lapse)

Spec == Init /\ [][Next]_vars /\ Fairness

-----------------------------------------------------------------------------
(* Properties.                                                             *)

TypeOK ==
  /\ doc \in [Docs -> Document] /\ stored \in [Docs -> Stored]
  /\ series \in Series /\ job \in [Docs -> Job]
  /\ receipt \in [Docs -> Seq(Receipt)]
  /\ \A d \in Docs : Len(receipt[d]) <= MaxReceipts
  /\ parent \in Parent /\ worker \in [Workers -> Process] /\ run \in Run
  /\ late \subseteq Docs /\ faults \in 0 .. MaxFaults

\* The pointer of the series and the states of the indexes agree: a version
\* is published exactly if it is the current one and its index is verified,
\* whichever of build, activation and retirement came first.
PointerAgrees ==
  \A d \in Docs : doc[d].index = "published" <=> series.current = d /\ doc[d].verified = "yes"

\* Whatever can be read is whole and its source is kept, unless a worker that
\* had lost its lock wrote to it (the store has no fencing).
ReadableWhole ==
  \A d \in Docs \ late : Readable(d) => Whole(d) /\ stored[d].file = "present"

\* A version called retired has left nothing behind, with the same exception.
RetiredClean ==
  \A d \in Docs \ late :
    doc[d].status = "retired" => stored[d].chunks = {} /\ stored[d].file = "gone"

\* The parent reports success only when every version is gone.
ParentTruth ==
  parent.state = "succeeded" => \A d \in Present : doc[d].status = "retired"

\* No answer was made from a version that was being removed or rebuilt.
AnswerFromWhole == run.state = "answered" /\ run.pins \cap late = {} => run.read = "whole"

\* A version that left never comes back: no build that is still on its way, no
\* retry and no activation revives it.
LeavesForGood ==
  [][\A d \in Docs :
       /\ doc[d].status = "deleting" => doc'[d].status \in {"deleting", "retired"}
       /\ doc[d].status = "retired" => doc'[d].status = "retired"]_vars

\* A receipt that has ended is history: retries get receipts of their own.
ReceiptsFinal ==
  [][\A d \in Docs : \A i \in DOMAIN receipt[d] :
       /\ i \in DOMAIN receipt'[d]
       /\ receipt[d][i].state \in Ended => receipt'[d][i] = receipt[d][i]]_vars

\* Every task ends, waits for Runs included: a Run that is over or past its
\* deadline does not hold a retirement up.
EveryTaskEnds ==
  \A d \in Docs : job[d].state \in {"queued", "running"} ~> job[d].state \in Ended

=============================================================================
