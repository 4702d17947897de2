-------------------------- MODULE MemorySyncProofs --------------------------
(***************************************************************************)
(* What MemorySync promises, for any number of messages, files, processes  *)
(* and generations.                                                        *)
(*                                                                         *)
(* Recall: a readable row belongs to the generation the user consents to   *)
(* now, and a tombstone stays.  This needs nothing of the workers: a row   *)
(* is changed by the user's own actions, which block the rows of the       *)
(* generation they leave, and by two transactions of the workers, one of   *)
(* which compares the generations and the other only erases.               *)
(*                                                                         *)
(* Jobs: a message is sent at most once and under the consent it was       *)
(* written under, and a purge that is reported as done is true.  This does *)
(* need to know where the workers are.  Move(w) says what a step of worker *)
(* w may do to the jobs, the sessions, the workers and the messages; one   *)
(* lemma per action shows that it is such a move.  The three parts of the  *)
(* invariant (Structure, Sending, Cleaning) then follow from Move for      *)
(* everybody but w, and for w from the step it took.                       *)
(***************************************************************************)
EXTENDS MemorySync, FiniteSetTheorems, SequenceTheorems, WellFoundedInduction, TLAPS

-----------------------------------------------------------------------------
(* The inductive invariant.                                                *)

\* The part of the type invariant that the argument needs.
Shape ==
  /\ consent \in Consent
  /\ memory \in [Generations -> [Uris -> MemoryRows]]

IInv == Shape /\ ReadyIsCurrent

-----------------------------------------------------------------------------
(* What one step can do to the rows and to the consent.                    *)

\* The row of file u in generation g: kept, blocked, or written for the
\* first time under the present consent.
RowStep(g, u) ==
  \/ memory'[g][u] = memory[g][u]
  \/ memory[g][u] # "none" /\ memory'[g][u] \in {"deleting", "deleted"}
  \/ /\ memory[g][u] = "none" /\ memory'[g][u] = "ready"
     /\ consent.enabled /\ consent.gen = g /\ consent' = consent

\* The consent: kept, given, or its generation left with no row readable.
ConsentStep ==
  \/ (consent.enabled => consent'.enabled) /\ consent'.gen = consent.gen
  \/ \A u \in Uris : memory'[consent.gen][u] # "ready"

\* A step of the store seen from the rows and the consent.
StoreStep ==
  /\ Shape'
  /\ \A g \in Generations, u \in Uris : RowStep(g, u)
  /\ ConsentStep

-----------------------------------------------------------------------------

\* Steps that leave consent and rows alone.
LEMMA Elsewhere ==
  ASSUME Shape, UNCHANGED <<consent, memory>>
  PROVE  StoreStep
  BY DEF Shape, StoreStep, RowStep, ConsentStep

\* Leaving a generation blocks all its rows (_clear).
LEMMA RetireBlocks ==
  ASSUME Shape, Retire, consent' \in Consent
  PROVE  StoreStep
<1> DEFINE blocked == [u \in Uris |->
             IF memory[consent.gen][u] = "none" THEN "none" ELSE "deleting"]
<1>1. consent.gen \in Generations
  BY DEF Shape, Consent
<1>2. memory' = [memory EXCEPT ![consent.gen] = blocked]
  BY Zenon DEF Retire
<1>3. blocked \in [Uris -> MemoryRows]
  BY DEF MemoryRows
<1>4. memory' \in [Generations -> [Uris -> MemoryRows]]
  BY <1>2, <1>3 DEF Shape
<1>5. \A g \in Generations, u \in Uris : memory'[g][u] =
        IF g = consent.gen THEN IF memory[g][u] = "none" THEN "none" ELSE "deleting"
        ELSE memory[g][u]
  BY <1>1, <1>2 DEF Shape
<1>6. \A g \in Generations, u \in Uris : RowStep(g, u)
  BY <1>5 DEF RowStep
<1>7. ConsentStep
  BY <1>1, <1>5 DEF ConsentStep
<1> QED
  BY <1>4, <1>6, <1>7 DEF StoreStep, Shape

\* What the user does (set_enabled, clear, delete, and the chat).
LEMMA UserStep ==
  ASSUME Shape, User
  PROVE  StoreStep
<1>1. CASE Enable
  <2>1. consent' = [consent EXCEPT !.enabled = TRUE, !.fresh = {}] /\ memory' = memory
    BY <1>1 DEF Enable
  <2>2. consent' \in Consent /\ consent'.enabled /\ consent'.gen = consent.gen
    BY <2>1, Zenon DEF Shape, Consent
  <2> QED
    BY <2>1, <2>2 DEF Shape, StoreStep, RowStep, ConsentStep
<1>2. CASE Disable
  <2>1. consent.gen + 1 \in Generations
    BY <1>2, MemoryAssumption DEF Disable, Retire, Shape, Consent, Generations
  <2>2. consent' \in Consent
    BY <1>2, <2>1 DEF Disable, Consent
  <2> QED
    BY <1>2, <2>2, RetireBlocks DEF Disable
<1>3. CASE Clear
  <2>1. consent.gen + 1 \in Generations
    BY <1>3, MemoryAssumption DEF Clear, Retire, Shape, Consent, Generations
  <2>2. consent' \in Consent
    BY <1>3, <2>1, Zenon DEF Clear, Cleared, Shape, Consent
  <2> QED
    BY <1>3, <2>2, RetireBlocks DEF Clear
<1>4. ASSUME NEW u \in Uris, Delete(u) PROVE StoreStep
  <2>1. /\ memory' = [memory EXCEPT ![consent.gen][u] = "deleting"]
        /\ memory[consent.gen][u] # "none"
        /\ consent' = consent
    BY <1>4 DEF Delete
  <2>2. memory' \in [Generations -> [Uris -> MemoryRows]]
    BY <2>1 DEF Shape, MemoryRows
  <2>3. \A g \in Generations, v \in Uris : RowStep(g, v)
    BY <2>1 DEF Shape, RowStep
  <2> QED
    BY <2>1, <2>2, <2>3 DEF Shape, StoreStep, ConsentStep
<1>5. ASSUME NEW c \in Messages, Ask(c) PROVE StoreStep
  <2>1. consent' = [consent EXCEPT !.fresh = @ \cup {c}] /\ memory' = memory
    BY <1>5 DEF Ask
  <2>2. /\ consent' \in Consent /\ consent'.gen = consent.gen
        /\ consent'.enabled = consent.enabled
    BY <2>1, Zenon DEF Shape, Consent
  <2> QED
    BY <2>1, <2>2 DEF Shape, StoreStep, RowStep, ConsentStep
<1>6. ASSUME NEW c \in Messages,
             Search(c) \/ Recheck(c) \/ Erase(c)
               \/ \E cited \in SUBSET chat[c].got :
                    Refuse(c, cited) \/ \E b \in BOOLEAN : Answer(c, cited, b)
      PROVE  StoreStep
  BY <1>6, Elsewhere DEF Search, Recheck, Erase, Refuse, Answer
<1> QED
  BY <1>1, <1>2, <1>3, <1>4, <1>5, <1>6 DEF User

\* A publication writes unknown files only, and only under the consent that
\* the job was created under (_publish).
LEMMA PublishStep ==
  ASSUME Shape, NEW w \in Workers, Publish(w)
  PROVE  StoreStep
<1> DEFINE g0 == Held(w).gen
           put == remote[Held(w).on].put
           del == remote[Held(w).on].del
<1>1. consent' = consent
  BY DEF Publish
<1>2. CASE memory' = memory
  BY <1>1, <1>2, Elsewhere
<1>3. CASE Consented(w) /\ memory' = [memory EXCEPT ![g0] = Published(@, put, del)]
  <2>1. consent.enabled /\ consent.gen = g0 /\ g0 \in Generations
    BY <1>3 DEF Consented, Shape, Consent
  <2> HIDE DEF g0, put, del
  <2>2. \A u \in Uris : memory'[g0][u] =
          IF u \in del /\ memory[g0][u] # "none" THEN "deleted"
          ELSE IF u \in put /\ memory[g0][u] = "none" THEN "ready" ELSE memory[g0][u]
    BY <1>3, <2>1 DEF Published, Shape
  <2>3. \A g \in Generations : g # g0 => memory'[g] = memory[g]
    BY <1>3 DEF Shape
  <2>4. Published(memory[g0], put, del) \in [Uris -> MemoryRows]
    BY <2>1 DEF Published, Shape, MemoryRows
  <2>5. memory' \in [Generations -> [Uris -> MemoryRows]]
    BY <1>3, <2>4 DEF Shape
  <2>6. \A g \in Generations, u \in Uris : RowStep(g, u)
    BY <1>1, <2>1, <2>2, <2>3 DEF RowStep
  <2> QED
    BY <1>1, <2>5, <2>6 DEF Shape, StoreStep, ConsentStep
<1> QED
  BY <1>2, <1>3 DEF Publish

\* The end of a cleanup only blocks rows (_cleanup).
LEMMA SettleStep ==
  ASSUME Shape, NEW w \in Workers, Settle(w)
  PROVE  StoreStep
<1> DEFINE g0 == Held(w).gen
           erased == [u \in Uris |->
             IF u \in Targets(w) /\ memory[g0][u] # "none" THEN "deleted" ELSE memory[g0][u]]
<1>1. consent' = consent
  BY DEF Settle
<1>2. CASE memory' = memory
  BY <1>1, <1>2, Elsewhere
<1>3. CASE memory' = [memory EXCEPT ![g0] = erased] /\ g0 \in Generations
  <2>1. erased \in [Uris -> MemoryRows]
    BY <1>3 DEF Shape, MemoryRows
  <2> HIDE DEF g0
  <2>2. memory' \in [Generations -> [Uris -> MemoryRows]]
    BY <1>3, <2>1 DEF Shape
  <2>3. \A g \in Generations, u \in Uris : memory'[g][u] =
          IF g = g0 /\ u \in Targets(w) /\ memory[g][u] # "none" THEN "deleted" ELSE memory[g][u]
    BY <1>3 DEF Shape
  <2>4. \A g \in Generations, u \in Uris : RowStep(g, u)
    BY <2>3 DEF RowStep
  <2> QED
    BY <1>1, <2>2, <2>4 DEF Shape, StoreStep, ConsentStep
<1>4. CASE memory' = [memory EXCEPT ![g0] = erased] /\ g0 \notin Generations
  <2>1. memory' = memory
    BY <1>4 DEF Shape
  <2> QED
    BY <1>2, <2>1
<1> QED
  BY <1>2, <1>3, <1>4, Zenon DEF Settle

\* The other steps of a worker do not touch the rows.
LEMMA WorkerStep ==
  ASSUME Shape, NEW w \in Workers, Step(w)
  PROVE  StoreStep
<1>1. CASE Publish(w) \/ Settle(w)
  BY <1>1, PublishStep, SettleStep
<1>2. CASE ~(Publish(w) \/ Settle(w))
  <2>1. CASE Begin(w) \/ Open(w) \/ Record(w) \/ AppendMessage(w)
    BY <2>1, Elsewhere DEF Begin, Open, Record, AppendMessage
  <2>2. CASE \E reply \in {"task", "skipped", "silent"} : Commit(w, reply)
    BY <2>2, Elsewhere DEF Commit
  <2>3. CASE Unknown(w) \/ Poll(w) \/ RemoveTombstoned(w)
    BY <2>3, Elsewhere DEF Unknown, Poll, RemoveTombstoned
  <2>4. CASE Load(w) \/ Inspect(w) \/ Drop(w)
    BY <2>4, Elsewhere DEF Load, Inspect, Drop
  <2>5. CASE Mark(w) \/ Finish(w) \/ Remove(w) \/ Handle(w)
    BY <2>5, Elsewhere DEF Mark, Finish, Remove, Handle
  <2> QED
    BY <1>2, <2>1, <2>2, <2>3, <2>4, <2>5 DEF Step
<1> QED
  BY <1>1, <1>2

\* Every step of the system is such a step of the store.
LEMMA NextStep ==
  ASSUME Shape, [Next]_vars
  PROVE  StoreStep
<1>1. CASE User
  BY <1>1, UserStep
<1>2. ASSUME NEW w \in Workers, Step(w) PROVE StoreStep
  BY <1>2, WorkerStep
<1>3. ASSUME NEW w \in Workers,
             RequestFails(w) \/ Crash(w) \/ \E j \in Jobs : Claim(w, j)
      PROVE  StoreStep
  <2>1. UNCHANGED <<consent, memory>>
    BY <1>3, Zenon DEF RequestFails, Crash, Claim
  <2> QED
    BY <2>1, Elsewhere
<1>4. CASE \E j \in Jobs : LeaseEnds(j) \/ Age(j)
  BY <1>4, Elsewhere DEF LeaseEnds, Age
<1>5. CASE \E c \in Messages, put \in SUBSET Uris, del \in SUBSET Uris,
              end \in {"completed", "failed"} : Extract(c, put, del, end)
  BY <1>5, Elsewhere DEF Extract
<1>6. CASE UNCHANGED vars
  BY <1>6, Elsewhere DEF vars
<1> QED
  BY <1>1, <1>2, <1>3, <1>4, <1>5, <1>6 DEF Next

-----------------------------------------------------------------------------

\* The consent and the rows have the states of the code, and no publication
\* slips in behind a clear or a disable.
THEOREM Recallable == Spec => []IInv
<1>1. Init => IInv
  BY MemoryAssumption DEF Init, IInv, Shape, Consent, Generations, MemoryRows, ReadyIsCurrent
<1>2. IInv /\ [Next]_vars => IInv'
  <2> SUFFICES ASSUME IInv, [Next]_vars PROVE IInv'
    OBVIOUS
  <2>1. StoreStep
    BY NextStep DEF IInv
  <2>2. ASSUME NEW g \in Generations, NEW u \in Uris, memory'[g][u] = "ready"
        PROVE  consent'.enabled /\ consent'.gen = g
    <3>1. RowStep(g, u) /\ ConsentStep
      BY <2>1 DEF StoreStep
    <3>2. CASE memory'[g][u] = memory[g][u]
      <4>1. consent.enabled /\ consent.gen = g
        BY <2>2, <3>2 DEF IInv, ReadyIsCurrent
      <4> QED
        BY <2>2, <3>1, <4>1 DEF ConsentStep
    <3>3. CASE consent.enabled /\ consent.gen = g /\ consent' = consent
      BY <3>3
    <3> QED
      BY <2>2, <3>1, <3>2, <3>3 DEF RowStep
  <2>3. ReadyIsCurrent'
    BY <2>2 DEF ReadyIsCurrent
  <2>4. Shape'
    BY <2>1 DEF StoreStep
  <2> QED
    BY <2>3, <2>4 DEF IInv
<1> QED
  BY <1>1, <1>2, PTL DEF Spec

\* What can be recalled belongs to the generation the user consents to now.
THEOREM RecallIsCurrent == Spec => []ReadyIsCurrent
<1>1. IInv => ReadyIsCurrent
  BY DEF IInv
<1> QED
  BY <1>1, Recallable, PTL

\* A deleted memory does not come back.
THEOREM DeletedStays == Spec => TombstonesStay
<1> DEFINE Kept == \A g \in Generations, u \in Uris :
             u \in Blocked(g) => memory'[g][u] \in {"deleting", "deleted"}
<1>1. IInv /\ [Next]_vars => [Kept]_vars
  <2> SUFFICES ASSUME IInv, [Next]_vars, NEW g \in Generations, NEW u \in Uris, u \in Blocked(g)
               PROVE  memory'[g][u] \in {"deleting", "deleted"}
    OBVIOUS
  <2>1. RowStep(g, u)
    BY NextStep DEF IInv, StoreStep
  <2>2. memory[g][u] \in {"deleting", "deleted"}
    BY DEF Blocked
  <2> QED
    BY <2>1, <2>2 DEF RowStep
<1> QED
  BY <1>1, Recallable, PTL DEF Spec, TombstonesStay

-----------------------------------------------------------------------------
(* The inductive invariant of the jobs.                                    *)

\* The steps of _capture and of _cleanup.
CaptureSteps == {"begin", "open", "opened", "append", "appended", "resume", "commit",
                 "receipt", "poll", "tombs", "publish"}
CleanupSteps == {"load", "inspect", "drop", "mark", "remove", "settle"}
\* What a receipt and a state may say.
Phases == {"new", "appending", "appended", "committing", "waiting"}
States == LiveStates \cup {"succeeded", "failed", "uncertain", "cancelled"}

Capture(i) == jobs[i].kind = "capture"
\* Worker w holds the job under the row's present owner_token.
Mine(w) == Held(w).owner = w

\* The captures of generation g that have begun.
Traces(g) == {i \in Jobs : Capture(i) /\ jobs[i].gen = g /\ jobs[i].phase # "new"}

\* What a process has in memory fits the job it works on.
WorkerOK(w) ==
  /\ worker[w].at # "idle" => worker[w].job \in Jobs
  /\ worker[w].at \in CaptureSteps => Capture(worker[w].job)
  /\ worker[w].at \in CleanupSteps => ~Capture(worker[w].job)
  /\ worker[w].at \in {"inspect", "drop", "mark"} => worker[w].todo \subseteq Traces(Held(w).gen)
  /\ worker[w].at \in {"drop", "mark"} => worker[w].todo # {}

\* A job fits what it is about and the consent it was made under.
JobOK(i) ==
  /\ Capture(i) => /\ jobs[i].on \in Messages /\ chat[jobs[i].on].at \in {"answered", "erased"}
                   /\ jobs[i].gen = chat[jobs[i].on].under
  /\ jobs[i].kind = "delete" => jobs[i].on \in Uris
  /\ jobs[i].gen <= consent.gen
  /\ jobs[i].kind = "purge" => jobs[i].gen < consent.gen
  /\ Live(i) => jobs[i].attempts < MaxAttempts
  /\ jobs[i].phase # "new" => jobs[i].owner # NoOne

\* One capture per message, a purge last of its generation, and no job claimed
\* before those of its generation ahead of it are finished.
OrderOK(i, j) ==
  /\ Capture(i) /\ Capture(j) /\ jobs[i].on = jobs[j].on => i = j
  /\ jobs[i].kind = "purge" /\ jobs[j].gen = jobs[i].gen => j <= i
  /\ i < j /\ jobs[i].gen = jobs[j].gen /\ jobs[j].owner # NoOne => ~Live(i)

\* Messages that may be captured were written under the present consent.
FreshOK == consent.enabled => \A c \in consent.fresh : chat[c].under = consent.gen

\* Everything of the shape of jobs, workers and consent.
Structure ==
  /\ TypeOK
  /\ \A w \in Workers : WorkerOK(w)
  /\ \A i \in Jobs : JobOK(i)
  /\ \A i, j \in Jobs : OrderOK(i, j)
  /\ FreshOK

\* The phase of the receipt behind a worker's next step.
InPhase(at, phase) ==
  /\ at \in {"open", "opened"} => phase = "new"
  /\ at \in {"append", "appended"} => phase = "appending"
  /\ at = "resume" => phase = "appended"
  /\ at \in {"commit", "receipt"} => phase = "committing"
  /\ at \in {"poll", "tombs", "publish"} => phase = "waiting"

\* A worker in the middle of a capture: while it is the owner the phase is its
\* own; a worker that stood still may have lost the job, but what it is about
\* to do has not been done.
SenderOK(w) ==
  LET s == remote[Held(w).on] IN
  /\ Mine(w) => InPhase(worker[w].at, Held(w).phase)
  /\ worker[w].at = "opened" => s.at # "none"
  /\ worker[w].at = "append" => Held(w).phase # "new" /\ s.appends = 0
  /\ worker[w].at = "commit" => Held(w).phase = "committing" /\ s.commits = 0
  /\ worker[w].at = "receipt" =>
       /\ Held(w).phase \in {"committing", "waiting"}
       /\ worker[w].reply \in {"task", "skipped", "silent"}
       /\ worker[w].reply = "skipped" => s.task = "none"
       /\ worker[w].reply = "silent" => s.unticketed

\* Two workers at steps `ats' of one job are the same.
Together(v, w, ats) ==
  worker[v].at \in ats /\ worker[w].at \in ats /\ worker[v].job = worker[w].job => v = w

\* What the receipt of capture i says of its session.
CaptureOK(i) ==
  LET s == remote[jobs[i].on] IN
  /\ jobs[i].phase = "new" => s.appends = 0
  /\ jobs[i].phase # "new" => s.at # "none"
  /\ jobs[i].phase \notin {"committing", "waiting"} => s.commits = 0
  /\ jobs[i].task => jobs[i].phase = "waiting"
  /\ jobs[i].phase = "waiting" /\ ~jobs[i].task => s.task = "none" \/ s.unticketed

\* A session has what its capture's requests can have put into it.
SessionOK(c) ==
  /\ remote[c].appends <= 1 /\ remote[c].commits <= 1
  /\ remote[c].at = "filled" => remote[c].appends = 1
  /\ remote[c].task # "none" => remote[c].commits = 1
  /\ (\A i \in Jobs : ~(Capture(i) /\ jobs[i].on = c)) =>
       remote[c].appends = 0 /\ remote[c].commits = 0

\* Everything about the sending of messages.
Sending ==
  /\ \A w \in Workers : worker[w].at \in CaptureSteps => SenderOK(w)
  /\ \A v, w \in Workers : Together(v, w, {"append"}) /\ Together(v, w, {"commit", "receipt"})
  /\ \A i \in Jobs : Capture(i) => CaptureOK(i)
  /\ \A c \in Messages : SessionOK(c)

\* The captures of generation g.
Captures(g) == {i \in Jobs : Capture(i) /\ jobs[i].gen = g}
Unticketed(g) == \E i \in Captures(g) : remote[jobs[i].on].unticketed

\* Nobody works on capture i any more, and no extraction of it is under way.
Quiet(i) ==
  /\ ~Live(i) /\ jobs[i].phase # "committing"
  /\ remote[jobs[i].on].task = "running" => remote[jobs[i].on].unticketed

\* Capture i has no session with the user's words.
Clean(i) ==
  jobs[i].phase = "new" \/ remote[jobs[i].on].at = "removed" \/ remote[jobs[i].on].reopened

Done(i) == Quiet(i) /\ Clean(i)

\* What the owner of a cleanup has done so far.
CleanerOK(w) ==
  LET g == Held(w).gen IN
  Mine(w) =>
  /\ worker[w].at \in {"drop", "mark"} => Quiet(Current(w))
  /\ worker[w].at = "mark" => Clean(Current(w))
  /\ Held(w).kind = "purge" =>
     /\ worker[w].at \in {"inspect", "drop", "mark"} =>
          \A i \in Captures(g) : i \in worker[w].todo \/ Done(i)
     /\ worker[w].at \in {"remove", "settle"} => \A i \in Captures(g) : Done(i)
     /\ worker[w].at = "settle" => space[g] = {} \/ Unticketed(g)

\* What holds of a generation from the moment its purge is reported as done.
PurgedOK(g) ==
  Purged(g) => /\ \A i \in Captures(g) : Done(i)
               /\ space[g] = {} \/ Unticketed(g)

\* Everything about cleanups.
Cleaning ==
  /\ \A i \in Jobs : Capture(i) /\ jobs[i].gone => Done(i)
  /\ \A w \in Workers : worker[w].at \in CleanupSteps => CleanerOK(w)
  /\ \A g \in Generations : PurgedOK(g)

-----------------------------------------------------------------------------
(* What one step can do to the jobs, the workers and the messages.         *)

\* What a step of worker w (NoOne: not of a worker) may make of row i.
JobMove(w, i, row) ==
  /\ row.kind = jobs[i].kind /\ row.gen = jobs[i].gen /\ row.on = jobs[i].on
  /\ row.state \in LiveStates => Live(i) /\ row.attempts < MaxAttempts
  /\ \/ row.owner = jobs[i].owner
     \/ row.owner = w /\ w \in Workers /\ worker[w] = Idle /\ ~Preceded(i)
  /\ \/ row.phase = jobs[i].phase /\ row.task = jobs[i].task
     \/ /\ w \in Workers /\ i = worker[w].job /\ Owned(w)
        /\ \/ worker[w].at = "opened" /\ row.phase = "appending" /\ row.task = jobs[i].task
           \/ worker[w].at = "appended" /\ row.phase = "appended" /\ row.task = jobs[i].task
           \/ worker[w].at = "resume" /\ row.phase = "committing" /\ row.task = jobs[i].task
           \/ worker[w].at = "receipt" /\ row.phase = "waiting" /\ row.task = (worker[w].reply = "task")
  /\ \/ row.gone = jobs[i].gone
     \/ w \in Workers /\ worker[w].at = "mark" /\ Owned(w) /\ i = Current(w)
  /\ row.state = "succeeded" =>
       \/ jobs[i].state = "succeeded"
       \/ /\ w \in Workers /\ i = worker[w].job /\ Owned(w)
          /\ worker[w].at \in {"publish", "settle"}

\* A row that a step adds to the jobs.
Made(i) ==
  /\ i = Len(jobs) + 1
  /\ jobs'[i].state = "pending" /\ jobs'[i].phase = "new" /\ jobs'[i].owner = NoOne
  /\ jobs'[i].attempts = 0 /\ ~jobs'[i].task /\ ~jobs'[i].gone
  /\ jobs'[i].gen = consent.gen
  /\ \/ /\ jobs'[i].kind = "capture" /\ jobs'[i].on \in Messages
        /\ chat[jobs'[i].on].at \in {"asked", "recalled"}
        /\ chat'[jobs'[i].on].at = "answered"
        /\ chat[jobs'[i].on].under = consent.gen
     \/ jobs'[i].kind = "delete" /\ jobs'[i].on \in Uris
     \/ jobs'[i].kind = "purge" /\ consent'.gen = consent.gen + 1

\* What a step of worker w may make of the jobs.
JobsMove(w) ==
  /\ jobs' \in Seq(Job)
  /\ Jobs \subseteq DOMAIN jobs'
  /\ \A i \in Jobs : JobMove(w, i, jobs'[i])
  /\ \A i \in DOMAIN jobs' \ Jobs : Made(i)

\* A row that is not touched.
LEMMA RowKept ==
  ASSUME Structure, NEW w, NEW i \in Jobs
  PROVE  JobMove(w, i, jobs[i])
  BY DEF JobMove, Structure, JobOK, Live

\* One row is written.
LEMMA RowWritten ==
  ASSUME Structure, NEW w, NEW j \in Jobs, NEW row \in Job, JobMove(w, j, row),
         jobs' = [jobs EXCEPT ![j] = row]
  PROVE  JobsMove(w)
<1>1. jobs' \in Seq(Job) /\ DOMAIN jobs' = Jobs
  BY DEF Structure, TypeOK, Jobs
<1>2. \A i \in Jobs : jobs'[i] = IF i = j THEN row ELSE jobs[i]
  BY DEF Structure, TypeOK, Jobs
<1>3. \A i \in Jobs : JobMove(w, i, jobs'[i])
  BY <1>2, RowKept
<1> QED
  BY <1>1, <1>3 DEF JobsMove

\* No row is written.
LEMMA JobsKept ==
  ASSUME Structure, NEW w, UNCHANGED jobs
  PROVE  JobsMove(w)
  BY RowKept DEF JobsMove, Structure, TypeOK, Jobs

\* enqueue: a row is added at the end, or there was one.
LEMMA RowAdded ==
  ASSUME Structure, NEW w, NEW kind \in {"capture", "delete", "purge"},
         NEW x \in Messages \cup Uris \cup {NoOne}, jobs' = Enqueued(kind, consent.gen, x),
         \/ /\ kind = "capture" /\ x \in Messages /\ chat[x].at \in {"asked", "recalled"}
            /\ chat'[x].at = "answered" /\ chat[x].under = consent.gen
         \/ kind = "delete" /\ x \in Uris
         \/ kind = "purge" /\ consent'.gen = consent.gen + 1
  PROVE  JobsMove(w)
<1>1. CASE jobs' = jobs
  BY <1>1, JobsKept
<1> DEFINE row == [kind |-> kind, gen |-> consent.gen, on |-> x, state |-> "pending",
                     phase |-> "new", task |-> FALSE, gone |-> FALSE, attempts |-> 0,
                     owner |-> NoOne, lease |-> FALSE, old |-> FALSE]
<1>2. CASE jobs' = Append(jobs, row)
  <2>1. row \in Job
    BY MemoryAssumption DEF Job, LiveStates, Structure, TypeOK, Consent
  <2>2. row.kind = kind /\ row.gen = consent.gen /\ row.on = x /\ row.state = "pending"
        /\ row.phase = "new" /\ row.task = FALSE /\ row.gone = FALSE /\ row.attempts = 0
        /\ row.owner = NoOne
    OBVIOUS
  <2> HIDE DEF row
  <2>3. jobs' \in Seq(Job) /\ DOMAIN jobs' = 1..(Len(jobs) + 1) /\ Jobs = 1..Len(jobs)
        /\ Len(jobs) \in Nat
    BY <1>2, <2>1 DEF Structure, TypeOK, Jobs
  <2>4. \A i \in DOMAIN jobs' : jobs'[i] = IF i = Len(jobs) + 1 THEN row ELSE jobs[i]
    BY <1>2, <2>1, <2>3 DEF Structure, TypeOK
  <2>5. \A i \in Jobs : JobMove(w, i, jobs'[i])
    <3>1. \A i \in Jobs : jobs'[i] = jobs[i]
      BY <2>3, <2>4
    <3> QED
      BY <3>1, RowKept
  <2>6. \A i \in DOMAIN jobs' \ Jobs : i = Len(jobs) + 1 /\ jobs'[i] = row
    BY <2>3, <2>4
  <2>7. \A i \in DOMAIN jobs' \ Jobs : Made(i)
    BY <2>2, <2>6 DEF Made
  <2> QED
    BY <2>3, <2>5, <2>7 DEF JobsMove
<1> QED
  BY <1>1, <1>2, Zenon DEF Enqueued

\* Worker w may go on, the others stay where they are.
WorkersMove(w) ==
  /\ worker' \in [Workers -> Worker]
  /\ \A v \in Workers : v # w => worker'[v] = worker[v]
  /\ w \in Workers => WorkerOK(w)'

\* The consent and the messages: nothing that was answered or left is undone.
TalkMove ==
  /\ consent' \in Consent /\ consent.gen <= consent'.gen
  /\ chat' \in [Messages -> Chat]
  /\ \A c \in Messages : chat[c].at \in {"answered", "erased"} =>
       chat'[c].at \in {"answered", "erased"} /\ chat'[c].under = chat[c].under
  /\ \A c \in Messages : chat'[c].at = "answered" => chat'[c].under = chat[c].under
  /\ FreshOK'

\* The server's part and the count of faults.
ServerOK ==
  /\ remote \in [Messages -> Session]
  /\ space \in [Generations -> SUBSET Uris]
  /\ faults \in 0..MaxFaults

\* A step made of such moves keeps the shape of everything.
LEMMA StructureKept ==
  ASSUME Structure, NEW w, JobsMove(w), WorkersMove(w), TalkMove, ServerOK', Shape'
  PROVE  Structure'
<1>1. /\ jobs \in Seq(Job) /\ jobs' \in Seq(Job)
      /\ \A i \in Jobs : jobs[i] \in Job
      /\ \A i \in Jobs' : jobs'[i] \in Job
      /\ Jobs \subseteq Jobs' /\ Jobs \subseteq Nat /\ Jobs' \subseteq Nat
      /\ \A i \in Jobs : JobMove(w, i, jobs'[i])
      /\ \A i \in Jobs' \ Jobs : Made(i) /\ i = Len(jobs) + 1
      /\ \A i \in Jobs : i < Len(jobs) + 1
      /\ \A i \in Jobs : \A j \in 1..(i - 1) : j \in Jobs
      /\ Len(jobs) \in Nat
  BY DEF JobsMove, Jobs, Structure, TypeOK, Made
<1>2. TypeOK'
  BY <1>1 DEF TypeOK, WorkersMove, TalkMove, ServerOK, Shape
<1>3. /\ \A i \in Jobs : /\ jobs'[i].kind = jobs[i].kind /\ jobs'[i].gen = jobs[i].gen
                         /\ jobs'[i].on = jobs[i].on
                         /\ Live(i)' => Live(i) /\ jobs'[i].attempts < MaxAttempts
                         /\ jobs[i].phase # "new" => jobs'[i].phase # "new"
  BY <1>1 DEF JobMove, Live
<1>4. ASSUME NEW v \in Workers PROVE WorkerOK(v)'
  <2>1. CASE v = w
    BY <2>1 DEF WorkersMove
  <2>2. CASE v # w
    <3>1. worker'[v] = worker[v] /\ WorkerOK(v)
      BY <2>2 DEF WorkersMove, Structure
    <3>2. CASE worker[v].at = "idle"
      BY <3>1, <3>2 DEF WorkerOK, CaptureSteps, CleanupSteps
    <3>3. CASE worker[v].at # "idle"
      <4>1. worker[v].job \in Jobs /\ worker[v].job \in Jobs'
        BY <1>1, <3>1, <3>3 DEF WorkerOK
      <4>2. Capture(worker[v].job)' <=> Capture(worker[v].job)
        BY <1>3, <3>1, <4>1 DEF Capture
      <4>3. Held(v).gen' = Held(v).gen
        BY <1>3, <3>1, <4>1 DEF Held
      <4>4. ASSUME NEW i \in Traces(Held(v).gen) PROVE i \in Traces(Held(v).gen)'
        BY <1>1, <1>3, <4>3 DEF Traces, Capture
      <4> QED
        BY <3>1, <4>1, <4>2, <4>4 DEF WorkerOK, Capture
    <3> QED
      BY <3>2, <3>3
  <2> QED
    BY <2>1, <2>2
<1>5. \A c \in Messages : chat[c].under \in Nat /\ chat'[c].under \in Nat
  BY MemoryAssumption DEF Structure, TypeOK, TalkMove, Chat
<1>6. consent.gen \in Nat /\ consent'.gen \in Nat /\ consent.gen <= consent'.gen
  BY MemoryAssumption DEF TalkMove, Structure, TypeOK, Consent, Generations
<1>7. \A i \in Jobs' : jobs'[i].gen \in Nat
  BY <1>1, MemoryAssumption DEF Job, Generations
<1>8. ASSUME NEW i \in Jobs' PROVE JobOK(i)'
  <2>1. CASE i \in Jobs
    <3>1. JobOK(i)
      BY <2>1 DEF Structure
    <3>2. jobs'[i].phase # "new" => jobs'[i].owner # NoOne
      <4>1. JobMove(w, i, jobs'[i]) /\ NoOne \notin Workers
        BY <1>1, <2>1, MemoryAssumption
      <4>2. CASE jobs'[i].phase = jobs[i].phase
        BY <3>1, <4>1, <4>2 DEF JobMove, JobOK
      <4>3. CASE jobs'[i].phase # jobs[i].phase
        <5>1. w \in Workers /\ jobs[i].owner = w
          BY <4>1, <4>3 DEF JobMove, Owned, Held
        <5> QED
          BY <4>1, <5>1 DEF JobMove
      <4> QED
        BY <4>2, <4>3
    <3>3. Capture(i)' => /\ jobs'[i].on \in Messages
                         /\ chat'[jobs'[i].on].at \in {"answered", "erased"}
                         /\ jobs'[i].gen = chat'[jobs'[i].on].under
      BY <1>3, <2>1, <3>1 DEF JobOK, Capture, TalkMove
    <3>4. jobs'[i].gen <= consent'.gen /\ (jobs'[i].kind = "purge" => jobs'[i].gen < consent'.gen)
      BY <1>3, <1>6, <1>7, <2>1, <3>1 DEF JobOK
    <3> QED
      BY <1>3, <2>1, <3>1, <3>2, <3>3, <3>4 DEF JobOK, Capture
  <2>2. CASE i \notin Jobs
    <3>1. Made(i)
      BY <1>1, <2>2
    <3> QED
      BY <3>1, <1>6, MemoryAssumption DEF Made, JobOK, Capture, Live, TalkMove
  <2> QED
    BY <2>1, <2>2
<1>9. ASSUME NEW i \in Jobs', NEW j \in Jobs' PROVE OrderOK(i, j)'
  <2>1. CASE i \in Jobs /\ j \in Jobs
    <3>1. OrderOK(i, j)
      BY <2>1 DEF Structure
    <3>2. ASSUME i < j, jobs'[i].gen = jobs'[j].gen, jobs'[j].owner # NoOne
          PROVE  ~Live(i)'
      <4>1. CASE jobs[j].owner # NoOne
        BY <1>3, <2>1, <3>1, <3>2, <4>1 DEF OrderOK
      <4>2. CASE jobs[j].owner = NoOne
        <5>1. ~Preceded(j)
          BY <1>1, <2>1, <3>2, <4>2 DEF JobMove
        <5>2. i \in 1..(j - 1)
          BY <1>1, <2>1, <3>2 DEF Jobs
        <5> QED
          BY <1>3, <2>1, <3>2, <5>1, <5>2 DEF Preceded
      <4> QED
        BY <4>1, <4>2
    <3>3. Capture(i)' /\ Capture(j)' /\ jobs'[i].on = jobs'[j].on => i = j
      BY <1>3, <2>1, <3>1 DEF OrderOK, Capture
    <3>4. jobs'[i].kind = "purge" /\ jobs'[j].gen = jobs'[i].gen => j <= i
      BY <1>3, <2>1, <3>1 DEF OrderOK
    <3> QED
      BY <3>2, <3>3, <3>4 DEF OrderOK, Capture
  <2>2. CASE i \in Jobs /\ j \notin Jobs
    <3>1. Made(j) /\ j = Len(jobs) + 1 /\ JobOK(i) /\ i < j
      BY <1>1, <2>2 DEF Structure
    <3>2. ~(Capture(i)' /\ Capture(j)' /\ jobs'[i].on = jobs'[j].on)
      BY <1>3, <2>2, <3>1 DEF Made, JobOK, Capture
    <3>3. ~(jobs'[i].kind = "purge" /\ jobs'[j].gen = jobs'[i].gen)
      BY <1>3, <1>6, <1>7, <2>2, <3>1 DEF Made, JobOK
    <3> QED
      BY <3>1, <3>2, <3>3 DEF OrderOK, Capture, Made
  <2>3. CASE i \notin Jobs /\ j \in Jobs
    <3>1. Made(i) /\ i = Len(jobs) + 1 /\ JobOK(j) /\ j < i /\ i \in Nat /\ j \in Nat
      BY <1>1, <2>3 DEF Structure
    <3>2. ~(Capture(i)' /\ Capture(j)' /\ jobs'[i].on = jobs'[j].on)
      BY <1>3, <2>3, <3>1 DEF Made, JobOK, Capture
    <3> QED
      BY <3>1, <3>2 DEF OrderOK, Capture
  <2>4. CASE i \notin Jobs /\ j \notin Jobs
    <3>1. i = j /\ i \in Nat
      BY <1>1, <2>4
    <3> QED
      BY <3>1 DEF OrderOK
  <2> QED
    BY <2>1, <2>2, <2>3, <2>4
<1>10. FreshOK'
  BY DEF TalkMove
<1> QED
  BY <1>2, <1>4, <1>8, <1>9, <1>10 DEF Structure

-----------------------------------------------------------------------------
(* The pieces such a step is made of.                                      *)

\* Where a worker may be.
Steps == CaptureSteps \cup CleanupSteps \cup {"idle", "handler"}

\* Steps that leave the consent and the messages alone.
LEMMA TalkKept ==
  ASSUME Structure, UNCHANGED <<consent, chat>>
  PROVE  TalkMove
  BY MemoryAssumption DEF TalkMove, Structure, TypeOK, FreshOK, Consent, Generations

\* A worker may always leave.
LEMMA Left ==
  ASSUME Structure, NEW w \in Workers, Leave(w)
  PROVE  WorkersMove(w)
<1>1. Idle \in Worker
  BY DEF Idle, Worker
<1>2. worker' = [worker EXCEPT ![w] = Idle]
  BY DEF Leave
<1>3. worker \in [Workers -> Worker]
  BY DEF Structure, TypeOK
<1>4. worker'[w].at = "idle"
  BY <1>2, <1>3 DEF Idle
<1>5. WorkerOK(w)'
  BY <1>4 DEF WorkerOK, CaptureSteps, CleanupSteps
<1> QED
  BY <1>1, <1>2, <1>3, <1>5 DEF WorkersMove

\* A worker goes on with its job.
LEMMA Moved ==
  ASSUME Structure, NEW w \in Workers, JobsMove(w), NEW x \in Worker,
         worker' = [worker EXCEPT ![w] = x],
         worker[w].at # "idle", x.job = worker[w].job,
         x.at \in CaptureSteps => worker[w].at \in CaptureSteps,
         x.at \in CleanupSteps => worker[w].at \in CleanupSteps,
         x.at \in {"inspect", "drop", "mark"} => x.todo \subseteq Traces(Held(w).gen),
         x.at \in {"drop", "mark"} => x.todo # {}
  PROVE  WorkersMove(w)
<1>1. worker \in [Workers -> Worker] /\ WorkerOK(w)
  BY DEF Structure, TypeOK
<1>2. worker'[w] = x
  BY <1>1
<1>3. worker[w].job \in Jobs /\ worker[w].job \in Jobs'
  BY <1>1 DEF WorkerOK, JobsMove, Jobs
<1>4. \A i \in Jobs : JobMove(w, i, jobs'[i]) /\ i \in Jobs'
  BY DEF JobsMove, Jobs
<1>5. \A i \in Jobs : /\ jobs'[i].kind = jobs[i].kind /\ jobs'[i].gen = jobs[i].gen
                      /\ jobs[i].phase # "new" => jobs'[i].phase # "new"
  BY <1>4 DEF JobMove
<1>6. (Capture(worker[w].job) <=> Capture(worker[w].job)')
  BY <1>2, <1>3, <1>5 DEF Capture
<1>7. Held(w)'.gen = Held(w).gen
  BY <1>2, <1>3, <1>5 DEF Held
<1>8. ASSUME NEW i \in Traces(Held(w).gen) PROVE i \in Traces(Held(w).gen)'
  BY <1>4, <1>5, <1>7 DEF Traces, Capture
<1>9. WorkerOK(w)'
  BY <1>1, <1>2, <1>3, <1>6, <1>8 DEF WorkerOK, Capture
<1> QED
  BY <1>1, <1>9 DEF WorkersMove

\* A worker goes to its next step and changes nothing else in memory.
LEMMA Went ==
  ASSUME Structure, NEW w \in Workers, JobsMove(w), NEW at \in Steps, Goto(w, at),
         worker[w].at # "idle",
         at \in CaptureSteps => worker[w].at \in CaptureSteps,
         at \in CleanupSteps => worker[w].at \in CleanupSteps,
         at \in {"inspect", "drop", "mark"} =>
           worker[w].todo \subseteq Traces(Held(w).gen) /\ worker[w].todo # {}
  PROVE  WorkersMove(w)
<1>1. worker \in [Workers -> Worker]
  BY DEF Structure, TypeOK
<1> DEFINE x == [worker[w] EXCEPT !.at = at]
<1>2. x \in Worker /\ x.at = at /\ x.job = worker[w].job /\ x.todo = worker[w].todo
  BY <1>1 DEF Worker, Steps, CaptureSteps, CleanupSteps
<1>3. worker' = [worker EXCEPT ![w] = x]
  BY <1>1 DEF Goto
<1> HIDE DEF x
<1> QED
  BY <1>2, <1>3, Moved

\* A worker goes on with the reply of a request, or with its error.
LEMMA Replied ==
  ASSUME Structure, NEW w \in Workers, JobsMove(w), NEW at \in Steps, Reply(w, at),
         worker[w].at # "idle",
         at \in CaptureSteps => worker[w].at \in CaptureSteps,
         at \in CleanupSteps => worker[w].at \in CleanupSteps,
         at \in {"inspect", "drop", "mark"} =>
           worker[w].todo \subseteq Traces(Held(w).gen) /\ worker[w].todo # {}
  PROVE  WorkersMove(w) /\ faults' \in 0..MaxFaults
<1>1. faults' \in 0..MaxFaults
  BY MemoryAssumption DEF Reply, Structure, TypeOK
<1>2. CASE Goto(w, at)
  BY <1>1, <1>2, Went
<1>3. CASE Goto(w, "handler")
  <2>1. "handler" \in Steps /\ "handler" \notin CaptureSteps /\ "handler" \notin CleanupSteps
    BY DEF Steps, CaptureSteps, CleanupSteps
  <2> QED
    BY <1>1, <1>3, <2>1, Went
<1> QED
  BY <1>2, <1>3 DEF Reply

\* _save_progress writes a row that the owner may write.
LEMMA Progressed ==
  ASSUME Structure, NEW w \in Workers, worker[w].at # "idle", Owned(w),
         NEW phase \in Phases, NEW state \in States \ {"succeeded"},
         \/ phase = Held(w).phase
         \/ worker[w].at = "opened" /\ phase = "appending"
         \/ worker[w].at = "appended" /\ phase = "appended"
         \/ worker[w].at = "resume" /\ phase = "committing"
  PROVE  /\ Progress(w, phase, state) \in Job
         /\ JobMove(w, worker[w].job, Progress(w, phase, state))
<1>1. worker[w].job \in Jobs /\ Held(w) \in Job /\ Held(w) = jobs[worker[w].job]
  BY DEF Structure, TypeOK, WorkerOK, Held, Jobs
<1>2. Progress(w, phase, state) \in Job
  <2> DEFINE lease == (state = "running")
  <2>1. Progress(w, phase, state) =
          [Held(w) EXCEPT !.phase = phase, !.state = state, !.lease = lease]
    BY DEF Progress
  <2>2. lease \in BOOLEAN
    OBVIOUS
  <2> HIDE DEF lease
  <2> QED
    BY <1>1, <2>1, <2>2 DEF Job, Phases, States
<1>3. /\ Progress(w, phase, state).kind = Held(w).kind
      /\ Progress(w, phase, state).gen = Held(w).gen
      /\ Progress(w, phase, state).on = Held(w).on
      /\ Progress(w, phase, state).owner = Held(w).owner
      /\ Progress(w, phase, state).phase = phase
      /\ Progress(w, phase, state).task = Held(w).task
      /\ Progress(w, phase, state).gone = Held(w).gone
      /\ Progress(w, phase, state).attempts = Held(w).attempts
      /\ Progress(w, phase, state).state = state
  BY <1>1 DEF Progress, Job
<1>4. Live(worker[w].job) /\ Held(w).attempts < MaxAttempts
  BY <1>1 DEF Owned, Live, LiveStates, Structure, JobOK
<1> HIDE DEF Progress
<1> QED
  BY <1>1, <1>2, <1>3, <1>4 DEF JobMove

-----------------------------------------------------------------------------

\* What a step of worker w may make of the session of message c.
SessionMove(w, c, s) ==
  /\ \/ s.appends = remote[c].appends
     \/ /\ w \in Workers /\ worker[w].at = "append" /\ c = Held(w).on
        /\ s.appends = remote[c].appends + 1
  /\ \/ /\ s.commits = remote[c].commits
        /\ s.task = remote[c].task \/ (remote[c].task = "running" /\ s.task # "running")
     \/ /\ w \in Workers /\ worker[w].at = "commit" /\ c = Held(w).on
        /\ s.commits = remote[c].commits + 1
  /\ remote[c].at # "none" => s.at # "none"
  /\ s.at = "filled" =>
       \/ remote[c].at = "filled"
       \/ w \in Workers /\ worker[w].at = "append" /\ c = Held(w).on /\ Known(c)
            /\ s.appends = remote[c].appends + 1
  /\ remote[c].at = "removed" => s.at = "removed" \/ s.reopened
  /\ remote[c].reopened => s.reopened
  /\ remote[c].unticketed => s.unticketed

SessionsMove(w) == \A c \in Messages : SessionMove(w, c, remote'[c])

\* A step that the whole system sees as one of worker w (NoOne: of nobody).
Move(w) ==
  /\ JobsMove(w) /\ WorkersMove(w) /\ TalkMove /\ SessionsMove(w)
  /\ ServerOK'

\* Steps that make no request.
LEMMA ServerKept ==
  ASSUME Structure, NEW w, UNCHANGED <<remote, space, faults>>
  PROVE  SessionsMove(w) /\ ServerOK'
  BY DEF SessionsMove, SessionMove, Structure, TypeOK, ServerOK, Session

\* A request about one session.
LEMMA SessionWritten ==
  ASSUME Structure, NEW w, NEW c \in Messages, NEW s \in Session, SessionMove(w, c, s),
         remote' = [remote EXCEPT ![c] = s]
  PROVE  SessionsMove(w) /\ remote' \in [Messages -> Session]
<1>1. remote \in [Messages -> Session]
  BY DEF Structure, TypeOK
<1>2. \A d \in Messages : SessionMove(w, d, remote[d])
  BY <1>1 DEF SessionMove, Session
<1>3. \A d \in Messages : remote'[d] = IF d = c THEN s ELSE remote[d]
  BY <1>1
<1>4. \A d \in Messages : SessionMove(w, d, remote'[d])
  BY <1>2, <1>3
<1> QED
  BY <1>1, <1>4 DEF SessionsMove

-----------------------------------------------------------------------------
(* The steps of a worker that only write to the table of jobs.             *)

\* The job of a worker that has one.
LEMMA HeldOK ==
  ASSUME Structure, NEW w \in Workers, worker[w].at # "idle"
  PROVE  /\ worker[w] \in Worker /\ worker[w].job \in Jobs
         /\ Held(w) = jobs[worker[w].job] /\ Held(w) \in Job /\ WorkerOK(w) /\ JobOK(worker[w].job)
  BY DEF Structure, TypeOK, WorkerOK, Held, Jobs

\* Begin, Record, Poll, Inspect and Finish: Progress with its guard.
LEMMA ProgressMoves ==
  ASSUME Structure, NEW w \in Workers, worker[w].at # "idle",
         NEW phase \in Phases, NEW state \in States \ {"succeeded"},
         \/ phase = Held(w).phase
         \/ worker[w].at = "opened" /\ phase = "appending"
         \/ worker[w].at = "appended" /\ phase = "appended"
         \/ worker[w].at = "resume" /\ phase = "committing",
         NEW at \in Steps,
         Write(w, Progress(w, phase, state), Goto(w, at)) \/ Write(w, Progress(w, phase, state), Leave(w)),
         at \in CaptureSteps => worker[w].at \in CaptureSteps,
         at \in CleanupSteps => worker[w].at \in CleanupSteps,
         at \in {"inspect", "drop", "mark"} =>
           worker[w].todo \subseteq Traces(Held(w).gen) /\ worker[w].todo # {}
  PROVE  JobsMove(w) /\ WorkersMove(w)
<1>1. worker[w].job \in Jobs
  BY HeldOK
<1>2. CASE ~Owned(w)
  <2>1. UNCHANGED jobs /\ Leave(w)
    BY <1>2 DEF Write
  <2> QED
    BY <2>1, JobsKept, Left
<1>3. CASE Owned(w)
  <2>1. /\ Progress(w, phase, state) \in Job
        /\ JobMove(w, worker[w].job, Progress(w, phase, state))
    BY <1>3, Progressed
  <2>2. jobs' = [jobs EXCEPT ![worker[w].job] = Progress(w, phase, state)]
    BY <1>3, Zenon DEF Write
  <2>3. JobsMove(w)
    BY <1>1, <2>1, <2>2, RowWritten
  <2>4. Goto(w, at) \/ Leave(w)
    BY <1>3, Zenon DEF Write
  <2> QED
    BY <2>3, <2>4, Left, Went
<1> QED
  BY <1>2, <1>3

\* What nobody but the worker's jobs notices.
LEMMA QuietMove ==
  ASSUME Structure, NEW w, JobsMove(w), WorkersMove(w), UNCHANGED <<consent, chat, remote, space, faults>>
  PROVE  Move(w)
  BY TalkKept, ServerKept DEF Move

\* _capture begins, goes on where it was, or gives up.
LEMMA BeginMoves ==
  ASSUME Structure, NEW w \in Workers, Begin(w)
  PROVE  Move(w)
<1>1. worker[w].at = "begin" /\ UNCHANGED <<consent, chat, remote, space, faults>>
  BY DEF Begin
<1>2. Held(w).phase \in Phases
  BY <1>1, HeldOK DEF Job, Phases
<1>3. ASSUME NEW state \in {"cancelled", "uncertain"},
             Write(w, Progress(w, Held(w).phase, state), Leave(w))
      PROVE  JobsMove(w) /\ WorkersMove(w)
  <2>1. state \in States \ {"succeeded"}
    BY DEF States
  <2>2. "idle" \in Steps /\ "idle" \notin CaptureSteps /\ "idle" \notin CleanupSteps
    BY DEF Steps, CaptureSteps, CleanupSteps
  <2> QED
    BY <1>1, <1>2, <1>3, <2>1, <2>2, ProgressMoves
<1>4. ASSUME NEW at \in {"resume", "poll", "open"}, Goto(w, at), UNCHANGED jobs
      PROVE  JobsMove(w) /\ WorkersMove(w)
  <2>1. at \in Steps /\ at \notin CleanupSteps /\ "begin" \in CaptureSteps
    BY DEF Steps, CaptureSteps, CleanupSteps
  <2> QED
    BY <1>1, <1>4, <2>1, JobsKept, Went
<1>5. JobsMove(w) /\ WorkersMove(w)
  BY <1>3, <1>4 DEF Begin
<1> QED
  BY <1>1, <1>5, QuietMove

\* The row with the receipt of a commit.
LEMMA ReceiptMoves ==
  ASSUME Structure, NEW w \in Workers, worker[w].at = "receipt", Owned(w),
         NEW row, row = [Progress(w, "waiting", "running") EXCEPT !.task = (worker[w].reply = "task")]
  PROVE  row \in Job /\ JobMove(w, worker[w].job, row)
<1>1. worker[w].job \in Jobs /\ Held(w) \in Job /\ Held(w) = jobs[worker[w].job]
  BY HeldOK
<1>2. (worker[w].reply = "task") \in BOOLEAN
  OBVIOUS
<1>3. row \in Job
  <2> DEFINE task == (worker[w].reply = "task")
  <2>1. row = [Held(w) EXCEPT !.phase = "waiting", !.state = "running", !.lease = TRUE, !.task = task]
    BY <1>1 DEF Progress
  <2>2. task \in BOOLEAN
    OBVIOUS
  <2> HIDE DEF task
  <2> QED
    BY <1>1, <2>1, <2>2 DEF Job, LiveStates
<1>4. /\ row.kind = Held(w).kind /\ row.gen = Held(w).gen /\ row.on = Held(w).on
      /\ row.owner = Held(w).owner /\ row.phase = "waiting" /\ row.task = (worker[w].reply = "task")
      /\ row.gone = Held(w).gone /\ row.attempts = Held(w).attempts /\ row.state = "running"
  BY <1>1 DEF Progress, Job
<1>5. Live(worker[w].job) /\ Held(w).attempts < MaxAttempts
  BY <1>1 DEF Owned, Live, LiveStates, Structure, JobOK
<1> QED
  BY <1>1, <1>3, <1>4, <1>5 DEF JobMove

\* The writes of the receipt.
LEMMA RecordMoves ==
  ASSUME Structure, NEW w \in Workers, Record(w)
  PROVE  Move(w)
<1>1. UNCHANGED <<consent, chat, remote, space, faults>>
  BY DEF Record
<1>2. {"opened", "append", "appended", "resume", "commit", "receipt", "poll", "publish"}
        \subseteq CaptureSteps
      /\ "handler" \notin CaptureSteps /\ "handler" \in Steps
      /\ CaptureSteps \subseteq Steps /\ CaptureSteps \cap CleanupSteps = {}
      /\ "handler" \notin CleanupSteps /\ {"appending", "appended", "committing"} \subseteq Phases
      /\ "running" \in States \ {"succeeded"}
      /\ {"inspect", "drop", "mark"} \subseteq CleanupSteps
  BY DEF Steps, CaptureSteps, CleanupSteps, Phases, States, LiveStates
<1>3. CASE /\ worker[w].at = "opened"
           /\ Write(w, Progress(w, "appending", "running"), Goto(w, "append"))
  <2>1. JobsMove(w) /\ WorkersMove(w)
    BY <1>2, <1>3, ProgressMoves
  <2> QED
    BY <1>1, <2>1, QuietMove
<1>4. CASE /\ worker[w].at = "appended"
           /\ Write(w, Progress(w, "appended", "running"), Goto(w, "resume"))
  <2>1. JobsMove(w) /\ WorkersMove(w)
    BY <1>2, <1>4, ProgressMoves
  <2> QED
    BY <1>1, <2>1, QuietMove
<1>5. CASE /\ worker[w].at = "resume"
           /\ Write(w, Progress(w, "committing", "running"), Goto(w, "commit"))
  <2>1. JobsMove(w) /\ WorkersMove(w)
    BY <1>2, <1>5, ProgressMoves
  <2> QED
    BY <1>1, <2>1, QuietMove
<1>6. CASE worker[w].at = "receipt"
  <2> DEFINE row == [Progress(w, "waiting", "running") EXCEPT !.task = (worker[w].reply = "task")]
  <2>1. CASE ~Owned(w)
    <3>1. UNCHANGED jobs /\ Leave(w)
      BY <1>6, <2>1 DEF Record, Write
    <3> QED
      BY <1>1, <3>1, JobsKept, Left, QuietMove
  <2>2. CASE Owned(w)
    <3>1. PICK at \in {"poll", "publish", "handler"} :
            Goto(w, at) /\ jobs' = [jobs EXCEPT ![worker[w].job] = row]
      BY <1>6, <2>2 DEF Record, Write
    <3>2. row \in Job /\ JobMove(w, worker[w].job, row)
      BY <1>6, <2>2, ReceiptMoves
    <3> HIDE DEF row
    <3>3. JobsMove(w)
      BY <1>6, <3>1, <3>2, HeldOK, RowWritten
    <3>4. at \in Steps /\ at \notin CleanupSteps
      BY <1>2
    <3>5. WorkersMove(w)
      BY <1>2, <1>6, <3>1, <3>3, <3>4, Went
    <3> QED
      BY <1>1, <3>3, <3>5, QuietMove
  <2> QED
    BY <2>1, <2>2
<1> QED
  BY <1>3, <1>4, <1>5, <1>6 DEF Record

\* The capture of a worker in its steps.
LEMMA Carries ==
  ASSUME Structure, NEW w \in Workers, worker[w].at \in CaptureSteps
  PROVE  /\ Held(w).on \in Messages /\ Capture(worker[w].job)
         /\ remote[Held(w).on] \in Session
<1>1. worker[w].at # "idle"
  BY DEF CaptureSteps
<1> QED
  BY <1>1, HeldOK DEF WorkerOK, JobOK, Capture, Structure, TypeOK

\* The names of the steps.
LEMMA RequestSteps ==
  /\ {"open", "opened", "append", "appended", "commit", "receipt", "poll", "tombs", "publish"} \subseteq CaptureSteps
  /\ {"load", "inspect", "drop", "mark", "remove", "settle"} \subseteq CleanupSteps
  /\ CaptureSteps \subseteq Steps /\ CleanupSteps \subseteq Steps
  /\ CaptureSteps \cap CleanupSteps = {} /\ {"idle", "handler"} \subseteq Steps
  /\ "handler" \notin CaptureSteps /\ "handler" \notin CleanupSteps
  /\ "idle" \notin CaptureSteps /\ "idle" \notin CleanupSteps
  BY DEF Steps, CaptureSteps, CleanupSteps

\* The session is created.
LEMMA OpenMoves ==
  ASSUME Structure, NEW w \in Workers, Open(w)
  PROVE  Move(w)
<1> DEFINE c == Held(w).on
           s == [remote[c] EXCEPT
                  !.at = IF remote[c].at \in {"none", "removed"} THEN "open" ELSE remote[c].at,
                  !.reopened = remote[c].reopened \/ remote[c].at = "removed"]
<1>1. worker[w].at = "open" /\ c \in Messages /\ remote[c] \in Session
  BY Carries, RequestSteps DEF Open
<1>2. JobsMove(w) /\ TalkMove
  BY JobsKept, TalkKept DEF Open
<1>3. WorkersMove(w) /\ faults' \in 0..MaxFaults
  BY <1>1, <1>2, Replied, RequestSteps DEF Open
<1>4. remote' = [remote EXCEPT ![c] = s]
  BY <1>1 DEF Open, Structure, TypeOK
<1>5. s \in Session
  BY <1>1 DEF Session
<1>6. SessionMove(w, c, s)
  BY <1>1 DEF SessionMove, Session
<1> HIDE DEF c, s
<1>7. SessionsMove(w) /\ remote' \in [Messages -> Session]
  BY <1>1, <1>4, <1>5, <1>6, SessionWritten
<1>8. space' \in [Generations -> SUBSET Uris]
  BY DEF Open, Structure, TypeOK
<1> QED
  BY <1>2, <1>3, <1>7, <1>8 DEF Move, ServerOK

\* The message is appended.
LEMMA AppendMoves ==
  ASSUME Structure, WrittenOnce, NEW w \in Workers, AppendMessage(w)
  PROVE  Move(w)
<1> DEFINE c == Held(w).on
           s == [remote[c] EXCEPT !.at = "filled", !.appends = remote[c].appends + 1]
<1>1. worker[w].at = "append" /\ c \in Messages /\ remote[c] \in Session /\ Known(c)
  BY Carries, RequestSteps DEF AppendMessage
<1>2. JobsMove(w) /\ TalkMove
  BY JobsKept, TalkKept DEF AppendMessage
<1>3. WorkersMove(w) /\ faults' \in 0..MaxFaults
  BY <1>1, <1>2, Replied, RequestSteps DEF AppendMessage
<1>4. remote' = [remote EXCEPT ![c] = s]
  BY <1>1 DEF AppendMessage, Structure, TypeOK
<1>5. s \in Session
  <2>1. remote[c].appends \in 0..2 /\ remote[c].appends <= 1
    BY <1>1 DEF Session, WrittenOnce
  <2>2. remote[c].appends + 1 \in 0..2
    BY <2>1
  <2> QED
    BY <1>1, <2>2 DEF Session
<1>6. SessionMove(w, c, s)
  BY <1>1 DEF SessionMove, Session, Known
<1> HIDE DEF c, s
<1>7. SessionsMove(w) /\ remote' \in [Messages -> Session]
  BY <1>1, <1>4, <1>5, <1>6, SessionWritten
<1>8. space' \in [Generations -> SUBSET Uris]
  BY DEF AppendMessage, Structure, TypeOK
<1> QED
  BY <1>2, <1>3, <1>7, <1>8 DEF Move, ServerOK

\* The session is committed.
LEMMA CommitMoves ==
  ASSUME Structure, WrittenOnce, NEW w \in Workers,
         NEW reply \in {"task", "skipped", "silent"}, Commit(w, reply)
  PROVE  Move(w)
<1> DEFINE c == Held(w).on
           s == [remote[c] EXCEPT !.commits = remote[c].commits + 1,
                  !.task = IF reply = "skipped" THEN remote[c].task ELSE "running",
                  !.unticketed = remote[c].unticketed \/ reply = "silent"]
<1>1. worker[w].at = "commit" /\ c \in Messages /\ remote[c] \in Session /\ Known(c)
  BY Carries, RequestSteps DEF Commit
<1>2. JobsMove(w) /\ TalkMove
  BY JobsKept, TalkKept DEF Commit
<1>3. WorkersMove(w) /\ faults' \in 0..MaxFaults
  <2>1. CASE worker' = [worker EXCEPT ![w].at = "receipt", ![w].reply = reply] /\ faults' = faults
    <3> DEFINE x == [worker[w] EXCEPT !.at = "receipt", !.reply = reply]
    <3>1. worker[w] \in Worker /\ worker \in [Workers -> Worker]
      BY <1>1, HeldOK DEF Structure, TypeOK
    <3>2. x \in Worker /\ x.at = "receipt" /\ x.job = worker[w].job
      BY <3>1 DEF Worker
    <3>3. worker' = [worker EXCEPT ![w] = x]
      BY <2>1, <3>1
    <3> HIDE DEF x
    <3>4. WorkersMove(w)
      BY <1>1, <1>2, <3>2, <3>3, Moved, RequestSteps
    <3> QED
      BY <2>1, <3>4 DEF Structure, TypeOK
  <2>2. CASE faults < MaxFaults /\ faults' = faults + 1 /\ Goto(w, "handler")
    BY <1>1, <1>2, <2>2, Replied, RequestSteps DEF Reply
  <2> QED
    BY <2>1, <2>2 DEF Commit
<1>4. remote' = [remote EXCEPT ![c] = s]
  BY <1>1 DEF Commit, Structure, TypeOK
<1>5. s \in Session
  <2>1. remote[c].commits \in 0..2 /\ remote[c].commits <= 1
    BY <1>1 DEF Session, WrittenOnce
  <2>2. /\ remote[c].commits + 1 \in 0..2
        /\ (remote[c].unticketed \/ reply = "silent") \in BOOLEAN
        /\ (IF reply = "skipped" THEN remote[c].task ELSE "running")
             \in {"none", "running", "completed", "failed"}
    BY <1>1, <2>1 DEF Session
  <2> QED
    BY <1>1, <2>2 DEF Session
<1>6. SessionMove(w, c, s)
  BY <1>1 DEF SessionMove, Session
<1> HIDE DEF c, s
<1>7. SessionsMove(w) /\ remote' \in [Messages -> Session]
  BY <1>1, <1>4, <1>5, <1>6, SessionWritten
<1>8. space' \in [Generations -> SUBSET Uris]
  BY DEF Commit, Structure, TypeOK
<1> QED
  BY <1>2, <1>3, <1>7, <1>8 DEF Move, ServerOK

\* A session that is gone.
LEMMA UnknownMoves ==
  ASSUME Structure, NEW w \in Workers, Unknown(w)
  PROVE  Move(w)
<1>1. worker[w].at # "idle"
  BY DEF Unknown
<1>2. JobsMove(w)
  BY JobsKept DEF Unknown
<1>3. WorkersMove(w)
  BY <1>1, <1>2, Went, RequestSteps DEF Unknown
<1> QED
  BY <1>2, <1>3, QuietMove DEF Unknown

\* The extraction is looked at.
LEMMA PollMoves ==
  ASSUME Structure, Sending, NEW w \in Workers, Poll(w)
  PROVE  Move(w)
<1>1. worker[w].at = "poll" /\ UNCHANGED <<consent, chat, remote, space, faults>>
  BY DEF Poll
<1>2. CASE Write(w, Progress(w, "waiting", "waiting"), Leave(w))
  <2>1. CASE ~Owned(w)
    <3>1. UNCHANGED jobs /\ Leave(w)
      BY <1>2, <2>1 DEF Write
    <3> QED
      BY <1>1, <3>1, JobsKept, Left, QuietMove
  <2>2. CASE Owned(w)
    <3>1. Held(w).phase = "waiting"
      BY <1>1, <2>2, RequestSteps DEF Sending, SenderOK, InPhase, Owned, Mine
    <3>2. "waiting" \in Phases /\ "waiting" \in States \ {"succeeded"}
      BY DEF Phases, States, LiveStates
    <3>3. JobsMove(w) /\ WorkersMove(w)
      BY <1>1, <1>2, <3>1, <3>2, RequestSteps, ProgressMoves
    <3> QED
      BY <1>1, <3>3, QuietMove
  <2> QED
    BY <2>1, <2>2
<1>3. ASSUME NEW at \in {"handler", "tombs"}, Goto(w, at), UNCHANGED jobs
      PROVE  Move(w)
  <2>1. JobsMove(w)
    BY <1>3, JobsKept
  <2>2. at \in Steps /\ at \notin CleanupSteps /\ "poll" \in CaptureSteps
    BY RequestSteps
  <2>3. WorkersMove(w)
    BY <1>1, <1>3, <2>1, <2>2, RequestSteps, Went
  <2> QED
    BY <1>1, <2>1, <2>3, QuietMove
<1> QED
  BY <1>2, <1>3 DEF Poll

\* Files written over tombstones are removed.
LEMMA TombsMoves ==
  ASSUME Structure, NEW w \in Workers, RemoveTombstoned(w)
  PROVE  Move(w)
<1>1. worker[w].at = "tombs" /\ remote' = remote
  BY DEF RemoveTombstoned
<1>2. JobsMove(w) /\ TalkMove
  BY JobsKept, TalkKept DEF RemoveTombstoned
<1>3. WorkersMove(w) /\ faults' \in 0..MaxFaults
  BY <1>1, <1>2, Replied, RequestSteps DEF RemoveTombstoned
<1>4. SessionsMove(w)
  BY <1>1 DEF SessionsMove, SessionMove, Structure, TypeOK, Session
<1>5. space' \in [Generations -> SUBSET Uris] /\ remote' \in [Messages -> Session]
  BY DEF RemoveTombstoned, Structure, TypeOK
<1> QED
  BY <1>2, <1>3, <1>4, <1>5 DEF Move, ServerOK

\* The last write of a job, by its owner.
LEMMA Closed ==
  ASSUME Structure, NEW w \in Workers, worker[w].at # "idle", Owned(w),
         NEW state \in States, NEW attempts \in 0..MaxAttempts,
         state = "succeeded" => worker[w].at \in {"publish", "settle"},
         state \in LiveStates => attempts < MaxAttempts,
         NEW row, row = [Held(w) EXCEPT !.state = state, !.attempts = attempts, !.lease = FALSE],
         jobs' = [jobs EXCEPT ![worker[w].job] = row]
  PROVE  JobsMove(w)
<1>1. worker[w].job \in Jobs /\ Held(w) \in Job /\ Held(w) = jobs[worker[w].job]
  BY HeldOK
<1>2. row \in Job
  BY <1>1 DEF Job, States
<1>3. /\ row.kind = Held(w).kind /\ row.gen = Held(w).gen /\ row.on = Held(w).on
      /\ row.owner = Held(w).owner /\ row.phase = Held(w).phase /\ row.task = Held(w).task
      /\ row.gone = Held(w).gone /\ row.attempts = attempts /\ row.state = state
  BY <1>1 DEF Job
<1>4. Live(worker[w].job)
  BY <1>1 DEF Owned, Live, LiveStates
<1>5. JobMove(w, worker[w].job, row)
  BY <1>1, <1>3, <1>4 DEF JobMove
<1> QED
  BY <1>1, <1>2, <1>5, RowWritten

\* _publish ends a capture.
LEMMA PublishMoves ==
  ASSUME Structure, NEW w \in Workers, Publish(w)
  PROVE  Move(w)
<1>1. worker[w].at = "publish" /\ UNCHANGED <<consent, chat, remote, space, faults>> /\ Leave(w)
  BY DEF Publish
<1>2. CASE ~Owned(w)
  BY <1>1, <1>2, JobsKept, Left, QuietMove DEF Publish
<1>3. CASE Owned(w)
  <2>1. PICK state \in {"succeeded", "cancelled"} :
          jobs' = [jobs EXCEPT ![worker[w].job].lease = FALSE, ![worker[w].job].state = state]
    BY <1>3 DEF Publish
  <2>2. worker[w].job \in Jobs /\ Held(w) \in Job /\ Held(w) = jobs[worker[w].job] /\ jobs \in Seq(Job)
    BY <1>1, HeldOK DEF Structure, TypeOK
  <2> DEFINE row == [Held(w) EXCEPT !.state = state, !.attempts = Held(w).attempts, !.lease = FALSE]
  <2>3. jobs' = [jobs EXCEPT ![worker[w].job] = row]
    BY <2>1, <2>2 DEF Job, Jobs
  <2>4. state \in States /\ state \notin LiveStates /\ Held(w).attempts \in 0..MaxAttempts
    BY <2>2 DEF States, LiveStates, Job
  <2>5. JobsMove(w)
    BY <1>1, <1>3, <2>3, <2>4, Closed
  <2> QED
    BY <1>1, <2>5, Left, QuietMove
<1> QED
  BY <1>2, <1>3

\* The last transaction of _cleanup.
LEMMA SettleMoves ==
  ASSUME Structure, NEW w \in Workers, Settle(w)
  PROVE  Move(w)
<1>1. worker[w].at = "settle" /\ UNCHANGED <<consent, chat, remote, space, faults>> /\ Leave(w)
  BY DEF Settle
<1>2. CASE ~Owned(w)
  BY <1>1, <1>2, JobsKept, Left, QuietMove DEF Settle
<1>3. CASE Owned(w)
  <2>1. jobs' = [jobs EXCEPT ![worker[w].job].state = "succeeded", ![worker[w].job].lease = FALSE]
    BY <1>3 DEF Settle
  <2>2. worker[w].job \in Jobs /\ Held(w) \in Job /\ Held(w) = jobs[worker[w].job] /\ jobs \in Seq(Job)
    BY <1>1, HeldOK DEF Structure, TypeOK
  <2> DEFINE row == [Held(w) EXCEPT !.state = "succeeded", !.attempts = Held(w).attempts, !.lease = FALSE]
  <2>3. jobs' = [jobs EXCEPT ![worker[w].job] = row]
    BY <2>1, <2>2 DEF Job, Jobs
  <2>4. "succeeded" \in States /\ "succeeded" \notin LiveStates /\ Held(w).attempts \in 0..MaxAttempts
    BY <2>2 DEF States, LiveStates, Job
  <2>5. JobsMove(w)
    BY <1>1, <1>3, <2>3, <2>4, Closed
  <2> QED
    BY <1>1, <2>5, Left, QuietMove
<1> QED
  BY <1>2, <1>3

\* The except clause of run_once.
LEMMA HandleMoves ==
  ASSUME Structure, NEW w \in Workers, Handle(w)
  PROVE  Move(w)
<1>1. worker[w].at = "handler" /\ UNCHANGED <<consent, chat, remote, space, faults>> /\ Leave(w)
  BY DEF Handle
<1>2. CASE ~Owned(w)
  BY <1>1, <1>2, JobsKept, Left, QuietMove DEF Handle
<1>3. CASE Owned(w)
  <2> DEFINE state == Failed(Held(w), worker[w].reply = "uncertain")
  <2>1. worker[w].job \in Jobs /\ Held(w) \in Job /\ Held(w) = jobs[worker[w].job] /\ jobs \in Seq(Job)
        /\ JobOK(worker[w].job) /\ Live(worker[w].job)
    BY <1>1, <1>3, HeldOK DEF Structure, TypeOK, Owned, Live, LiveStates
  <2> DEFINE row == [Held(w) EXCEPT !.state = state, !.attempts = Held(w).attempts + 1, !.lease = FALSE]
  <2>2. state \in States \ {"succeeded"}
    BY DEF Failed, States, LiveStates
  <2>3. Held(w).attempts + 1 \in 0..MaxAttempts
    BY <2>1, MemoryAssumption DEF JobOK, Job
  <2>4. state \in LiveStates => Held(w).attempts + 1 < MaxAttempts
    BY <2>3, MemoryAssumption DEF Failed, LiveStates
  <2>5. jobs' = [jobs EXCEPT ![worker[w].job].state = state,
                             ![worker[w].job].attempts = Held(w).attempts + 1,
                             ![worker[w].job].lease = FALSE]
    BY <1>3, <2>1 DEF Handle
  <2> HIDE DEF state
  <2>6. jobs' = [jobs EXCEPT ![worker[w].job] = row]
    BY <2>1, <2>5 DEF Job, Jobs
  <2>7. JobsMove(w)
    BY <1>1, <1>3, <2>2, <2>3, <2>4, <2>6, Closed
  <2> QED
    BY <1>1, <2>7, Left, QuietMove
<1> QED
  BY <1>2, <1>3

\* The next capture of a cleanup is one of those it has listed.
LEMMA Least ==
  ASSUME NEW T \in SUBSET Nat, T # {}
  PROVE  Min(T) \in T
<1> DEFINE R == {ss \in Nat \X Nat : ss[1] < ss[2]}
<1>1. IsWellFoundedOn(R, Nat)
  BY NatLessThanWellFounded DEF OpToRel
<1>2. PICK x \in T : \A y \in T : ~(<<y, x>> \in R)
  <2> HIDE DEF R
  <2> QED
    BY <1>1, WFMin
<1>3. \A y \in T : ~(y < x)
  BY <1>2
<1>4. \E z \in T : \A y \in T : z =< y
  BY <1>3
<1> QED
  BY <1>4, Zenon DEF Min

\* The capture a cleanup is at is one that has begun.
LEMMA CurrentListed ==
  ASSUME Structure, NEW w \in Workers, worker[w].at \in {"inspect", "drop", "mark"},
         worker[w].todo # {}
  PROVE  /\ Current(w) \in worker[w].todo /\ Current(w) \in Traces(Held(w).gen)
         /\ Current(w) \in Jobs /\ Capture(Current(w)) /\ jobs[Current(w)].on \in Messages
<1>1. worker[w].todo \subseteq Traces(Held(w).gen) /\ worker[w].todo \in SUBSET Nat
  BY DEF Structure, TypeOK, WorkerOK, Worker
<1>2. Current(w) \in worker[w].todo
  BY <1>1, Least DEF Current
<1>3. Current(w) \in Jobs /\ Capture(Current(w))
  BY <1>1, <1>2 DEF Traces
<1> QED
  BY <1>1, <1>2, <1>3 DEF Structure, JobOK

\* A cleanup lists the captures.
LEMMA LoadMoves ==
  ASSUME Structure, NEW w \in Workers, Load(w)
  PROVE  Move(w)
<1> DEFINE todo == {j \in Jobs : /\ jobs[j].kind = "capture" /\ jobs[j].gen = Held(w).gen
                                 /\ jobs[j].phase # "new" /\ ~jobs[j].gone}
           x == [worker[w] EXCEPT !.todo = todo, !.at = "inspect"]
<1>1. worker[w].at = "load" /\ UNCHANGED <<consent, jobs, chat, remote, space, faults>>
  BY DEF Load
<1>2. worker[w] \in Worker /\ worker \in [Workers -> Worker]
  BY <1>1, HeldOK DEF Structure, TypeOK
<1>3. todo \in SUBSET Nat /\ todo \subseteq Traces(Held(w).gen)
  BY DEF Traces, Capture, Structure, TypeOK, Jobs
<1>4. worker' = [worker EXCEPT ![w].todo = todo, ![w].at = "inspect"]
  BY DEF Load
<1> HIDE DEF todo
<1>5. x \in Worker /\ x.at = "inspect" /\ x.job = worker[w].job /\ x.todo = todo
  BY <1>2, <1>3 DEF Worker
<1>6. worker' = [worker EXCEPT ![w] = x]
  BY <1>2, <1>4
<1> HIDE DEF x
<1>7. JobsMove(w)
  BY <1>1, JobsKept
<1>8. WorkersMove(w)
  BY <1>1, <1>3, <1>5, <1>6, <1>7, Moved, RequestSteps
<1> QED
  BY <1>1, <1>7, <1>8, QuietMove

\* A cleanup looks at a capture.
LEMMA InspectMoves ==
  ASSUME Structure, NEW w \in Workers, Inspect(w)
  PROVE  Move(w)
<1>1. /\ worker[w].at = "inspect" /\ worker[w].todo # {}
      /\ UNCHANGED <<consent, chat, remote, space, faults>>
  BY DEF Inspect
<1>2. /\ worker[w] \in Worker /\ worker \in [Workers -> Worker] /\ WorkerOK(w)
      /\ Held(w).phase \in Phases /\ worker[w].todo \subseteq Traces(Held(w).gen)
  BY <1>1, HeldOK DEF Structure, TypeOK, WorkerOK, Job, Phases
<1>3. CASE worker' = [worker EXCEPT ![w].at = "handler", ![w].reply = "uncertain"] /\ UNCHANGED jobs
  <2> DEFINE x == [worker[w] EXCEPT !.at = "handler", !.reply = "uncertain"]
  <2>1. x \in Worker /\ x.at = "handler" /\ x.job = worker[w].job
    BY <1>2 DEF Worker
  <2>2. worker' = [worker EXCEPT ![w] = x]
    BY <1>2, <1>3
  <2> HIDE DEF x
  <2>3. JobsMove(w)
    BY <1>3, JobsKept
  <2>4. WorkersMove(w)
    BY <1>1, <2>1, <2>2, <2>3, Moved, RequestSteps
  <2> QED
    BY <1>1, <2>3, <2>4, QuietMove
<1>4. CASE Goto(w, "handler") /\ UNCHANGED jobs
  <2>1. JobsMove(w)
    BY <1>4, JobsKept
  <2>2. WorkersMove(w)
    BY <1>1, <1>4, <2>1, Went, RequestSteps
  <2> QED
    BY <1>1, <2>1, <2>2, QuietMove
<1>5. {"waiting", "running"} \subseteq States \ {"succeeded"}
  BY DEF States, LiveStates
<1>6. CASE Write(w, Progress(w, Held(w).phase, "waiting"), Leave(w))
  <2>1. JobsMove(w) /\ WorkersMove(w)
    BY <1>1, <1>2, <1>5, <1>6, RequestSteps, ProgressMoves
  <2> QED
    BY <1>1, <2>1, QuietMove
<1>7. CASE Write(w, Progress(w, Held(w).phase, "running"), Goto(w, "drop"))
  <2>1. "drop" \in Steps /\ "drop" \notin CaptureSteps /\ worker[w].at \in CleanupSteps
    BY <1>1, RequestSteps
  <2>2. JobsMove(w) /\ WorkersMove(w)
    BY <1>1, <1>2, <1>5, <1>7, <2>1, ProgressMoves
  <2> QED
    BY <1>1, <2>2, QuietMove
<1> QED
  BY <1>3, <1>4, <1>6, <1>7 DEF Inspect

\* A cleanup removes a session.
LEMMA DropMoves ==
  ASSUME Structure, NEW w \in Workers, Drop(w)
  PROVE  Move(w)
<1> DEFINE c == jobs[Current(w)].on
           s == [remote[c] EXCEPT !.at = IF remote[c].at = "none" THEN "none" ELSE "removed"]
<1>1. worker[w].at = "drop" /\ worker[w].todo # {} /\ worker[w].todo \subseteq Traces(Held(w).gen)
  BY DEF Drop, Structure, WorkerOK
<1>2. c \in Messages /\ remote[c] \in Session
  BY <1>1, CurrentListed DEF Structure, TypeOK
<1>3. JobsMove(w) /\ TalkMove
  BY JobsKept, TalkKept DEF Drop
<1>4. WorkersMove(w) /\ faults' \in 0..MaxFaults
  <2>1. "mark" \in Steps /\ "mark" \notin CaptureSteps /\ worker[w].at \in CleanupSteps
    BY <1>1, RequestSteps
  <2>2. Reply(w, "mark") /\ worker[w].at # "idle"
    BY <1>1 DEF Drop
  <2> QED
    BY <1>1, <1>3, <2>1, <2>2, Replied
<1>5. remote' = [remote EXCEPT ![c] = s]
  BY <1>2 DEF Drop, Structure, TypeOK
<1>6. s \in Session
  BY <1>2 DEF Session
<1>7. SessionMove(w, c, s)
  BY <1>2 DEF SessionMove, Session
<1> HIDE DEF c, s
<1>8. SessionsMove(w) /\ remote' \in [Messages -> Session]
  BY <1>2, <1>5, <1>6, <1>7, SessionWritten
<1>9. space' \in [Generations -> SUBSET Uris]
  BY DEF Drop, Structure, TypeOK
<1> QED
  BY <1>3, <1>4, <1>8, <1>9 DEF Move, ServerOK

\* mark_source_removed
LEMMA MarkMoves ==
  ASSUME Structure, NEW w \in Workers, Mark(w)
  PROVE  Move(w)
<1>1. worker[w].at = "mark" /\ UNCHANGED <<consent, chat, remote, space, faults>>
  BY DEF Mark
<1>2. CASE ~Owned(w)
  BY <1>1, <1>2, JobsKept, Left, QuietMove DEF Mark
<1>3. CASE Owned(w)
  <2> DEFINE j == Current(w)
  <2>1. worker[w].todo # {} /\ worker[w].todo \subseteq Traces(Held(w).gen)
        /\ worker[w] \in Worker /\ worker \in [Workers -> Worker] /\ jobs \in Seq(Job)
    BY <1>1, HeldOK DEF Structure, WorkerOK, TypeOK
  <2>2. j \in Jobs /\ jobs[j] \in Job /\ JobOK(j)
    BY <1>1, <2>1, CurrentListed DEF Structure, Jobs
  <2> DEFINE row == [jobs[j] EXCEPT !.gone = TRUE]
             x == [worker[w] EXCEPT !.at = "inspect", !.todo = worker[w].todo \ {j}]
  <2>3. jobs' = [jobs EXCEPT ![j].gone = TRUE]
    BY <1>3 DEF Mark
  <2>4. worker' = [worker EXCEPT ![w].at = "inspect", ![w].todo = @ \ {j}]
    BY <1>3 DEF Mark
  <2>5. JobMove(w, j, row) /\ row \in Job
    <3>1. row \in Job /\ row.kind = jobs[j].kind /\ row.gen = jobs[j].gen /\ row.on = jobs[j].on
          /\ row.state = jobs[j].state /\ row.attempts = jobs[j].attempts
          /\ row.owner = jobs[j].owner /\ row.phase = jobs[j].phase /\ row.task = jobs[j].task
      BY <2>2 DEF Job
    <3> QED
      BY <1>1, <1>3, <2>2, <3>1 DEF JobMove, JobOK, Live
  <2> HIDE DEF j
  <2>6. jobs' = [jobs EXCEPT ![j] = row]
    BY <2>1, <2>2, <2>3 DEF Jobs
  <2>7. x \in Worker /\ x.at = "inspect" /\ x.job = worker[w].job /\ x.todo \subseteq Traces(Held(w).gen)
    BY <2>1 DEF Worker
  <2>8. worker' = [worker EXCEPT ![w] = x]
    BY <2>1, <2>4
  <2> HIDE DEF x, row
  <2>9. JobsMove(w)
    BY <2>2, <2>5, <2>6, RowWritten
  <2>10. WorkersMove(w)
    BY <1>1, <2>7, <2>8, <2>9, Moved, RequestSteps
  <2> QED
    BY <1>1, <2>9, <2>10, QuietMove
<1> QED
  BY <1>2, <1>3

\* A cleanup has no more captures.
LEMMA FinishMoves ==
  ASSUME Structure, NEW w \in Workers, Finish(w)
  PROVE  Move(w)
<1>1. worker[w].at = "inspect" /\ UNCHANGED <<consent, chat, remote, space, faults>>
      /\ Write(w, Progress(w, Held(w).phase, "running"), Goto(w, "remove"))
  BY DEF Finish
<1>2. Held(w).phase \in Phases /\ "running" \in States \ {"succeeded"}
  BY <1>1, HeldOK DEF Job, Phases, States, LiveStates
<1>3. "remove" \in Steps /\ "remove" \notin CaptureSteps /\ worker[w].at \in CleanupSteps
  BY <1>1, RequestSteps
<1>4. JobsMove(w) /\ WorkersMove(w)
  BY <1>1, <1>2, <1>3, ProgressMoves
<1> QED
  BY <1>1, <1>4, QuietMove

\* A cleanup removes files.
LEMMA RemoveMoves ==
  ASSUME Structure, NEW w \in Workers, Remove(w)
  PROVE  Move(w)
<1>1. worker[w].at = "remove" /\ remote' = remote
  BY DEF Remove
<1>2. JobsMove(w) /\ TalkMove
  BY JobsKept, TalkKept DEF Remove
<1>3. WorkersMove(w) /\ faults' \in 0..MaxFaults
  BY <1>1, <1>2, Replied, RequestSteps DEF Remove
<1>4. SessionsMove(w)
  BY <1>1 DEF SessionsMove, SessionMove, Structure, TypeOK, Session
<1>5. space' \in [Generations -> SUBSET Uris] /\ remote' \in [Messages -> Session]
  BY DEF Remove, Structure, TypeOK
<1> QED
  BY <1>2, <1>3, <1>4, <1>5 DEF Move, ServerOK

\* Failed requests and crashes.
LEMMA FaultMoves ==
  ASSUME Structure, NEW w \in Workers, RequestFails(w) \/ Crash(w)
  PROVE  Move(w)
<1>1. JobsMove(w) /\ TalkMove
  BY JobsKept, TalkKept DEF RequestFails, Crash
<1>2. WorkersMove(w)
  <2>1. CASE RequestFails(w)
    BY <1>1, <2>1, Went, RequestSteps DEF RequestFails
  <2>2. CASE Crash(w)
    BY <2>2, Left DEF Crash
  <2> QED
    BY <2>1, <2>2
<1>3. UNCHANGED <<remote, space>> /\ faults' \in 0..MaxFaults
  BY MemoryAssumption DEF RequestFails, Crash, Structure, TypeOK
<1>4. SessionsMove(w) /\ ServerOK'
  BY <1>3 DEF SessionsMove, SessionMove, Structure, TypeOK, ServerOK, Session
<1> QED
  BY <1>1, <1>2, <1>4 DEF Move

\* A job is claimed.
LEMMA ClaimMoves ==
  ASSUME Structure, NEW w \in Workers, NEW j \in Jobs, Claim(w, j)
  PROVE  Move(w)
<1>1. worker[w] = Idle /\ Live(j) /\ ~Preceded(j) /\ UNCHANGED <<consent, chat, remote, space, faults>>
  BY DEF Claim
<1>2. jobs \in Seq(Job) /\ jobs[j] \in Job /\ JobOK(j) /\ worker \in [Workers -> Worker] /\ j \in Nat
  BY DEF Structure, TypeOK, Jobs
<1> DEFINE row == [jobs[j] EXCEPT !.owner = w, !.lease = TRUE, !.state = "running"]
           at == IF jobs[j].kind = "capture" THEN "begin" ELSE "load"
           x == [worker[w] EXCEPT !.at = at, !.job = j]
<1>3. jobs' = [jobs EXCEPT ![j] = row]
  BY <1>2 DEF Claim, Jobs
<1>4. row \in Job /\ row.kind = jobs[j].kind /\ row.gen = jobs[j].gen /\ row.on = jobs[j].on
      /\ row.state = "running" /\ row.attempts = jobs[j].attempts
      /\ row.owner = w /\ row.phase = jobs[j].phase /\ row.task = jobs[j].task /\ row.gone = jobs[j].gone
  BY <1>2 DEF Job, LiveStates
<1> HIDE DEF row
<1>5. JobMove(w, j, row)
  BY <1>1, <1>2, <1>4 DEF JobMove, JobOK
<1>6. JobsMove(w)
  BY <1>3, <1>4, <1>5, RowWritten
<1>7. jobs'[j].kind = jobs[j].kind /\ j \in Jobs'
  BY <1>6 DEF JobsMove, JobMove, Jobs
<1>8. worker[w] \in Worker /\ at \in {"begin", "load"}
  BY <1>2
<1>9. worker' = [worker EXCEPT ![w].at = at, ![w].job = j]
  BY DEF Claim
<1>10. at = IF jobs[j].kind = "capture" THEN "begin" ELSE "load"
  OBVIOUS
<1> HIDE DEF at
<1>11. x \in Worker /\ x.job = j /\ x.at = at
  BY <1>2, <1>8 DEF Worker
<1>12. worker' = [worker EXCEPT ![w] = x]
  BY <1>2, <1>9
<1> HIDE DEF x
<1>13. worker'[w] = x
  BY <1>2, <1>12
<1>14. WorkerOK(w)'
  BY <1>7, <1>10, <1>11, <1>13 DEF WorkerOK, CaptureSteps, CleanupSteps, Capture
<1>15. WorkersMove(w)
  BY <1>2, <1>11, <1>12, <1>14 DEF WorkersMove
<1> QED
  BY <1>1, <1>6, <1>15, QuietMove

-----------------------------------------------------------------------------
(* Steps that are not of a worker.                                         *)

\* Steps that are not of a worker leave the workers alone.
LEMMA NobodyMoves ==
  ASSUME Structure, UNCHANGED worker
  PROVE  WorkersMove(NoOne)
  BY MemoryAssumption DEF WorkersMove, Structure, TypeOK

\* Time passes.
LEMMA TimeMoves ==
  ASSUME Structure, NEW j \in Jobs, LeaseEnds(j) \/ Age(j)
  PROVE  Move(NoOne)
<1>1. UNCHANGED <<consent, chat, remote, space, worker>>
  BY DEF LeaseEnds, Age
<1>2. jobs \in Seq(Job) /\ jobs[j] \in Job /\ JobOK(j)
  BY DEF Structure, TypeOK, Jobs
<1>3. PICK row \in {[jobs[j] EXCEPT !.lease = FALSE], [jobs[j] EXCEPT !.old = TRUE]} :
        jobs' = [jobs EXCEPT ![j] = row]
  BY <1>2 DEF LeaseEnds, Age, Jobs
<1>4. row \in Job /\ row.kind = jobs[j].kind /\ row.gen = jobs[j].gen /\ row.on = jobs[j].on
      /\ row.state = jobs[j].state /\ row.attempts = jobs[j].attempts /\ row.gone = jobs[j].gone
      /\ row.owner = jobs[j].owner /\ row.phase = jobs[j].phase /\ row.task = jobs[j].task
  BY <1>2 DEF Job
<1>5. JobMove(NoOne, j, row)
  BY <1>2, <1>4 DEF JobMove, JobOK, Live
<1>6. JobsMove(NoOne)
  BY <1>3, <1>4, <1>5, RowWritten
<1>7. faults' \in 0..MaxFaults
  BY MemoryAssumption DEF LeaseEnds, Age, Structure, TypeOK
<1>8. SessionsMove(NoOne) /\ ServerOK'
  BY <1>1, <1>7 DEF SessionsMove, SessionMove, Structure, TypeOK, ServerOK, Session
<1> QED
  BY <1>1, <1>6, <1>8, TalkKept, NobodyMoves DEF Move

\* The server's extraction ends.
LEMMA ExtractMoves ==
  ASSUME Structure, NEW c \in Messages, NEW put \in SUBSET Uris, NEW del \in SUBSET Uris,
         NEW end \in {"completed", "failed"}, Extract(c, put, del, end)
  PROVE  Move(NoOne)
<1>1. UNCHANGED <<consent, jobs, chat, worker, faults>> /\ remote[c].task = "running"
      /\ remote[c] \in Session /\ remote \in [Messages -> Session]
  BY DEF Extract, Structure, TypeOK
<1> DEFINE p == IF end = "completed" THEN put ELSE {}
           d == IF end = "completed" THEN del ELSE {}
           s == [remote[c] EXCEPT !.task = end, !.put = p, !.del = d]
<1>2. remote' = [remote EXCEPT ![c].task = end, ![c].put = p, ![c].del = d]
  BY DEF Extract
<1>3. p \in SUBSET Uris /\ d \in SUBSET Uris
  OBVIOUS
<1> HIDE DEF p, d
<1>4. remote' = [remote EXCEPT ![c] = s]
  BY <1>1, <1>2
<1>5. s \in Session
  BY <1>1, <1>3 DEF Session
<1>6. SessionMove(NoOne, c, s)
  BY <1>1, <1>3 DEF SessionMove, Session
<1> HIDE DEF s
<1>7. SessionsMove(NoOne) /\ remote' \in [Messages -> Session]
  BY <1>4, <1>5, <1>6, SessionWritten
<1>8. space' \in [Generations -> SUBSET Uris]
  BY DEF Extract, Structure, TypeOK
<1>9. faults' \in 0..MaxFaults
  BY <1>1 DEF Structure, TypeOK
<1> QED
  BY <1>1, <1>7, <1>8, <1>9, JobsKept, TalkKept, NobodyMoves DEF Move, ServerOK

\* The user gives, withdraws or clears.
LEMMA ConsentMoves ==
  ASSUME Structure, Enable \/ Disable \/ Clear
  PROVE  Move(NoOne)
<1>1. /\ UNCHANGED <<chat, remote, space, worker, faults>>
      /\ consent \in Consent /\ chat \in [Messages -> Chat]
  BY DEF Enable, Disable, Clear, Structure, TypeOK
<1>2. consent.gen \in Nat /\ consent.gen \in Generations
  BY <1>1, MemoryAssumption DEF Consent, Generations
<1>3. CASE Enable
  <2>1. consent' \in Consent /\ consent'.gen = consent.gen /\ consent'.fresh = {}
    BY <1>1, <1>3 DEF Enable, Consent
  <2>2. TalkMove
    BY <1>1, <1>2, <2>1 DEF TalkMove, FreshOK
  <2>3. JobsMove(NoOne)
    BY <1>3, JobsKept DEF Enable
  <2> QED
    BY <1>1, <2>2, <2>3, NobodyMoves, ServerKept DEF Move
<1>4. CASE Disable \/ Clear
  <2>1. Retire /\ consent.gen + 1 \in Generations
    BY <1>2, <1>4, MemoryAssumption DEF Disable, Clear, Retire, Generations
  <2>2. consent' \in Consent /\ consent'.gen = consent.gen + 1 /\ consent'.fresh = {}
    <3>1. CASE Disable
      BY <2>1, <3>1 DEF Disable, Consent
    <3>2. CASE Clear
      <4>1. consent' = [consent EXCEPT !.gen = consent.gen + 1, !.fresh = {}]
        BY <3>2 DEF Clear, Cleared
      <4> QED
        BY <1>1, <2>1, <4>1 DEF Consent
    <3> QED
      BY <1>4, <3>1, <3>2
  <2>3. TalkMove
    BY <1>1, <1>2, <2>2 DEF TalkMove, FreshOK
  <2>4. jobs' = Enqueued("purge", consent.gen, NoOne)
    BY <2>1 DEF Retire
  <2>5. JobsMove(NoOne)
    BY <2>2, <2>4, RowAdded
  <2> QED
    BY <1>1, <2>3, <2>5, NobodyMoves, ServerKept DEF Move
<1> QED
  BY <1>3, <1>4

\* The user deletes a memory.
LEMMA DeleteMoves ==
  ASSUME Structure, NEW u \in Uris, Delete(u)
  PROVE  Move(NoOne)
<1>1. JobsMove(NoOne)
  BY RowAdded DEF Delete
<1> QED
  BY <1>1, TalkKept, NobodyMoves, ServerKept DEF Move, Delete

\* The user asks, and an answer is saved, refused or erased.
LEMMA ChatMoves ==
  ASSUME Structure, NEW c \in Messages,
         Ask(c) \/ Search(c) \/ Recheck(c) \/ Erase(c)
           \/ \E cited \in SUBSET chat[c].got :
                Refuse(c, cited) \/ \E b \in BOOLEAN : Answer(c, cited, b)
  PROVE  Move(NoOne)
<1>1. /\ UNCHANGED <<remote, space, worker, faults>>
      /\ consent \in Consent /\ chat \in [Messages -> Chat] /\ chat[c] \in Chat
      /\ chat[c].at \in {"unsent", "asked", "recalling", "recalled", "answered", "refused", "erased"}
      /\ chat[c].under \in Nat
  BY MemoryAssumption DEF Ask, Search, Recheck, Erase, Refuse, Answer, Structure, TypeOK, Chat
<1>2. consent.gen \in Nat /\ consent.gen \in 0..MaxGeneration
  BY <1>1, MemoryAssumption DEF Consent, Generations
<1>3. CASE Ask(c)
  <2>1. chat' = [chat EXCEPT ![c].at = "asked", ![c].under = IF consent.enabled THEN consent.gen ELSE 0]
        /\ consent' = [consent EXCEPT !.fresh = @ \cup {c}] /\ jobs' = jobs /\ chat[c].at = "unsent"
    BY <1>3 DEF Ask
  <2>2. consent' \in Consent /\ consent'.gen = consent.gen /\ consent'.enabled = consent.enabled
        /\ consent'.fresh = consent.fresh \cup {c}
    BY <1>1, <2>1 DEF Consent
  <2>3. chat' \in [Messages -> Chat]
    <3> DEFINE under == IF consent.enabled THEN consent.gen ELSE 0
    <3>1. under \in 0..MaxGeneration
      BY <1>2, MemoryAssumption
    <3>2. chat' = [chat EXCEPT ![c].at = "asked", ![c].under = under]
      BY <2>1
    <3> HIDE DEF under
    <3> QED
      BY <1>1, <3>1, <3>2 DEF Chat
  <2>4. \A d \in Messages : d # c => chat'[d] = chat[d]
    BY <1>1, <2>1
  <2>5. chat'[c].at = "asked" /\ (consent.enabled => chat'[c].under = consent.gen)
    BY <1>1, <2>1
  <2>6. FreshOK'
    BY <1>1, <2>2, <2>4, <2>5 DEF FreshOK, Structure, Consent
  <2>7. TalkMove
    BY <1>2, <2>1, <2>2, <2>3, <2>4, <2>5, <2>6 DEF TalkMove
  <2> QED
    BY <1>1, <2>1, <2>7, JobsKept, NobodyMoves, ServerKept DEF Move
<1>4. ASSUME NEW at, at \in {"recalling", "recalled", "answered", "refused", "erased"},
             NEW gen \in 0..MaxGeneration, NEW got \in SUBSET Uris,
             chat' = [chat EXCEPT ![c].at = at, ![c].gen = gen, ![c].got = got],
             consent' = consent,
             chat[c].at \in {"answered", "erased"} => at = "erased"
      PROVE  TalkMove
  <2>1. chat' \in [Messages -> Chat]
    BY <1>1, <1>4 DEF Chat
  <2>2. \A d \in Messages : chat'[d].under = chat[d].under /\ (d # c => chat'[d] = chat[d])
    BY <1>1, <1>4 DEF Chat
  <2>3. chat'[c].at = at
    BY <1>1, <1>4
  <2>4. FreshOK'
    BY <1>1, <1>4, <2>2 DEF FreshOK, Structure, Consent
  <2> QED
    BY <1>1, <1>2, <1>4, <2>1, <2>2, <2>3, <2>4 DEF TalkMove
<1>5. chat[c].gen \in 0..MaxGeneration /\ chat[c].got \in SUBSET Uris
  BY <1>1 DEF Chat
<1>6. CASE Search(c)
  <2>1. chat' = [chat EXCEPT ![c].at = "recalling", ![c].gen = consent.gen, ![c].got = chat[c].got]
    BY <1>1, <1>6 DEF Search, Chat
  <2>2. TalkMove
    BY <1>2, <1>4, <1>5, <1>6, <2>1 DEF Search
  <2> QED
    BY <1>1, <1>6, <2>2, JobsKept, NobodyMoves, ServerKept DEF Move, Search
<1>7. CASE Recheck(c)
  <2> DEFINE got == IF consent.enabled /\ consent.gen = chat[c].gen THEN Ready(chat[c].gen) ELSE {}
  <2>1. got \in SUBSET Uris
    BY DEF Ready
  <2>2. chat' = [chat EXCEPT ![c].at = "recalled", ![c].got = got]
    BY <1>7 DEF Recheck
  <2> HIDE DEF got
  <2>3. chat' = [chat EXCEPT ![c].at = "recalled", ![c].gen = chat[c].gen, ![c].got = got]
    BY <1>1, <2>2 DEF Chat
  <2>4. TalkMove
    BY <1>4, <1>5, <1>7, <2>1, <2>3 DEF Recheck
  <2> QED
    BY <1>1, <1>7, <2>4, JobsKept, NobodyMoves, ServerKept DEF Move, Recheck
<1>8. CASE Erase(c)
  <2>1. chat' = [chat EXCEPT ![c].at = "erased", ![c].gen = chat[c].gen, ![c].got = {}]
    BY <1>1, <1>8 DEF Erase, Chat
  <2>2. consent' = consent /\ {} \in SUBSET Uris
    BY <1>8 DEF Erase
  <2>3. TalkMove
    BY <1>4, <1>5, <2>1, <2>2
  <2> QED
    BY <1>1, <1>8, <2>3, JobsKept, NobodyMoves, ServerKept DEF Move, Erase
<1>9. ASSUME NEW cited \in SUBSET chat[c].got, Refuse(c, cited)
      PROVE  Move(NoOne)
  <2>1. chat' = [chat EXCEPT ![c].at = "refused", ![c].gen = chat[c].gen, ![c].got = {}]
    BY <1>1, <1>9 DEF Refuse, Chat
  <2>2. consent' = consent /\ {} \in SUBSET Uris /\ chat[c].at = "recalled"
    BY <1>9 DEF Refuse
  <2>3. TalkMove
    BY <1>4, <1>5, <2>1, <2>2
  <2> QED
    BY <1>1, <1>9, <2>3, JobsKept, NobodyMoves, ServerKept DEF Move, Refuse
<1>10. ASSUME NEW cited \in SUBSET chat[c].got, NEW b \in BOOLEAN, Answer(c, cited, b)
       PROVE  Move(NoOne)
  <2>1. chat' = [chat EXCEPT ![c].at = "answered", ![c].gen = chat[c].gen, ![c].got = cited]
    BY <1>1, <1>10 DEF Answer, Chat
  <2>2. chat[c].at \in {"asked", "recalled"} /\ consent' = consent
    BY <1>10 DEF Answer
  <2>3. TalkMove
    BY <1>4, <1>5, <2>1, <2>2
  <2>4. chat'[c].at = "answered"
    BY <1>1, <2>1
  <2>5. CASE jobs' = jobs
    BY <1>1, <2>3, <2>5, JobsKept, NobodyMoves, ServerKept DEF Move
  <2>6. CASE consent.enabled /\ c \in consent.fresh /\ jobs' = Enqueued("capture", consent.gen, c)
    <3>1. chat[c].under = consent.gen
      BY <2>6 DEF Structure, FreshOK
    <3>2. JobsMove(NoOne)
      BY <2>2, <2>4, <2>6, <3>1, RowAdded
    <3> QED
      BY <1>1, <2>3, <3>2, NobodyMoves, ServerKept DEF Move
  <2> QED
    BY <1>10, <2>5, <2>6 DEF Answer
<1> QED
  BY <1>3, <1>6, <1>7, <1>8, <1>9, <1>10

-----------------------------------------------------------------------------
(* Sending: what a move leaves true of the others.                         *)

\* What a move leaves of a job and of the session of its capture.
LEMMA MoveOfCapture ==
  ASSUME Structure, NEW w, Move(w), NEW i \in Jobs, Capture(i)
  PROVE  /\ jobs[i].on \in Messages /\ jobs'[i].on = jobs[i].on /\ Capture(i)'
         /\ JobMove(w, i, jobs'[i]) /\ i \in Jobs'
         /\ SessionMove(w, jobs[i].on, remote'[jobs[i].on])
         /\ w \in Workers /\ worker[w].at \in CaptureSteps /\ Held(w).on = jobs[i].on =>
              worker[w].job = i
<1>1. jobs[i].on \in Messages
  BY DEF Structure, JobOK
<1>2. JobMove(w, i, jobs'[i]) /\ i \in Jobs'
  BY DEF Move, JobsMove, Jobs
<1>3. jobs'[i].on = jobs[i].on /\ Capture(i)'
  BY <1>2 DEF JobMove, Capture
<1>4. SessionMove(w, jobs[i].on, remote'[jobs[i].on])
  BY <1>1 DEF Move, SessionsMove
<1>5. ASSUME w \in Workers, worker[w].at \in CaptureSteps, Held(w).on = jobs[i].on
      PROVE  worker[w].job = i
  <2>1. worker[w].job \in Jobs /\ Capture(worker[w].job) /\ Held(w) = jobs[worker[w].job]
    BY <1>5, HeldOK, RequestSteps, Carries
  <2> QED
    BY <1>5, <2>1 DEF Structure, OrderOK
<1> QED
  BY <1>1, <1>2, <1>3, <1>4, <1>5

\* While w is at one of these steps and owns the job, the phase is known.
LEMMA PhaseWritten ==
  ASSUME Structure, Sending, NEW w, Move(w), NEW i \in Jobs, Capture(i),
         jobs'[i].phase # jobs[i].phase \/ jobs'[i].task # jobs[i].task
  PROVE  /\ w \in Workers /\ i = worker[w].job /\ Held(w) = jobs[i] /\ jobs[i].owner = w
         /\ SenderOK(w) /\ Live(i)
         /\ \/ /\ worker[w].at = "opened" /\ jobs[i].phase = "new"
               /\ jobs'[i].phase = "appending" /\ jobs'[i].task = jobs[i].task
            \/ /\ worker[w].at = "appended" /\ jobs[i].phase = "appending"
               /\ jobs'[i].phase = "appended" /\ jobs'[i].task = jobs[i].task
            \/ /\ worker[w].at = "resume" /\ jobs[i].phase = "appended"
               /\ jobs'[i].phase = "committing" /\ jobs'[i].task = jobs[i].task
            \/ /\ worker[w].at = "receipt" /\ jobs[i].phase = "committing"
               /\ jobs'[i].phase = "waiting" /\ jobs'[i].task = (worker[w].reply = "task")
<1>1. /\ w \in Workers /\ i = worker[w].job /\ Owned(w)
      /\ \/ worker[w].at = "opened" /\ jobs'[i].phase = "appending" /\ jobs'[i].task = jobs[i].task
         \/ worker[w].at = "appended" /\ jobs'[i].phase = "appended" /\ jobs'[i].task = jobs[i].task
         \/ worker[w].at = "resume" /\ jobs'[i].phase = "committing" /\ jobs'[i].task = jobs[i].task
         \/ worker[w].at = "receipt" /\ jobs'[i].phase = "waiting" /\ jobs'[i].task = (worker[w].reply = "task")
  BY MoveOfCapture DEF JobMove
<1>2. Held(w) = jobs[i] /\ jobs[i].owner = w /\ Mine(w) /\ Live(i)
  BY <1>1 DEF Owned, Held, Mine, Live, LiveStates
<1>3. worker[w].at \in CaptureSteps
  BY <1>1 DEF CaptureSteps
<1>4. SenderOK(w) /\ InPhase(worker[w].at, jobs[i].phase)
  BY <1>1, <1>2, <1>3 DEF Sending, SenderOK
<1> QED
  BY <1>1, <1>2, <1>4 DEF InPhase

\* A move of w leaves true what is known of another worker: a request that is
\* about to be made has still not been made.
LEMMA OthersSend ==
  ASSUME Structure, Sending, NEW w, Move(w), NEW v \in Workers, v # w,
         worker[v].at \in CaptureSteps
  PROVE  SenderOK(v)'
<1> DEFINE i == worker[v].job
           c == jobs[i].on
<1>1. /\ i \in Jobs /\ Capture(i) /\ Held(v) = jobs[i] /\ SenderOK(v)
      /\ worker'[v] = worker[v] /\ Held(v)' = jobs'[i]
  <2>1. i \in Jobs /\ Capture(i) /\ Held(v) = jobs[i] /\ SenderOK(v)
    BY HeldOK, RequestSteps, Carries DEF Sending
  <2>2. worker'[v] = worker[v]
    BY DEF Move, WorkersMove
  <2> QED
    BY <2>1, <2>2 DEF Held
<1>2. /\ c \in Messages /\ jobs'[i].on = c
      /\ JobMove(w, i, jobs'[i]) /\ SessionMove(w, c, remote'[c])
      /\ w \in Workers /\ worker[w].at \in CaptureSteps /\ Held(w).on = c => worker[w].job = i
  BY <1>1, MoveOfCapture
<1> HIDE DEF i, c
<1>3. /\ w \in Workers => Together(v, w, {"append"}) /\ Together(v, w, {"commit", "receipt"})
      /\ i = worker[v].job /\ c = jobs[i].on
  BY DEF Sending, i, c
<1>4. jobs[i].owner = v => jobs'[i].phase = jobs[i].phase
  BY <1>1, PhaseWritten
<1>5. Mine(v)' => Mine(v)
  BY <1>1, <1>2 DEF JobMove, Mine
<1>6. Mine(v)' => InPhase(worker[v].at, jobs'[i].phase)
  BY <1>1, <1>4, <1>5 DEF SenderOK, Mine
<1>7. worker[v].at = "append" => remote'[c].appends = 0 /\ jobs'[i].phase # "new"
  <2> SUFFICES ASSUME worker[v].at = "append"
               PROVE  remote'[c].appends = 0 /\ jobs'[i].phase # "new"
    OBVIOUS
  <2>1. remote[c].appends = 0 /\ jobs[i].phase # "new"
    BY <1>1, <1>3 DEF SenderOK
  <2>2. ~(w \in Workers /\ worker[w].at = "append" /\ c = Held(w).on)
    BY <1>2, <1>3, RequestSteps DEF Together
  <2> QED
    BY <1>2, <2>1, <2>2 DEF JobMove, SessionMove
<1>8. ASSUME worker[v].at \in {"commit", "receipt"}
      PROVE  /\ remote'[c].commits = remote[c].commits
             /\ remote'[c].task = remote[c].task \/ remote[c].task = "running"
             /\ jobs'[i].phase = jobs[i].phase
  <2>1. ~(w \in Workers /\ worker[w].at = "commit" /\ c = Held(w).on)
    BY <1>2, <1>3, <1>8, RequestSteps DEF Together
  <2>2. ~(w \in Workers /\ worker[w].at = "receipt" /\ i = worker[w].job)
    BY <1>3, <1>8 DEF Together
  <2>3. jobs[i].phase \in {"committing", "waiting"}
    BY <1>1, <1>8 DEF SenderOK
  <2>4. jobs'[i].phase = jobs[i].phase
    BY <1>1, <2>2, <2>3, PhaseWritten
  <2> QED
    BY <1>2, <2>1, <2>4 DEF SessionMove
<1>9. remote[c].at # "none" => remote'[c].at # "none"
  BY <1>2 DEF SessionMove
<1>10. remote[c].unticketed => remote'[c].unticketed
  BY <1>2 DEF SessionMove
<1>11. worker[v].at = "commit" => jobs'[i].phase = "committing" /\ remote'[c].commits = 0
  BY <1>1, <1>3, <1>8 DEF SenderOK
<1>12. worker[v].at = "receipt" =>
         /\ jobs'[i].phase \in {"committing", "waiting"}
         /\ worker[v].reply \in {"task", "skipped", "silent"}
         /\ worker[v].reply = "skipped" => remote'[c].task = "none"
         /\ worker[v].reply = "silent" => remote'[c].unticketed
  BY <1>1, <1>3, <1>8, <1>10 DEF SenderOK
<1>13. worker[v].at = "opened" => remote'[c].at # "none"
  BY <1>1, <1>3, <1>9 DEF SenderOK
<1> QED
  BY <1>1, <1>2, <1>6, <1>7, <1>11, <1>12, <1>13 DEF SenderOK

\* A move leaves true what a receipt says of its session.
LEMMA ReceiptsKept ==
  ASSUME Structure, Sending, NEW w, Move(w), NEW i \in Jobs, Capture(i)
  PROVE  CaptureOK(i)'
<1> DEFINE c == jobs[i].on
<1>1. /\ c \in Messages /\ jobs'[i].on = c
      /\ SessionMove(w, c, remote'[c]) /\ CaptureOK(i) /\ SessionOK(c)
      /\ w \in Workers /\ worker[w].at \in CaptureSteps /\ Held(w).on = c =>
           /\ worker[w].job = i /\ SenderOK(w)
           /\ Held(w) = jobs[i]
  <2>1. /\ c \in Messages /\ jobs'[i].on = c /\ SessionMove(w, c, remote'[c])
        /\ w \in Workers /\ worker[w].at \in CaptureSteps /\ Held(w).on = c => worker[w].job = i
    BY MoveOfCapture
  <2> QED
    BY <2>1 DEF Sending, Held
<1> HIDE DEF c
<1>2. c = jobs[i].on
  BY DEF c
<1>3. /\ jobs[i].phase = "new" => remote[c].appends = 0
      /\ jobs[i].phase # "new" => remote[c].at # "none"
      /\ jobs[i].phase \notin {"committing", "waiting"} => remote[c].commits = 0
      /\ jobs[i].task => jobs[i].phase = "waiting"
      /\ jobs[i].phase = "waiting" /\ ~jobs[i].task => remote[c].task = "none" \/ remote[c].unticketed
  BY <1>1, <1>2 DEF CaptureOK
<1>4. /\ remote[c].at # "none" => remote'[c].at # "none"
      /\ remote[c].unticketed => remote'[c].unticketed
  BY <1>1 DEF SessionMove
<1>5. CASE jobs'[i].phase # jobs[i].phase \/ jobs'[i].task # jobs[i].task
  <2>1. /\ w \in Workers /\ i = worker[w].job /\ Held(w) = jobs[i]
        /\ SenderOK(w)
        /\ \/ /\ worker[w].at = "opened" /\ jobs[i].phase = "new"
              /\ jobs'[i].phase = "appending" /\ jobs'[i].task = jobs[i].task
           \/ /\ worker[w].at = "appended" /\ jobs[i].phase = "appending"
              /\ jobs'[i].phase = "appended" /\ jobs'[i].task = jobs[i].task
           \/ /\ worker[w].at = "resume" /\ jobs[i].phase = "appended"
              /\ jobs'[i].phase = "committing" /\ jobs'[i].task = jobs[i].task
           \/ /\ worker[w].at = "receipt" /\ jobs[i].phase = "committing"
              /\ jobs'[i].phase = "waiting" /\ jobs'[i].task = (worker[w].reply = "task")
    BY <1>5, PhaseWritten
  <2>2. /\ remote'[c].appends = remote[c].appends /\ remote'[c].commits = remote[c].commits
        /\ remote'[c].task = remote[c].task \/ remote[c].task = "running"
    BY <1>1, <2>1 DEF SessionMove
  <2>3. worker[w].at = "opened" => remote[c].at # "none"
    BY <1>2, <2>1 DEF SenderOK
  <2>4. worker[w].at = "receipt" /\ worker[w].reply # "task" =>
          remote[c].task = "none" \/ remote[c].unticketed
    BY <1>2, <2>1 DEF SenderOK
  <2>5. CASE worker[w].at = "receipt"
    BY <1>1, <1>3, <1>4, <2>1, <2>2, <2>4, <2>5 DEF CaptureOK
  <2>6. CASE worker[w].at # "receipt"
    BY <1>1, <1>3, <1>4, <2>1, <2>2, <2>3, <2>6 DEF CaptureOK
  <2> QED
    BY <2>5, <2>6
<1>6. CASE jobs'[i].phase = jobs[i].phase /\ jobs'[i].task = jobs[i].task
  <2>1. jobs[i].phase = "new" => remote'[c].appends = 0
    <3>1. w \in Workers /\ worker[w].at = "append" /\ c = Held(w).on => jobs[i].phase # "new"
      BY <1>1, RequestSteps DEF SenderOK
    <3> QED
      BY <1>1, <1>3, <3>1 DEF SessionMove
  <2>2. jobs[i].phase # "committing" =>
          /\ remote'[c].commits = remote[c].commits
          /\ remote[c].task = "none" => remote'[c].task = "none"
    <3>1. w \in Workers /\ worker[w].at = "commit" /\ c = Held(w).on => jobs[i].phase = "committing"
      BY <1>1, RequestSteps DEF SenderOK
    <3> QED
      BY <1>1, <3>1 DEF SessionMove
  <2> QED
    BY <1>1, <1>3, <1>4, <1>6, <2>1, <2>2 DEF CaptureOK
<1> QED
  BY <1>5, <1>6

\* A move puts nothing into a session twice.
LEMMA SessionsKept ==
  ASSUME Structure, Sending, NEW w, Move(w), NEW c \in Messages
  PROVE  SessionOK(c)'
<1>1. SessionMove(w, c, remote'[c]) /\ SessionOK(c) /\ remote[c] \in Session
  BY DEF Move, SessionsMove, Sending, Structure, TypeOK
<1>2. ASSUME w \in Workers, worker[w].at \in CaptureSteps, c = Held(w).on
      PROVE  /\ SenderOK(w)
             /\ \E i \in Jobs : Capture(i) /\ jobs[i].on = c /\ i \in Jobs' /\ Capture(i)' /\ jobs'[i].on = c
  <2>1. SenderOK(w) /\ worker[w].job \in Jobs /\ Capture(worker[w].job) /\ Held(w) = jobs[worker[w].job]
    BY <1>2, HeldOK, RequestSteps, Carries DEF Sending
  <2> QED
    BY <1>2, <2>1, MoveOfCapture
<1>3. w \in Workers /\ worker[w].at = "append" /\ c = Held(w).on => remote[c].appends = 0
  BY <1>2, RequestSteps DEF SenderOK
<1>4. w \in Workers /\ worker[w].at = "commit" /\ c = Held(w).on => remote[c].commits = 0
  BY <1>2, RequestSteps DEF SenderOK
<1>5. remote[c].appends \in Nat /\ remote[c].commits \in Nat
  BY <1>1 DEF Session
<1>6. remote'[c].appends <= 1 /\ remote'[c].commits <= 1
  BY <1>1, <1>3, <1>4, <1>5 DEF SessionMove, SessionOK
<1>7. remote'[c].at = "filled" => remote'[c].appends = 1
  BY <1>1, <1>3, <1>5 DEF SessionMove, SessionOK
<1>8. remote'[c].task # "none" => remote'[c].commits = 1
  BY <1>1, <1>4, <1>5 DEF SessionMove, SessionOK
<1>9. ASSUME \A i \in Jobs' : ~(Capture(i)' /\ jobs'[i].on = c)
      PROVE  remote'[c].appends = 0 /\ remote'[c].commits = 0
  <2>1. \A i \in Jobs : ~(Capture(i) /\ jobs[i].on = c)
    BY <1>9, MoveOfCapture
  <2>2. remote[c].appends = 0 /\ remote[c].commits = 0
    BY <1>1, <2>1 DEF SessionOK
  <2>3. ~(w \in Workers /\ worker[w].at \in {"append", "commit"} /\ c = Held(w).on)
    BY <1>2, <2>1, RequestSteps
  <2> QED
    BY <1>1, <2>2, <2>3 DEF SessionMove
<1> QED
  BY <1>6, <1>7, <1>8, <1>9 DEF SessionOK, Capture

\* A capture that is enqueued has no session yet.
LEMMA NewReceipt ==
  ASSUME Structure, Sending, NEW w, Move(w), NEW i \in Jobs' \ Jobs, Capture(i)'
  PROVE  CaptureOK(i)'
<1> DEFINE c == jobs'[i].on
<1>1. /\ Made(i) /\ c \in Messages /\ chat[c].at \in {"asked", "recalled"}
      /\ jobs'[i].phase = "new" /\ ~jobs'[i].task
  BY DEF Move, JobsMove, Made, Jobs, Capture
<1>2. \A j \in Jobs : ~(Capture(j) /\ jobs[j].on = c)
  BY <1>1 DEF Structure, JobOK
<1>3. SessionOK(c) /\ SessionMove(w, c, remote'[c])
  BY <1>1 DEF Sending, Move, SessionsMove
<1>4. ~(w \in Workers /\ worker[w].at \in {"append", "commit"} /\ c = Held(w).on)
  BY <1>2, HeldOK, RequestSteps, Carries
<1>5. remote'[c].appends = 0 /\ remote'[c].commits = 0
  BY <1>2, <1>3, <1>4 DEF SessionOK, SessionMove
<1> QED
  BY <1>1, <1>5 DEF CaptureOK

-----------------------------------------------------------------------------
(* Sending: where the worker that moved stands.                            *)

\* Where the worker that moved stands now.
OwnOK(w) ==
  /\ worker'[w].at \in CaptureSteps => SenderOK(w)'
  /\ \A v \in Workers \ {w} :
       /\ Together(v, w, {"append"})' /\ Together(w, v, {"append"})'
       /\ Together(v, w, {"commit", "receipt"})' /\ Together(w, v, {"commit", "receipt"})'

\* A worker that has left the capture.
LEMMA OwnLeft ==
  ASSUME NEW w \in Workers, worker'[w].at \notin CaptureSteps
  PROVE  OwnOK(w)
  BY RequestSteps DEF OwnOK, Together

\* A worker at a step that is not one of the critical two.
LEMMA OwnApart ==
  ASSUME NEW w \in Workers, worker'[w].at \notin {"append", "commit", "receipt"}, SenderOK(w)'
  PROVE  OwnOK(w)
  BY DEF OwnOK, Together

LEMMA WentTo ==
  ASSUME Structure, NEW w \in Workers, NEW at, Goto(w, at)
  PROVE  worker'[w].at = at /\ worker'[w].job = worker[w].job /\ worker'[w].reply = worker[w].reply
  BY DEF Goto, Structure, TypeOK, Worker

LEMMA LeftFor ==
  ASSUME Structure, NEW w \in Workers, Leave(w)
  PROVE  worker'[w].at = "idle"
  BY DEF Leave, Structure, TypeOK, Idle

\* A step of a capture that leaves the jobs alone, under a phase that stays.
LEMMA OwnGoes ==
  ASSUME Structure, NEW w \in Workers, NEW at, Goto(w, at), UNCHANGED jobs,
         at \in {"open", "opened", "appended", "resume", "poll", "tombs", "publish"},
         Mine(w) => InPhase(at, Held(w).phase),
         at = "opened" => remote'[Held(w).on].at # "none"
  PROVE  OwnOK(w)
<1>1. worker'[w].at = at /\ worker'[w].job = worker[w].job
  BY WentTo
<1>2. Held(w)' = Held(w)
  BY <1>1 DEF Held
<1>3. SenderOK(w)'
  BY <1>1, <1>2 DEF SenderOK, Mine
<1> QED
  BY <1>1, <1>3, OwnApart

\* The worker has left the capture, or never was in one.
LEMMA OwnAway ==
  ASSUME Structure, NEW w \in Workers,
         Leave(w) \/ \E at \in {"handler"} \cup CleanupSteps : Goto(w, at)
  PROVE  OwnOK(w)
<1>1. worker'[w].at \notin CaptureSteps
  BY WentTo, LeftFor, RequestSteps
<1> QED
  BY <1>1, OwnLeft

\* What the sender knows before its step.
LEMMA OwnPhase ==
  ASSUME Structure, Sending, NEW w \in Workers, worker[w].at \in CaptureSteps
  PROVE  /\ SenderOK(w) /\ (Mine(w) => InPhase(worker[w].at, Held(w).phase))
         /\ Held(w).on \in Messages /\ worker[w].job \in Jobs /\ Held(w) = jobs[worker[w].job]
         /\ Capture(worker[w].job) /\ CaptureOK(worker[w].job) /\ SessionOK(Held(w).on)
         /\ remote[Held(w).on] \in Session
<1>1. SenderOK(w) /\ Held(w).on \in Messages /\ Capture(worker[w].job) /\ remote[Held(w).on] \in Session
      /\ worker[w].job \in Jobs /\ Held(w) = jobs[worker[w].job]
  BY Carries, HeldOK, RequestSteps DEF Sending
<1> QED
  BY <1>1 DEF Sending, SenderOK

\* The phase is the one that belongs to the step _capture goes on with.
LEMMA OwnBegin ==
  ASSUME Structure, Sending, NEW w \in Workers, Begin(w)
  PROVE  OwnOK(w)
<1>1. CASE Leave(w)
  BY <1>1, OwnAway
<1>2. CASE /\ Held(w).phase \notin Interrupted /\ UNCHANGED jobs
           /\ Goto(w, CASE Held(w).phase = "appended" -> "resume"
                           [] Held(w).phase = "waiting" -> "poll"
                           [] OTHER -> "open")
  <2> DEFINE at == CASE Held(w).phase = "appended" -> "resume"
                     [] Held(w).phase = "waiting" -> "poll"
                     [] OTHER -> "open"
  <2>1. Held(w).phase \in Phases
    BY HeldOK DEF Begin, Job, Phases
  <2>2. at \in {"resume", "poll", "open"} /\ InPhase(at, Held(w).phase)
    BY <1>2, <2>1 DEF Interrupted, Phases, InPhase
  <2>3. Goto(w, at)
    BY <1>2
  <2> HIDE DEF at
  <2> QED
    BY <1>2, <2>2, <2>3, OwnGoes
<1> QED
  BY <1>1, <1>2 DEF Begin, Write

\* A reply after which the phase is still the same.
LEMMA OwnReply ==
  ASSUME Structure, NEW w \in Workers, NEW at \in {"opened", "appended", "publish"}, Reply(w, at),
         UNCHANGED jobs, Mine(w) => InPhase(at, Held(w).phase),
         at = "opened" => remote'[Held(w).on].at # "none"
  PROVE  OwnOK(w)
  BY OwnGoes, OwnAway DEF Reply

\* The session is there once it is created.
LEMMA OwnOpen ==
  ASSUME Structure, Sending, NEW w \in Workers, Open(w)
  PROVE  OwnOK(w)
<1>1. worker[w].at = "open" /\ Reply(w, "opened") /\ UNCHANGED jobs
  BY DEF Open
<1>2. Held(w).on \in Messages /\ (Mine(w) => InPhase("opened", Held(w).phase))
  BY <1>1, OwnPhase, RequestSteps DEF InPhase
<1>3. remote'[Held(w).on].at # "none"
  BY <1>2 DEF Open, Structure, TypeOK, Session
<1> QED
  BY <1>1, <1>2, <1>3, OwnReply

LEMMA OwnAppend ==
  ASSUME Structure, Sending, NEW w \in Workers, AppendMessage(w)
  PROVE  OwnOK(w)
<1>1. worker[w].at = "append" /\ Reply(w, "appended") /\ UNCHANGED jobs
  BY DEF AppendMessage
<1>2. Mine(w) => InPhase("appended", Held(w).phase)
  BY <1>1, OwnPhase, RequestSteps DEF InPhase
<1> QED
  BY <1>1, <1>2, OwnReply

LEMMA OwnTombs ==
  ASSUME Structure, Sending, NEW w \in Workers, RemoveTombstoned(w)
  PROVE  OwnOK(w)
<1>1. worker[w].at = "tombs" /\ Reply(w, "publish") /\ UNCHANGED jobs
  BY DEF RemoveTombstoned
<1>2. Mine(w) => InPhase("publish", Held(w).phase)
  BY <1>1, OwnPhase, RequestSteps DEF InPhase
<1> QED
  BY <1>1, <1>2, OwnReply

LEMMA OwnPoll ==
  ASSUME Structure, Sending, NEW w \in Workers, Poll(w)
  PROVE  OwnOK(w)
<1>1. worker[w].at = "poll"
  BY DEF Poll
<1>2. Mine(w) => InPhase("tombs", Held(w).phase)
  BY <1>1, OwnPhase, RequestSteps DEF InPhase
<1>3. CASE Goto(w, "tombs") /\ UNCHANGED jobs
  BY <1>2, <1>3, OwnGoes
<1>4. CASE Leave(w) \/ Goto(w, "handler")
  BY <1>4, OwnAway
<1> QED
  BY <1>3, <1>4 DEF Poll, Write

\* The requests begin when nobody else is about to make them.
LEMMA OwnRecord ==
  ASSUME Structure, Sending, NEW w \in Workers, Record(w), Move(w)
  PROVE  OwnOK(w)
<1> DEFINE i == worker[w].job
           c == Held(w).on
<1>1. worker[w].at \in {"opened", "appended", "resume", "receipt"} /\ remote' = remote
  BY DEF Record
<1>2. /\ SenderOK(w) /\ (Mine(w) => InPhase(worker[w].at, jobs[i].phase))
      /\ c \in Messages /\ i \in Jobs /\ Held(w) = jobs[i] /\ Capture(i) /\ CaptureOK(i)
  BY <1>1, OwnPhase DEF CaptureSteps
<1>3. CASE Leave(w)
  BY <1>3, OwnAway
<1>4. ASSUME Owned(w),
             NEW phase, NEW at, worker'[w].at = at,
             \/ worker[w].at = "opened" /\ phase = "appending" /\ at = "append"
             \/ worker[w].at = "appended" /\ phase = "appended" /\ at = "resume"
             \/ worker[w].at = "resume" /\ phase = "committing" /\ at = "commit"
             \/ worker[w].at = "receipt" /\ phase = "waiting" /\ at \in {"poll", "publish"},
             worker'[w].job = i,
             jobs'[i].phase = phase, jobs'[i].on = c
      PROVE  OwnOK(w)
  <2>1. Held(w)' = jobs'[i] /\ Mine(w)
    BY <1>2, <1>4 DEF Held, Owned, Mine
  <2>2. InPhase(at, phase)
    BY <1>4 DEF InPhase
  <2>3. at = "append" => remote[c].appends = 0
    BY <1>2, <1>4, <2>1 DEF InPhase, CaptureOK
  <2>4. at = "commit" => remote[c].commits = 0
    BY <1>2, <1>4, <2>1 DEF InPhase, CaptureOK
  <2>5. SenderOK(w)'
    BY <1>1, <1>4, <2>1, <2>2, <2>3, <2>4 DEF SenderOK
  <2>6. ASSUME NEW v \in Workers \ {w}, worker[v].job = i
        PROVE  /\ worker[w].at = "opened" => worker[v].at # "append"
               /\ worker[w].at = "resume" => worker[v].at \notin {"commit", "receipt"}
    <3>1. /\ worker[v].at = "append" => SenderOK(v)
          /\ worker[v].at \in {"commit", "receipt"} => SenderOK(v)
      BY RequestSteps DEF Sending
    <3>2. Held(v) = jobs[i]
      BY <2>6 DEF Held
    <3> QED
      BY <1>2, <2>1, <3>1, <3>2 DEF SenderOK, InPhase
  <2>7. \A v \in Workers \ {w} : worker'[v] = worker[v]
    BY DEF Move, WorkersMove
  <2>8. ASSUME NEW v \in Workers \ {w}
        PROVE  /\ Together(v, w, {"append"})' /\ Together(w, v, {"append"})'
               /\ Together(v, w, {"commit", "receipt"})' /\ Together(w, v, {"commit", "receipt"})'
    BY <1>4, <2>6, <2>7 DEF Together
  <2> QED
    BY <2>5, <2>8 DEF OwnOK
<1>5. CASE Owned(w) /\ ~Leave(w)
  <2>1. jobs \in Seq(Job) /\ Held(w) \in Job
    BY <1>1, HeldOK DEF Structure, TypeOK
  <2>2. CASE /\ worker[w].at = "opened" /\ jobs' = [jobs EXCEPT ![i] = Progress(w, "appending", "running")]
             /\ Goto(w, "append")
    <3>1. jobs'[i].phase = "appending" /\ jobs'[i].on = c
      BY <1>2, <2>1, <2>2 DEF Progress, Job, Jobs
    <3> QED
      BY <1>4, <1>5, <2>2, <3>1, WentTo
  <2>3. CASE /\ worker[w].at = "appended" /\ jobs' = [jobs EXCEPT ![i] = Progress(w, "appended", "running")]
             /\ Goto(w, "resume")
    <3>1. jobs'[i].phase = "appended" /\ jobs'[i].on = c
      BY <1>2, <2>1, <2>3 DEF Progress, Job, Jobs
    <3> QED
      BY <1>4, <1>5, <2>3, <3>1, WentTo
  <2>4. CASE /\ worker[w].at = "resume" /\ jobs' = [jobs EXCEPT ![i] = Progress(w, "committing", "running")]
             /\ Goto(w, "commit")
    <3>1. jobs'[i].phase = "committing" /\ jobs'[i].on = c
      BY <1>2, <2>1, <2>4 DEF Progress, Job, Jobs
    <3> QED
      BY <1>4, <1>5, <2>4, <3>1, WentTo
  <2>5. CASE worker[w].at = "receipt"
    <3> DEFINE row == [Progress(w, "waiting", "running") EXCEPT !.task = (worker[w].reply = "task")]
    <3>1. PICK at \in {"poll", "publish", "handler"} : Goto(w, at) /\ jobs' = [jobs EXCEPT ![i] = row]
      BY <1>5, <2>5 DEF Record, Write
    <3>2. row.phase = "waiting" /\ row.on = c
      BY <1>2, <2>1 DEF Progress, Job
    <3> HIDE DEF row
    <3>3. jobs'[i].phase = "waiting" /\ jobs'[i].on = c
      BY <1>2, <2>1, <3>1, <3>2 DEF Jobs
    <3>4. CASE at = "handler"
      BY <3>1, <3>4, OwnAway
    <3>5. CASE at # "handler"
      BY <1>4, <1>5, <2>5, <3>1, <3>3, <3>5, WentTo
    <3> QED
      BY <3>4, <3>5
  <2> QED
    BY <1>5, <2>2, <2>3, <2>4, <2>5 DEF Record, Write
<1>6. CASE ~Owned(w) /\ ~Leave(w)
  BY <1>6 DEF Record, Write
<1> QED
  BY <1>3, <1>5, <1>6

\* The reply of a commit is the only one there will be.
LEMMA OwnCommit ==
  ASSUME Structure, Sending, NEW w \in Workers, NEW reply \in {"task", "skipped", "silent"},
         Commit(w, reply), Move(w)
  PROVE  OwnOK(w)
<1> DEFINE c == Held(w).on
<1>1. worker[w].at = "commit" /\ UNCHANGED jobs
  BY DEF Commit
<1>2. /\ SenderOK(w) /\ c \in Messages /\ SessionOK(c) /\ remote[c] \in Session
      /\ remote \in [Messages -> Session] /\ worker \in [Workers -> Worker]
  BY <1>1, OwnPhase, RequestSteps DEF Structure, TypeOK
<1>3. CASE Goto(w, "handler")
  BY <1>3, OwnAway
<1>4. CASE worker' = [worker EXCEPT ![w].at = "receipt", ![w].reply = reply]
  <2>1. worker'[w].at = "receipt" /\ worker'[w].reply = reply /\ worker'[w].job = worker[w].job
    BY <1>2, <1>4 DEF Worker
  <2>2. Held(w)' = Held(w)
    BY <1>1, <2>1 DEF Held
  <2>3. Held(w).phase = "committing" /\ remote[c].commits = 0
    BY <1>1, <1>2 DEF SenderOK
  <2>4. remote[c].task = "none"
    BY <1>2, <2>3 DEF SessionOK, Session
  <2>5. /\ reply = "skipped" => remote'[c].task = "none"
        /\ reply = "silent" => remote'[c].unticketed
    <3>1. remote' = [remote EXCEPT ![c].commits = remote[c].commits + 1,
             ![c].task = IF reply = "skipped" THEN remote[c].task ELSE "running",
             ![c].unticketed = remote[c].unticketed \/ reply = "silent"]
      BY <1>2 DEF Commit
    <3> HIDE DEF c
    <3>2. remote'[c].task = (IF reply = "skipped" THEN remote[c].task ELSE "running")
          /\ remote'[c].unticketed = (remote[c].unticketed \/ reply = "silent")
      BY <1>2, <3>1 DEF Session
    <3> QED
      BY <2>4, <3>2
  <2>6. SenderOK(w)'
    BY <2>1, <2>2, <2>3, <2>5 DEF SenderOK, InPhase, Mine
  <2>7. \A v \in Workers \ {w} : worker'[v] = worker[v]
    BY DEF Move, WorkersMove
  <2>8. \A v \in Workers \ {w} : ~(worker[v].at \in {"commit", "receipt"} /\ worker[v].job = worker[w].job)
    BY <1>1 DEF Sending, Together
  <2> QED
    BY <2>1, <2>6, <2>7, <2>8 DEF OwnOK, Together
<1> QED
  BY <1>3, <1>4 DEF Commit

\* Every step of a worker leaves it where it may be.
LEMMA OwnStep ==
  ASSUME Structure, Sending, NEW w \in Workers, Move(w),
         Step(w) \/ RequestFails(w) \/ Crash(w) \/ \E j \in Jobs : Claim(w, j)
  PROVE  OwnOK(w)
<1>1. ASSUME NEW j \in Jobs, Claim(w, j)
      PROVE  OwnOK(w)
  <2>1. worker'[w].at \in {"begin", "load"}
    <3> DEFINE at == IF jobs[j].kind = "capture" THEN "begin" ELSE "load"
    <3>1. worker' = [worker EXCEPT ![w].at = at, ![w].job = j]
      BY <1>1 DEF Claim
    <3>2. at \in {"begin", "load"}
      OBVIOUS
    <3> HIDE DEF at
    <3>3. worker \in [Workers -> Worker]
      BY DEF Structure, TypeOK
    <3> QED
      BY <3>1, <3>2, <3>3 DEF Worker
  <2>2. CASE worker'[w].at = "begin"
    <3>1. SenderOK(w)'
      BY <2>2 DEF SenderOK, InPhase
    <3> QED
      BY <2>2, <3>1, OwnApart
  <2>3. CASE worker'[w].at = "load"
    BY <2>3, OwnLeft DEF CaptureSteps
  <2> QED
    BY <2>1, <2>2, <2>3
<1>2. CASE RequestFails(w) \/ Crash(w) \/ Unknown(w) \/ Publish(w) \/ Settle(w) \/ Handle(w)
  BY <1>2, OwnAway DEF RequestFails, Crash, Unknown, Publish, Settle, Handle
<1>3. CASE Drop(w) \/ Remove(w) \/ Finish(w)
  BY <1>3, OwnAway, RequestSteps DEF Drop, Remove, Finish, Reply, Write
<1>4. CASE Load(w) \/ Inspect(w) \/ Mark(w)
  <2>1. worker \in [Workers -> Worker]
    BY DEF Structure, TypeOK
  <2>2. \/ worker'[w].at \in {"inspect", "handler"}
        \/ Leave(w) \/ Goto(w, "handler") \/ Goto(w, "drop")
    <3>1. CASE Load(w)
      BY <2>1, <3>1 DEF Load, Worker
    <3>2. CASE Inspect(w)
      BY <2>1, <3>2 DEF Inspect, Write, Worker
    <3>3. CASE Mark(w)
      BY <2>1, <3>3 DEF Mark, Worker
    <3> QED
      BY <1>4, <3>1, <3>2, <3>3
  <2> QED
    BY <2>2, OwnLeft, OwnAway, RequestSteps
<1> QED
  BY <1>1, <1>2, <1>3, <1>4, OwnBegin, OwnOpen, OwnRecord, OwnAppend, OwnCommit, OwnPoll, OwnTombs
     DEF Step

\* A step keeps everything about the sending.
LEMMA SendingKept ==
  ASSUME Structure, Sending, NEW w \in Workers \cup {NoOne}, Move(w), w \in Workers => OwnOK(w)
  PROVE  Sending'
<1>1. \A v \in Workers : v # w => worker'[v] = worker[v]
  BY DEF Move, WorkersMove
<1>2. ASSUME NEW v \in Workers, worker'[v].at \in CaptureSteps PROVE SenderOK(v)'
  BY <1>1, <1>2, OthersSend DEF OwnOK
<1>3. ASSUME NEW u \in Workers, NEW v \in Workers
      PROVE  Together(u, v, {"append"})' /\ Together(u, v, {"commit", "receipt"})'
  <2>1. CASE u # w /\ v # w
    BY <1>1, <2>1 DEF Sending, Together
  <2>2. CASE u = w /\ v = w
    BY <2>2 DEF Together
  <2>3. CASE u = w /\ v # w
    BY <2>3 DEF OwnOK
  <2>4. CASE u # w /\ v = w
    BY <2>4 DEF OwnOK
  <2> QED
    BY <2>1, <2>2, <2>3, <2>4
<1>4. ASSUME NEW i \in Jobs', Capture(i)' PROVE CaptureOK(i)'
  <2>1. CASE i \in Jobs
    <3>1. Capture(i)
      BY <1>4, <2>1 DEF Move, JobsMove, JobMove, Capture
    <3> QED
      BY <2>1, <3>1, ReceiptsKept
  <2>2. CASE i \notin Jobs
    BY <1>4, <2>2, NewReceipt
  <2> QED
    BY <2>1, <2>2
<1>5. \A c \in Messages : SessionOK(c)'
  BY SessionsKept
<1> QED
  BY <1>2, <1>3, <1>4, <1>5 DEF Sending

-----------------------------------------------------------------------------
(* Cleaning: what is done stays done.                                      *)

\* A capture nobody works on stays one, and stays clean.
LEMMA QuietKept ==
  ASSUME Structure, Sending, NEW w, Move(w), NEW i \in Jobs, Capture(i), Quiet(i)
  PROVE  Quiet(i)' /\ (Clean(i) => Clean(i)')
<1> DEFINE c == jobs[i].on
<1>1. /\ c \in Messages /\ jobs'[i].on = c /\ JobMove(w, i, jobs'[i])
      /\ SessionMove(w, c, remote'[c])
      /\ w \in Workers /\ worker[w].at \in CaptureSteps /\ Held(w).on = c => worker[w].job = i
  BY MoveOfCapture
<1>2. jobs'[i].phase = jobs[i].phase
  BY PhaseWritten DEF Quiet
<1>3. ~Live(i)'
  BY <1>1 DEF JobMove, Live, Quiet
<1>4. ~(w \in Workers /\ worker[w].at = "commit" /\ c = Held(w).on)
  <2> SUFFICES ASSUME w \in Workers, worker[w].at = "commit", c = Held(w).on
               PROVE  FALSE
    OBVIOUS
  <2>1. worker[w].job = i /\ SenderOK(w)
    BY <1>1, RequestSteps DEF Sending
  <2> QED
    BY <2>1 DEF SenderOK, Held, Quiet
<1>5. remote'[c].task = "running" => remote'[c].unticketed
  BY <1>1, <1>4 DEF SessionMove, Quiet
<1>6. Quiet(i)'
  BY <1>1, <1>2, <1>3, <1>5 DEF Quiet
<1>7. Clean(i) => Clean(i)'
  BY <1>1, <1>2 DEF Clean, SessionMove
<1> QED
  BY <1>6, <1>7

\* What is done stays done.
LEMMA DoneKept ==
  ASSUME Structure, Sending, NEW w, Move(w), NEW i \in Jobs, Capture(i), Done(i)
  PROVE  Done(i)'
  BY QuietKept DEF Done

\* A generation with a purge gets no new captures.
LEMMA CapturesKept ==
  ASSUME Structure, NEW w, Move(w), NEW p \in Jobs, jobs[p].kind = "purge",
         NEW g, g = jobs[p].gen
  PROVE  Captures(g)' = Captures(g) /\ jobs'[p].gen = g
<1>1. JobOK(p) /\ jobs[p] \in Job /\ consent \in Consent
  BY DEF Structure, TypeOK, Jobs
<1>2. g # consent.gen
  BY <1>1, MemoryAssumption DEF JobOK, Consent, Generations, Job
<1>3. \A i \in Jobs' \ Jobs : jobs'[i].gen = consent.gen
  BY DEF Move, JobsMove, Made, Jobs
<1>4. \A i \in Jobs : i \in Jobs' /\ jobs'[i].kind = jobs[i].kind /\ jobs'[i].gen = jobs[i].gen
  BY DEF Move, JobsMove, JobMove, Jobs
<1>5. \A i : i \in Captures(g)' <=> i \in Jobs' /\ jobs'[i].kind = "capture" /\ jobs'[i].gen = g
  BY DEF Captures, Capture
<1>6. \A i : i \in Captures(g) <=> i \in Jobs /\ jobs[i].kind = "capture" /\ jobs[i].gen = g
  BY DEF Captures, Capture
<1>7. \A i : i \in Captures(g)' <=> i \in Captures(g)
  BY <1>2, <1>3, <1>4, <1>5, <1>6
<1> QED
  BY <1>4, <1>7

\* Files are added only by a running extraction of a capture of the generation.
LEMMA SpaceStep ==
  ASSUME Structure, Sending, [Next]_vars, NEW g \in Generations
  PROVE  \/ space'[g] \subseteq space[g]
         \/ \E i \in Captures(g) : remote[jobs[i].on].task = "running"
<1>1. space \in [Generations -> SUBSET Uris]
  BY DEF Structure, TypeOK
<1>2. CASE space' = space
  BY <1>2
<1>3. ASSUME NEW w \in Workers, RemoveTombstoned(w) \/ Remove(w)
      PROVE  space'[g] \subseteq space[g]
  BY <1>1, <1>3 DEF RemoveTombstoned, Remove
<1>4. ASSUME NEW c \in Messages, NEW put \in SUBSET Uris, NEW del \in SUBSET Uris,
             NEW end \in {"completed", "failed"}, Extract(c, put, del, end),
             ~(space'[g] \subseteq space[g])
      PROVE  \E i \in Captures(g) : remote[jobs[i].on].task = "running"
  <2>1. remote[c].task = "running" /\ SessionOK(c) /\ remote[c] \in Session
    BY <1>4 DEF Extract, Sending, Structure, TypeOK
  <2>2. \E i \in Jobs : Capture(i) /\ jobs[i].on = c
    BY <2>1 DEF SessionOK, Session
  <2>3. PICK i \in Jobs : jobs[i].kind = "capture" /\ jobs[i].on = c /\ GenerationOf(c) = jobs[i].gen
    BY <2>2 DEF GenerationOf, Capture
  <2>4. space' = [space EXCEPT ![GenerationOf(c)] = (@ \ del) \cup put]
    BY <1>4 DEF Extract
  <2>5. GenerationOf(c) = g
    BY <1>1, <1>4, <2>4
  <2> QED
    BY <2>1, <2>3, <2>5 DEF Captures, Capture
<1>5. CASE User
  BY <1>2, <1>5 DEF User, Enable, Disable, Clear, Delete, Ask, Search, Recheck, Erase, Refuse, Answer
<1>6. ASSUME NEW w \in Workers, Step(w)
      PROVE  space' = space \/ RemoveTombstoned(w) \/ Remove(w)
  <2>1. CASE Begin(w) \/ Open(w) \/ Record(w) \/ AppendMessage(w)
    BY <2>1 DEF Begin, Open, Record, AppendMessage
  <2>2. CASE \E reply \in {"task", "skipped", "silent"} : Commit(w, reply)
    BY <2>2 DEF Commit
  <2>3. CASE Unknown(w) \/ Poll(w) \/ Publish(w) \/ Settle(w)
    BY <2>3 DEF Unknown, Poll, Publish, Settle
  <2>4. CASE Load(w) \/ Inspect(w) \/ Drop(w)
    BY <2>4 DEF Load, Inspect, Drop
  <2>5. CASE Mark(w) \/ Finish(w) \/ Handle(w)
    BY <2>5 DEF Mark, Finish, Handle
  <2> QED
    BY <1>6, <2>1, <2>2, <2>3, <2>4, <2>5 DEF Step
<1>7. CASE \/ \E w \in Workers : RequestFails(w) \/ Crash(w) \/ \E j \in Jobs : Claim(w, j)
           \/ \E j \in Jobs : LeaseEnds(j) \/ Age(j)
           \/ UNCHANGED vars
  <2>1. ASSUME NEW w \in Workers, RequestFails(w) \/ Crash(w) \/ \E j \in Jobs : Claim(w, j)
        PROVE  space' = space
    BY <2>1 DEF RequestFails, Crash, Claim
  <2>2. CASE \E j \in Jobs : LeaseEnds(j) \/ Age(j)
    BY <1>2, <2>2 DEF LeaseEnds, Age
  <2> QED
    BY <1>2, <1>7, <2>1, <2>2 DEF vars
<1> QED
  BY <1>2, <1>3, <1>4, <1>5, <1>6, <1>7 DEF Next

\* Once its captures are done, a purged space stays empty.
LEMMA SpaceKept ==
  ASSUME Structure, Sending, NEW w, Move(w), [Next]_vars, NEW p \in Jobs, jobs[p].kind = "purge",
         NEW g \in Generations, g = jobs[p].gen, \A i \in Captures(g) : Done(i)
  PROVE  /\ \A i \in Captures(g)' : Done(i)'
         /\ space[g] = {} \/ Unticketed(g) => space'[g] = {} \/ Unticketed(g)'
<1>1. Captures(g)' = Captures(g)
  BY CapturesKept
<1>2. \A i \in Captures(g) : i \in Jobs /\ Capture(i)
  BY DEF Captures
<1>3. \A i \in Captures(g) : Done(i)'
  BY <1>2, DoneKept
<1>4. \A i \in Captures(g) : /\ jobs'[i].on = jobs[i].on
                             /\ remote[jobs[i].on].unticketed => remote'[jobs[i].on].unticketed
  BY <1>2, MoveOfCapture DEF SessionMove
<1>5. Unticketed(g) => Unticketed(g)'
  BY <1>1, <1>4 DEF Unticketed
<1>6. CASE space'[g] \subseteq space[g]
  BY <1>1, <1>3, <1>5, <1>6
<1>7. CASE \E i \in Captures(g) : remote[jobs[i].on].task = "running"
  <2>1. Unticketed(g)
    BY <1>7 DEF Done, Quiet, Unticketed
  <2> QED
    BY <1>1, <1>3, <1>5, <2>1
<1> QED
  BY <1>6, <1>7, SpaceStep

\* What a cleanup of worker v has done stays done while it is the owner,
\* whoever moves: g and k are its generation and the capture it is at.
LEMMA CleanerKept ==
  ASSUME Structure, Sending, Cleaning, NEW w, Move(w), [Next]_vars,
         NEW v \in Workers, worker[v].at \in CleanupSteps, Mine(v),
         NEW g, g = Held(v).gen, NEW k, k = Current(v)
  PROVE  /\ worker[v].at \in {"drop", "mark"} => Quiet(k)'
         /\ worker[v].at = "mark" => Clean(k)'
         /\ Held(v).kind = "purge" =>
            /\ Captures(g)' = Captures(g)
            /\ \A i \in Captures(g) : Done(i) => Done(i)'
            /\ worker[v].at \in {"inspect", "drop", "mark"} =>
                 \A i \in Captures(g) : i \in worker[v].todo \/ Done(i)'
            /\ worker[v].at \in {"remove", "settle"} => \A i \in Captures(g) : Done(i) /\ Done(i)'
            /\ worker[v].at = "settle" => space'[g] = {} \/ Unticketed(g)'
<1>1. /\ worker[v].job \in Jobs /\ Held(v) = jobs[worker[v].job] /\ CleanerOK(v)
      /\ g \in Generations
  BY HeldOK, RequestSteps DEF Cleaning, Job
<1>2. worker[v].at \in {"drop", "mark"} =>
        k \in Jobs /\ Capture(k) /\ Quiet(k) /\ (worker[v].at = "mark" => Clean(k))
  BY <1>1, CurrentListed DEF CleanerOK, Structure, WorkerOK
<1>3. ASSUME Held(v).kind = "purge"
      PROVE  /\ Captures(g)' = Captures(g)
             /\ \A i \in Captures(g) : Done(i) => Done(i)'
  BY <1>1, <1>3, CapturesKept, DoneKept DEF Captures
<1>4. ASSUME Held(v).kind = "purge", worker[v].at \in {"remove", "settle"}
      PROVE  \A i \in Captures(g) : Done(i)
  BY <1>1, <1>4 DEF CleanerOK
<1>5. ASSUME Held(v).kind = "purge", worker[v].at = "settle"
      PROVE  space'[g] = {} \/ Unticketed(g)'
  <2>1. space[g] = {} \/ Unticketed(g)
    BY <1>1, <1>5 DEF CleanerOK
  <2> QED
    BY <1>1, <1>4, <1>5, <2>1, SpaceKept
<1>6. ASSUME Held(v).kind = "purge", worker[v].at \in {"inspect", "drop", "mark"}
      PROVE  \A i \in Captures(g) : i \in worker[v].todo \/ Done(i)'
  BY <1>1, <1>3, <1>6 DEF CleanerOK
<1> QED
  BY <1>2, <1>3, <1>4, <1>5, <1>6, QuietKept

\* A move of w leaves true what another cleanup has done.
LEMMA OthersClean ==
  ASSUME Structure, Sending, Cleaning, NEW w, Move(w), [Next]_vars,
         NEW v \in Workers, v # w, worker[v].at \in CleanupSteps
  PROVE  CleanerOK(v)'
<1> SUFFICES ASSUME Mine(v)', NEW g, g = Held(v).gen, NEW k, k = Current(v)
             PROVE  CleanerOK(v)'
  BY DEF CleanerOK
<1>1. worker[v].job \in Jobs /\ Held(v) = jobs[worker[v].job]
  BY HeldOK, RequestSteps
<1>2. worker'[v] = worker[v] /\ Held(v)' = jobs'[worker[v].job]
  BY DEF Move, WorkersMove, Held
<1>3. JobMove(w, worker[v].job, jobs'[worker[v].job])
  BY <1>1 DEF Move, JobsMove
<1>4. Mine(v) /\ Held(v)'.gen = g /\ Held(v)'.kind = Held(v).kind
  BY <1>1, <1>2, <1>3 DEF JobMove, Mine
<1>5. Current(v)' = k
  BY <1>2 DEF Current
<1> QED
  BY <1>2, <1>4, <1>5, CleanerKept DEF CleanerOK

\* A worker that has left the cleanup or only begins it.
LEMMA CleansNot ==
  ASSUME NEW w \in Workers, worker'[w].at \notin CleanupSteps \/ worker'[w].at = "load"
  PROVE  worker'[w].at \in CleanupSteps => CleanerOK(w)'
  BY DEF CleanerOK

\* A job whose later sibling was claimed is finished.
LEMMA Finished ==
  ASSUME Structure, NEW w \in Workers, worker[w].at \in CleanupSteps, Mine(w),
         NEW i \in Jobs, Capture(i), jobs[i].gen = Held(w).gen,
         Held(w).kind = "purge" \/ (Owned(w) /\ jobs[i].phase # "new")
  PROVE  ~Live(i)
<1> DEFINE p == worker[w].job
<1>1. p \in Jobs /\ Held(w) = jobs[p] /\ ~Capture(p) /\ jobs[p].owner # NoOne
      /\ p \in Nat /\ i \in Nat
  BY HeldOK, RequestSteps, MemoryAssumption DEF WorkerOK, Mine, Structure, TypeOK, Jobs
<1> HIDE DEF p
<1>2. i # p
  BY <1>1
<1>3. CASE i < p
  BY <1>1, <1>3 DEF Structure, OrderOK
<1>4. CASE p < i
  <2>1. Held(w).kind # "purge"
    BY <1>1, <1>4 DEF Structure, OrderOK
  <2>2. jobs[i].owner # NoOne
    BY <2>1 DEF Structure, JobOK
  <2>3. ~Live(p)
    BY <1>1, <1>4, <2>2 DEF Structure, OrderOK
  <2> QED
    BY <1>1, <2>1, <2>3 DEF Owned, Live, LiveStates
<1> QED
  BY <1>1, <1>2, <1>3, <1>4

\* A capture that is not listed needs no cleaning.
LEMMA LoadCleans ==
  ASSUME Structure, Sending, Cleaning, NEW w \in Workers, Load(w)
  PROVE  CleanerOK(w)'
<1> DEFINE todo == {j \in Jobs : /\ jobs[j].kind = "capture" /\ jobs[j].gen = Held(w).gen
                                 /\ jobs[j].phase # "new" /\ ~jobs[j].gone}
<1>1. /\ worker[w].at = "load" /\ UNCHANGED <<jobs, remote, space>>
      /\ worker[w] \in Worker /\ worker \in [Workers -> Worker]
      /\ worker[w].job \in Jobs /\ Held(w) = jobs[worker[w].job]
  BY HeldOK DEF Load, Structure, TypeOK
<1>2. worker' = [worker EXCEPT ![w].todo = todo, ![w].at = "inspect"]
  BY DEF Load
<1> HIDE DEF todo
<1>3. worker'[w].todo = todo /\ worker'[w].at = "inspect" /\ worker'[w].job = worker[w].job
  BY <1>1, <1>2 DEF Worker
<1>4. Held(w)' = Held(w) /\ (Mine(w)' <=> Mine(w))
  BY <1>1, <1>3 DEF Held, Mine
<1>5. ASSUME Mine(w), Held(w).kind = "purge", NEW i \in Captures(Held(w).gen)
      PROVE  i \in todo \/ Done(i)
  <2>1. i \in Jobs /\ Capture(i) /\ jobs[i].gen = Held(w).gen /\ CaptureOK(i)
        /\ SessionOK(jobs[i].on)
    BY <1>5 DEF Captures, Sending, Structure, JobOK
  <2>2. CASE jobs[i].phase = "new"
    <3>1. ~Live(i)
      BY <1>1, <1>5, <2>1, Finished, RequestSteps
    <3>2. remote[jobs[i].on].task # "running"
      BY <2>1, <2>2 DEF CaptureOK, SessionOK
    <3> QED
      BY <2>2, <3>1, <3>2 DEF Done, Quiet, Clean
  <2>3. CASE jobs[i].gone
    BY <2>1, <2>3 DEF Cleaning
  <2>4. CASE jobs[i].phase # "new" /\ ~jobs[i].gone
    BY <2>1, <2>4 DEF todo, Capture
  <2> QED
    BY <2>2, <2>3, <2>4
<1>6. \A i \in Jobs : Done(i)' <=> Done(i)
  BY <1>1 DEF Done, Quiet, Clean, Live
<1>7. \A g : Captures(g)' = Captures(g)
  BY <1>1 DEF Captures, Capture, Jobs
<1>8. Captures(Held(w).gen) \subseteq Jobs
  BY DEF Captures
<1> QED
  BY <1>3, <1>4, <1>5, <1>6, <1>7, <1>8 DEF CleanerOK

\* What a worker in a cleanup keeps when it goes on with it.
LEMMA StillIts ==
  ASSUME Structure, NEW w \in Workers, Move(w), worker[w].at \in CleanupSteps,
         worker'[w].job = worker[w].job, NEW g, g = Held(w).gen
  PROVE  /\ (Mine(w)' <=> Mine(w)) /\ Held(w)'.gen = g /\ Held(w)'.kind = Held(w).kind
         /\ worker[w].job \in Jobs /\ Held(w) = jobs[worker[w].job]
<1>1. worker[w].job \in Jobs /\ Held(w) = jobs[worker[w].job]
  BY HeldOK, RequestSteps
<1>2. Held(w)' = jobs'[worker[w].job] /\ JobMove(w, worker[w].job, jobs'[worker[w].job])
  BY <1>1 DEF Move, JobsMove, Held
<1>3. worker[w] # Idle
  BY RequestSteps DEF Idle
<1> QED
  BY <1>1, <1>2, <1>3 DEF JobMove, Mine

\* A capture that is let pass is quiet.
LEMMA InspectCleans ==
  ASSUME Structure, Sending, Cleaning, NEW w \in Workers, Inspect(w), Move(w), [Next]_vars
  PROVE  worker'[w].at \in CleanupSteps => CleanerOK(w)'
<1>1. worker[w].at = "inspect" /\ worker[w].todo # {} /\ worker[w].at \in CleanupSteps
      /\ worker \in [Workers -> Worker] /\ worker[w] \in Worker
  BY RequestSteps DEF Inspect, Structure, TypeOK
<1>2. CASE Leave(w)
  BY <1>2, LeftFor, RequestSteps
<1>3. CASE worker'[w].at = "handler"
  BY <1>3, RequestSteps
<1> DEFINE running == jobs[Current(w)].task /\ remote[jobs[Current(w)].on].task = "running"
           uncertain == jobs[Current(w)].phase = "committing" /\ ~jobs[Current(w)].task
<1>4. CASE Owned(w) /\ Goto(w, "drop") /\ ~running /\ ~uncertain
  <2> SUFFICES ASSUME NEW g, g = Held(w).gen, NEW k, k = Current(w)
               PROVE  CleanerOK(w)'
    OBVIOUS
  <2>1. worker'[w].at = "drop" /\ worker'[w].job = worker[w].job /\ worker'[w].todo = worker[w].todo
    BY <1>1, <1>4 DEF Goto, Worker
  <2>2. Current(w)' = k
    BY <2>1 DEF Current
  <2>3. /\ (Mine(w)' <=> Mine(w)) /\ Held(w)'.gen = g /\ Held(w)'.kind = Held(w).kind
        /\ worker[w].job \in Jobs /\ Held(w) = jobs[worker[w].job]
    BY <1>1, <2>1, StillIts
  <2>4. k \in Jobs /\ Capture(k) /\ jobs[k].gen = g /\ jobs[k].phase # "new"
    BY <1>1, CurrentListed DEF Traces
  <2>5. CaptureOK(k) /\ SessionOK(jobs[k].on)
    BY <2>4 DEF Sending, Structure, JobOK
  <2>6. Mine(w)
    BY <1>4 DEF Owned, Mine
  <2>7. ~Live(k)
    BY <1>1, <1>4, <2>4, <2>6, Finished
  <2>8. jobs[k].phase # "committing"
    BY <1>4, <2>5 DEF CaptureOK
  <2>9. remote[jobs[k].on].task = "running" => remote[jobs[k].on].unticketed
    BY <1>4, <2>5 DEF CaptureOK, SessionOK
  <2>10. Quiet(k)
    BY <2>7, <2>8, <2>9 DEF Quiet
  <2>11. Quiet(k)'
    BY <2>4, <2>10, QuietKept
  <2>12. Held(w).kind = "purge" =>
            /\ Captures(g)' = Captures(g)
            /\ \A i \in Captures(g) : i \in worker[w].todo \/ Done(i)'
    BY <1>1, <2>6, CleanerKept
  <2> QED
    BY <2>1, <2>2, <2>3, <2>11, <2>12 DEF CleanerOK
<1> QED
  <2>1. \/ Leave(w) \/ Goto(w, "handler")
        \/ worker' = [worker EXCEPT ![w].at = "handler", ![w].reply = "uncertain"]
        \/ Owned(w) /\ Goto(w, "drop") /\ ~running /\ ~uncertain
    BY DEF Inspect, Write
  <2>2. worker' = [worker EXCEPT ![w].at = "handler", ![w].reply = "uncertain"] =>
          worker'[w].at = "handler"
    BY <1>1 DEF Worker
  <2> QED
    BY <1>2, <1>3, <1>4, <2>1, <2>2, WentTo

\* Its session is removed.
LEMMA DropCleans ==
  ASSUME Structure, Sending, Cleaning, NEW w \in Workers, Drop(w), Move(w), [Next]_vars
  PROVE  worker'[w].at \in CleanupSteps => CleanerOK(w)'
<1>1. worker[w].at = "drop" /\ worker[w].at \in CleanupSteps /\ worker[w].todo # {}
      /\ worker \in [Workers -> Worker] /\ worker[w] \in Worker /\ remote \in [Messages -> Session]
      /\ UNCHANGED jobs
  BY RequestSteps DEF Drop, Structure, TypeOK, WorkerOK
<1>2. CASE Goto(w, "handler")
  BY <1>2, WentTo, RequestSteps
<1>3. CASE Goto(w, "mark")
  <2> SUFFICES ASSUME Mine(w)', NEW g, g = Held(w).gen, NEW k, k = Current(w)
               PROVE  CleanerOK(w)'
    BY DEF CleanerOK
  <2>1. worker'[w].at = "mark" /\ worker'[w].job = worker[w].job /\ worker'[w].todo = worker[w].todo
    BY <1>1, <1>3 DEF Goto, Worker
  <2>2. Current(w)' = k
    BY <2>1 DEF Current
  <2>3. Mine(w) /\ Held(w)'.gen = g /\ Held(w)'.kind = Held(w).kind
    BY <1>1, <2>1, StillIts
  <2>4. k \in Jobs /\ Capture(k) /\ jobs[k].phase # "new" /\ jobs[k].on \in Messages
    BY <1>1, CurrentListed DEF Traces
  <2>5. remote[jobs[k].on].at # "none"
    BY <2>4 DEF Sending, CaptureOK
  <2>6. remote'[jobs[k].on].at = "removed"
    BY <1>1, <2>4, <2>5 DEF Drop, Session
  <2>7. Clean(k)'
    BY <1>1, <2>6 DEF Clean
  <2>8. /\ Quiet(k)'
        /\ Held(w).kind = "purge" =>
             /\ Captures(g)' = Captures(g)
             /\ \A i \in Captures(g) : i \in worker[w].todo \/ Done(i)'
    BY <1>1, <2>3, CleanerKept
  <2> QED
    BY <2>1, <2>2, <2>3, <2>7, <2>8 DEF CleanerOK
<1> QED
  BY <1>2, <1>3 DEF Drop, Reply

\* It may be taken off the list.
LEMMA MarkCleans ==
  ASSUME Structure, Sending, Cleaning, NEW w \in Workers, Mark(w), Move(w), [Next]_vars
  PROVE  worker'[w].at \in CleanupSteps => CleanerOK(w)'
<1>1. worker[w].at = "mark" /\ worker[w].at \in CleanupSteps /\ worker[w].todo # {}
      /\ worker \in [Workers -> Worker] /\ worker[w] \in Worker
  BY RequestSteps DEF Mark, Structure, TypeOK, WorkerOK
<1>2. CASE Leave(w)
  BY <1>2, LeftFor, RequestSteps
<1>3. CASE worker' = [worker EXCEPT ![w].at = "inspect", ![w].todo = @ \ {Current(w)}]
  <2> SUFFICES ASSUME Mine(w)', NEW g, g = Held(w).gen, NEW k, k = Current(w)
               PROVE  CleanerOK(w)'
    BY DEF CleanerOK
  <2>1. worker' = [worker EXCEPT ![w].at = "inspect", ![w].todo = @ \ {k}]
    BY <1>3
  <2>2. worker'[w].at = "inspect" /\ worker'[w].job = worker[w].job
        /\ worker'[w].todo = worker[w].todo \ {k}
    BY <1>1, <2>1 DEF Worker
  <2>3. Mine(w) /\ Held(w)'.gen = g /\ Held(w)'.kind = Held(w).kind
    BY <1>1, <2>2, StillIts
  <2>4. /\ Quiet(k)' /\ Clean(k)'
        /\ Held(w).kind = "purge" =>
             /\ Captures(g)' = Captures(g)
             /\ \A i \in Captures(g) : i \in worker[w].todo \/ Done(i)'
    BY <1>1, <2>3, CleanerKept
  <2>5. Done(k)'
    BY <2>4 DEF Done
  <2> QED
    BY <2>2, <2>3, <2>4, <2>5 DEF CleanerOK
<1> QED
  BY <1>2, <1>3 DEF Mark

\* With an empty list all captures are done.
LEMMA FinishCleans ==
  ASSUME Structure, Sending, Cleaning, NEW w \in Workers, Finish(w), Move(w), [Next]_vars
  PROVE  worker'[w].at \in CleanupSteps => CleanerOK(w)'
<1>1. worker[w].at = "inspect" /\ worker[w].at \in CleanupSteps /\ worker[w].todo = {}
  BY RequestSteps DEF Finish
<1>2. CASE Leave(w)
  BY <1>2, LeftFor, RequestSteps
<1>3. CASE Goto(w, "remove")
  <2> SUFFICES ASSUME Mine(w)', NEW g, g = Held(w).gen
               PROVE  CleanerOK(w)'
    BY DEF CleanerOK
  <2>1. worker'[w].at = "remove" /\ worker'[w].job = worker[w].job
    BY <1>3, WentTo
  <2>2. Mine(w) /\ Held(w)'.gen = g /\ Held(w)'.kind = Held(w).kind
    BY <1>1, <2>1, StillIts
  <2>3. Held(w).kind = "purge" =>
             /\ Captures(g)' = Captures(g)
             /\ \A i \in Captures(g) : i \in worker[w].todo \/ Done(i)'
    BY <1>1, <2>2, CleanerKept
  <2> QED
    BY <1>1, <2>1, <2>2, <2>3 DEF CleanerOK
<1> QED
  BY <1>2, <1>3 DEF Finish, Write

\* With all captures done the files stay away.
LEMMA RemoveCleans ==
  ASSUME Structure, Sending, Cleaning, NEW w \in Workers, Remove(w), Move(w), [Next]_vars
  PROVE  worker'[w].at \in CleanupSteps => CleanerOK(w)'
<1>1. worker[w].at = "remove" /\ worker[w].at \in CleanupSteps
      /\ space \in [Generations -> SUBSET Uris]
  BY RequestSteps DEF Remove, Structure, TypeOK
<1>2. CASE Goto(w, "handler")
  BY <1>2, WentTo, RequestSteps
<1>3. CASE Goto(w, "settle")
  <2> SUFFICES ASSUME Mine(w)', NEW g, g = Held(w).gen
               PROVE  CleanerOK(w)'
    BY DEF CleanerOK
  <2>1. worker'[w].at = "settle" /\ worker'[w].job = worker[w].job
    BY <1>3, WentTo
  <2>2. Mine(w) /\ Held(w)'.gen = g /\ Held(w)'.kind = Held(w).kind /\ g \in Generations
    BY <1>1, <2>1, StillIts, HeldOK, RequestSteps DEF Job
  <2>3. Held(w).kind = "purge" =>
             /\ Captures(g)' = Captures(g)
             /\ \A i \in Captures(g) : Done(i)'
    BY <1>1, <2>2, CleanerKept
  <2>4. Held(w).kind = "purge" => space'[g] = {}
    BY <1>1, <2>2 DEF Remove, Targets
  <2> QED
    BY <2>1, <2>2, <2>3, <2>4 DEF CleanerOK
<1> QED
  BY <1>2, <1>3 DEF Remove, Reply

\* Steps of a capture, errors and the first step of a job.
LEMMA OwnCleans ==
  ASSUME Structure, Sending, Cleaning, NEW w \in Workers, Move(w), [Next]_vars,
         Step(w) \/ RequestFails(w) \/ Crash(w) \/ \E j \in Jobs : Claim(w, j)
  PROVE  worker'[w].at \in CleanupSteps => CleanerOK(w)'
<1>1. worker \in [Workers -> Worker] /\ worker[w] \in Worker
  BY DEF Structure, TypeOK
<1>2. ASSUME NEW j \in Jobs, Claim(w, j)
      PROVE  worker'[w].at \in CleanupSteps => CleanerOK(w)'
  <2> DEFINE at == IF jobs[j].kind = "capture" THEN "begin" ELSE "load"
  <2>1. worker' = [worker EXCEPT ![w].at = at, ![w].job = j]
    BY <1>2 DEF Claim
  <2>2. at \in {"begin", "load"}
    OBVIOUS
  <2> HIDE DEF at
  <2>3. worker'[w].at \in {"begin", "load"}
    BY <1>1, <2>1, <2>2 DEF Worker
  <2> QED
    BY <2>3, CleansNot DEF CleanupSteps
<1>3. CASE \/ RequestFails(w) \/ Crash(w) \/ Unknown(w) \/ Publish(w) \/ Settle(w) \/ Handle(w)
  <2>1. CASE RequestFails(w) \/ Crash(w) \/ Unknown(w)
    BY <2>1, WentTo, LeftFor, RequestSteps DEF RequestFails, Crash, Unknown
  <2>2. CASE Publish(w) \/ Settle(w) \/ Handle(w)
    BY <2>2, LeftFor, RequestSteps DEF Publish, Settle, Handle
  <2> QED
    BY <1>3, <2>1, <2>2
<1>4. CASE Load(w)
  BY <1>4, LoadCleans
<1>5. CASE Open(w) \/ AppendMessage(w) \/ RemoveTombstoned(w)
  <2>1. \E at \in {"opened", "appended", "publish", "handler"} : Goto(w, at)
    BY <1>5 DEF Open, AppendMessage, RemoveTombstoned, Reply
  <2> QED
    BY <2>1, WentTo DEF CleanupSteps
<1>6. CASE Begin(w)
  <2>1. Leave(w) \/ \E at \in {"resume", "poll", "open"} : Goto(w, at)
    BY <1>6 DEF Begin, Write
  <2> QED
    BY <2>1, WentTo, LeftFor DEF CleanupSteps
<1>7. CASE Record(w)
  <2>1. Leave(w) \/ \E at \in {"append", "resume", "commit", "poll", "publish", "handler"} : Goto(w, at)
    BY <1>7 DEF Record, Write
  <2> QED
    BY <2>1, WentTo, LeftFor DEF CleanupSteps
<1>8. ASSUME NEW reply \in {"task", "skipped", "silent"}, Commit(w, reply)
      PROVE  worker'[w].at \notin CleanupSteps
  <2>1. CASE worker' = [worker EXCEPT ![w].at = "receipt", ![w].reply = reply]
    BY <1>1, <2>1 DEF Worker, CleanupSteps
  <2>2. CASE Goto(w, "handler")
    BY <2>2, WentTo DEF CleanupSteps
  <2> QED
    BY <1>8, <2>1, <2>2 DEF Commit
<1>9. CASE Poll(w)
  <2>1. Leave(w) \/ \E at \in {"tombs", "handler"} : Goto(w, at)
    BY <1>9 DEF Poll, Write
  <2> QED
    BY <2>1, WentTo, LeftFor DEF CleanupSteps
<1> QED
  BY <1>2, <1>3, <1>4, <1>5, <1>6, <1>7, <1>8, <1>9, InspectCleans, DropCleans, MarkCleans,
     FinishCleans, RemoveCleans DEF Step

\* Every step of the system is such a move.
LEMMA EveryMove ==
  ASSUME Structure, Sending, Cleaning, [Next]_vars
  PROVE  \E w \in Workers \cup {NoOne} :
           /\ Move(w)
           /\ w \in Workers => /\ OwnOK(w)
                               /\ worker'[w].at \in CleanupSteps => CleanerOK(w)'
<1>1. WrittenOnce /\ NoOne \notin Workers
  BY MemoryAssumption DEF Sending, SessionOK, WrittenOnce
<1>2. CASE User
  BY <1>1, <1>2, ConsentMoves, DeleteMoves, ChatMoves DEF User
<1>3. ASSUME NEW w \in Workers, Step(w) PROVE Move(w)
  BY <1>1, <1>3, BeginMoves, OpenMoves, RecordMoves, AppendMoves, CommitMoves, UnknownMoves,
     PollMoves, TombsMoves, PublishMoves, LoadMoves, InspectMoves, DropMoves, MarkMoves,
     FinishMoves, RemoveMoves, SettleMoves, HandleMoves DEF Step
<1>4. ASSUME NEW w \in Workers, RequestFails(w) \/ Crash(w) \/ \E j \in Jobs : Claim(w, j)
      PROVE  Move(w)
  BY <1>4, FaultMoves, ClaimMoves
<1>5. ASSUME NEW w \in Workers,
             Step(w) \/ RequestFails(w) \/ Crash(w) \/ \E j \in Jobs : Claim(w, j)
      PROVE  Move(w) /\ OwnOK(w) /\ (worker'[w].at \in CleanupSteps => CleanerOK(w)')
  BY <1>3, <1>4, <1>5, OwnStep, OwnCleans
<1>6. CASE \E j \in Jobs : LeaseEnds(j) \/ Age(j)
  BY <1>1, <1>6, TimeMoves
<1>7. CASE \E c \in Messages, put \in SUBSET Uris, del \in SUBSET Uris,
              end \in {"completed", "failed"} : Extract(c, put, del, end)
  BY <1>1, <1>7, ExtractMoves
<1>8. CASE UNCHANGED vars
  BY <1>1, <1>8, TalkKept, JobsKept, NobodyMoves, ServerKept DEF Move, vars
<1> QED
  BY <1>2, <1>5, <1>6, <1>7, <1>8 DEF Next

\* A purge that is reported as done is true and stays true.
LEMMA PurgesKept ==
  ASSUME Structure, Sending, Cleaning, NEW w, Move(w), [Next]_vars, NEW g \in Generations
  PROVE  PurgedOK(g)'
<1> SUFFICES ASSUME Purged(g)'
             PROVE  /\ \A i \in Captures(g)' : Done(i)'
                    /\ space'[g] = {} \/ Unticketed(g)'
  BY DEF PurgedOK
<1>1. PICK p \in Jobs' : jobs'[p].kind = "purge" /\ jobs'[p].gen = g /\ jobs'[p].state = "succeeded"
  BY DEF Purged, Jobs
<1>2. p \in Jobs
  BY <1>1 DEF Move, JobsMove, Made, Jobs
<1>3. JobMove(w, p, jobs'[p]) /\ jobs[p].kind = "purge" /\ jobs[p].gen = g
  BY <1>1, <1>2 DEF Move, JobsMove, JobMove
<1>4. CASE jobs[p].state = "succeeded"
  <2>1. PurgedOK(g) /\ Purged(g)
    BY <1>2, <1>3, <1>4 DEF Cleaning, Purged
  <2> QED
    BY <1>2, <1>3, <2>1, SpaceKept DEF PurgedOK
<1>5. CASE w \in Workers /\ p = worker[w].job /\ Owned(w) /\ worker[w].at \in {"publish", "settle"}
  <2>1. Held(w) = jobs[p] /\ Mine(w)
    BY <1>5 DEF Held, Owned, Mine
  <2>2. worker[w].at = "settle"
    BY <1>3, <1>5, RequestSteps DEF Structure, WorkerOK, Capture
  <2>3. CleanerOK(w)
    BY <1>5, <2>2, RequestSteps DEF Cleaning
  <2>4. (\A i \in Captures(g) : Done(i)) /\ (space[g] = {} \/ Unticketed(g))
    BY <1>3, <2>1, <2>2, <2>3 DEF CleanerOK
  <2> QED
    BY <1>2, <1>3, <2>4, SpaceKept
<1> QED
  BY <1>1, <1>3, <1>4, <1>5 DEF JobMove

\* A source that is marked as removed is.
LEMMA GoneKept ==
  ASSUME Structure, Sending, Cleaning, NEW w, Move(w), NEW i \in Jobs', Capture(i)', jobs'[i].gone
  PROVE  Done(i)'
<1>1. i \in Jobs
  BY DEF Move, JobsMove, Made, Jobs
<1>2. JobMove(w, i, jobs'[i]) /\ Capture(i)
  BY <1>1 DEF Move, JobsMove, JobMove, Capture
<1>3. CASE jobs[i].gone
  BY <1>1, <1>2, <1>3, DoneKept DEF Cleaning
<1>4. CASE w \in Workers /\ worker[w].at = "mark" /\ Owned(w) /\ i = Current(w)
  <2>1. CleanerOK(w) /\ Mine(w)
    BY <1>4, RequestSteps DEF Cleaning, Owned, Mine
  <2>2. Quiet(i) /\ Clean(i)
    BY <1>4, <2>1 DEF CleanerOK
  <2> QED
    BY <1>1, <1>2, <2>2, DoneKept DEF Done
<1> QED
  BY <1>2, <1>3, <1>4 DEF JobMove

-----------------------------------------------------------------------------

\* The inductive invariant of the jobs.
MemoryInv == Structure /\ Sending /\ Cleaning

\* It holds at the start,
LEMMA Initially == Init => MemoryInv
<1> SUFFICES ASSUME Init PROVE MemoryInv
  OBVIOUS
<1>1. Jobs = {} /\ jobs \in Seq(Job)
  BY DEF Init, Jobs
<1>2. \A w \in Workers : worker[w].at = "idle" /\ worker[w] \in Worker
  BY DEF Init, Idle, Worker
<1>3. remote \in [Messages -> Session]
      /\ \A c \in Messages : remote[c].appends = 0 /\ remote[c].commits = 0 /\ remote[c].at = "none"
                             /\ remote[c].task = "none"
  BY DEF Init, Session
<1>4. TypeOK
  BY <1>1, <1>2, <1>3, MemoryAssumption DEF Init, TypeOK, Consent, Generations, MemoryRows, Chat
<1>5. \A w \in Workers : WorkerOK(w)
  BY <1>2 DEF WorkerOK, CaptureSteps, CleanupSteps
<1>6. FreshOK
  BY DEF Init, FreshOK
<1>7. Structure
  BY <1>1, <1>4, <1>5, <1>6 DEF Structure
<1>8. Sending
  BY <1>1, <1>2, <1>3 DEF Sending, CaptureSteps, Together, SessionOK
<1>9. Cleaning
  BY <1>1, <1>2 DEF Cleaning, CleanupSteps, PurgedOK, Purged
<1> QED
  BY <1>7, <1>8, <1>9 DEF MemoryInv

\* and every step keeps it.
LEMMA Inductive == MemoryInv /\ [Next]_vars => MemoryInv'
<1> SUFFICES ASSUME Structure, Sending, Cleaning, [Next]_vars PROVE MemoryInv'
  BY DEF MemoryInv
<1>1. PICK w \in Workers \cup {NoOne} :
           /\ Move(w)
           /\ w \in Workers => /\ OwnOK(w)
                               /\ worker'[w].at \in CleanupSteps => CleanerOK(w)'
  BY EveryMove
<1>2. Structure'
  <2>1. Shape'
    BY NextStep DEF StoreStep, Structure, TypeOK, Shape
  <2> QED
    BY <1>1, <2>1, StructureKept DEF Move
<1>3. Sending'
  BY <1>1, SendingKept
<1>4. Cleaning'
  <2>1. ASSUME NEW v \in Workers, worker'[v].at \in CleanupSteps PROVE CleanerOK(v)'
    <3>1. CASE v = w
      BY <1>1, <2>1, <3>1
    <3>2. CASE v # w
      <4>1. worker'[v] = worker[v]
        BY <1>1, <3>2 DEF Move, WorkersMove
      <4> QED
        BY <1>1, <2>1, <3>2, <4>1, OthersClean
    <3> QED
      BY <3>1, <3>2
  <2>2. \A i \in Jobs' : Capture(i)' /\ jobs'[i].gone => Done(i)'
    BY <1>1, GoneKept
  <2>3. \A g \in Generations : PurgedOK(g)'
    BY <1>1, PurgesKept
  <2> QED
    BY <2>1, <2>2, <2>3 DEF Cleaning
<1> QED
  BY <1>2, <1>3, <1>4 DEF MemoryInv

\* The inductive invariant holds in every state.
THEOREM Invariance == Spec => []MemoryInv
  BY Initially, Inductive, PTL DEF Spec

\* Every row and every process has one of the states of the code.
THEOREM TypesHold == Spec => []TypeOK
<1>1. MemoryInv => TypeOK
  BY DEF MemoryInv, Structure
<1> QED
  BY <1>1, Invariance, PTL

\* However workers crash, stall and take over, a message is appended at most
\* once and committed at most once (_capture).
THEOREM SentOnce == Spec => []WrittenOnce
<1>1. MemoryInv => WrittenOnce
  BY DEF MemoryInv, Sending, SessionOK, WrittenOnce
<1> QED
  BY <1>1, Invariance, PTL

\* A message is sent only under the generation it was written under
\* (enqueue_capture).
THEOREM CapturedUnderConsent == Spec => []OnlyConsented
<1>1. MemoryInv => OnlyConsented
  BY DEF MemoryInv, Structure, JobOK, Capture, OnlyConsented
<1> QED
  BY <1>1, Invariance, PTL

\* A purge that is reported as done is true and stays true (_cleanup).
THEOREM PurgesAreTrue == Spec => []PurgeTruth
<1>1. ASSUME MemoryInv, NEW g \in Generations, Purged(g), \A c \in CapturesOf(g) : ~remote[c].unticketed
      PROVE  space[g] = {} /\ \A c \in CapturesOf(g) : ~Remains(c)
  <2>1. (\A i \in Captures(g) : Done(i)) /\ (space[g] = {} \/ Unticketed(g))
    BY <1>1 DEF MemoryInv, Cleaning, PurgedOK
  <2>2. \A c : c \in CapturesOf(g) <=> \E i \in Captures(g) : c = jobs[i].on
    BY DEF CapturesOf, Captures, Capture
  <2>3. ~Unticketed(g)
    BY <1>1, <2>2 DEF Unticketed
  <2>4. ASSUME NEW i \in Captures(g) PROVE ~Remains(jobs[i].on)
    <3>1. i \in Jobs /\ Capture(i) /\ Done(i) /\ CaptureOK(i) /\ SessionOK(jobs[i].on)
      BY <1>1, <2>1 DEF Captures, MemoryInv, Structure, JobOK, Sending
    <3>2. remote[jobs[i].on].task # "running"
      BY <2>3, <3>1 DEF Done, Quiet, Unticketed
    <3>3. ~(remote[jobs[i].on].at = "filled" /\ ~remote[jobs[i].on].reopened)
      BY <3>1 DEF Done, Clean, CaptureOK, SessionOK
    <3> QED
      BY <3>2, <3>3 DEF Remains
  <2> QED
    BY <2>1, <2>2, <2>3, <2>4
<1>2. MemoryInv => PurgeTruth
  BY <1>1 DEF PurgeTruth
<1> QED
  BY <1>2, Invariance, PTL

\* Only the user changes a message.
LEMMA ChatKept ==
  ASSUME [Next]_vars
  PROVE  User \/ chat' = chat
<1>1. ASSUME NEW w \in Workers, Step(w)
      PROVE  chat' = chat
  <2>1. CASE Begin(w) \/ Open(w) \/ Record(w) \/ AppendMessage(w)
    BY <2>1 DEF Begin, Open, Record, AppendMessage
  <2>2. CASE \E reply \in {"task", "skipped", "silent"} : Commit(w, reply)
    BY <2>2 DEF Commit
  <2>3. CASE Unknown(w) \/ Poll(w) \/ Publish(w) \/ Settle(w)
    BY <2>3 DEF Unknown, Poll, Publish, Settle
  <2>4. CASE Load(w) \/ Inspect(w) \/ Drop(w)
    BY <2>4 DEF Load, Inspect, Drop
  <2>5. CASE Mark(w) \/ Finish(w) \/ Handle(w) \/ Remove(w) \/ RemoveTombstoned(w)
    BY <2>5 DEF Mark, Finish, Handle, Remove, RemoveTombstoned
  <2> QED
    BY <1>1, <2>1, <2>2, <2>3, <2>4, <2>5 DEF Step
<1>2. ASSUME NEW w \in Workers,
             RequestFails(w) \/ Crash(w) \/ \E j \in Jobs : Claim(w, j)
      PROVE  chat' = chat
  BY <1>2 DEF RequestFails, Crash, Claim
<1>3. CASE \E j \in Jobs : LeaseEnds(j) \/ Age(j)
  BY <1>3 DEF LeaseEnds, Age
<1>4. CASE \E c \in Messages, put \in SUBSET Uris, del \in SUBSET Uris,
              end \in {"completed", "failed"} : Extract(c, put, del, end)
  BY <1>4 DEF Extract
<1> QED
  BY <1>1, <1>2, <1>3, <1>4 DEF Next, vars

\* Only Answer makes a message an answered one.
LEMMA AnsweredBy ==
  ASSUME chat \in [Messages -> Chat], [Next]_vars, NEW c \in Messages,
         chat[c].at # "answered", chat'[c].at = "answered"
  PROVE  \E cited \in SUBSET chat[c].got, b \in BOOLEAN : Answer(c, cited, b)
<1>1. User
  BY ChatKept
<1>2. ~(Enable \/ Disable \/ Clear \/ \E u \in Uris : Delete(u))
  BY DEF Enable, Disable, Clear, Delete
<1>3. ASSUME NEW d \in Messages, Ask(d) \/ Search(d) \/ Recheck(d) \/ Erase(d)
      PROVE  FALSE
  <2>1. CASE d = c
    BY <1>3, <2>1 DEF Ask, Search, Recheck, Erase, Chat
  <2>2. CASE d # c
    BY <1>3, <2>2 DEF Ask, Search, Recheck, Erase
  <2> QED
    BY <2>1, <2>2
<1>4. ASSUME NEW d \in Messages, NEW cited \in SUBSET chat[d].got, Refuse(d, cited)
      PROVE  FALSE
  BY <1>4 DEF Refuse, Chat
<1>5. ASSUME NEW d \in Messages, NEW cited \in SUBSET chat[d].got, NEW b \in BOOLEAN,
             Answer(d, cited, b)
      PROVE  Answer(c, cited, b) /\ cited \in SUBSET chat[c].got
  <2>1. d = c
    BY <1>5 DEF Answer, Chat
  <2> QED
    BY <1>5, <2>1
<1> QED
  BY <1>1, <1>2, <1>3, <1>4, <1>5 DEF User

\* An answer that is saved cites only memories that are there at that moment
\* (validate_citations).
THEOREM CitesLiving == Spec => AnswersCiteLiving
<1> DEFINE Living == \A c \in Messages :
             chat[c].at # "answered" /\ chat'[c].at = "answered" =>
               \A u \in chat'[c].got : memory[chat[c].gen][u] = "ready" /\ consent.enabled
<1>1. TypeOK /\ [Next]_vars => [Living]_vars
  <2> SUFFICES ASSUME TypeOK, [Next]_vars, NEW c \in Messages,
                      chat[c].at # "answered", chat'[c].at = "answered"
               PROVE  \A u \in chat'[c].got : memory[chat[c].gen][u] = "ready" /\ consent.enabled
    OBVIOUS
  <2>1. PICK cited \in SUBSET chat[c].got, b \in BOOLEAN : Answer(c, cited, b)
    BY AnsweredBy DEF TypeOK
  <2>2. chat'[c].got = cited
    BY <2>1 DEF Answer, TypeOK, Chat
  <2> QED
    BY <2>1, <2>2 DEF Answer, Citable
<1> QED
  BY <1>1, TypesHold, PTL DEF Spec, AnswersCiteLiving
=============================================================================
