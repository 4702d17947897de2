--------------------------- MODULE RunStoreProofs ---------------------------
(***************************************************************************)
(* Theorems of RunStore for every set of Runs, sessions and workers and    *)
(* every lease, budget and journal limit.                                  *)
(*                                                                         *)
(* Every action is first reduced to what it does to one row (RowStep);     *)
(* the invariants of a row and the refinement of RunLifecycle are then     *)
(* facts about RowStep, and only the claims of the workers are argued      *)
(* action by action.                                                       *)
(***************************************************************************)
EXTENDS RunStore, TLAPS

-----------------------------------------------------------------------------
(* What one step can do to the row of a Run: a before, b after.            *)

RowAccept(a, b) ==
  /\ a.state = "absent"
  /\ \E s \in Sessions, t \in Nat : b = Logged(Accepted(s, t))
RowLapse(a, b) == Expired(a) /\ b = Expire(a)
RowCancel(a, b) ==
  /\ a.state \in {"queued", "running", "waiting"}
  /\ b = Cancelled(a)
RowStop(a, b) ==
  /\ a.state \in {"queued", "running", "waiting"} /\ ~Unowned(a) /\ CanLog(a)
  /\ b = Stopping(a)
RowResume(a, b) ==
  /\ a.state = "waiting" /\ CanLog(a)
  /\ \E token \in Nat : b = Resumed(a, token)
RowRemove(a, b) ==
  /\ a.state \in Active \cup Terminal
  /\ \E s \in Sessions : b = [NoRow(s) EXCEPT !.state = "deleted"]
RowSettle(a, b) == Abandoned(a) /\ b = Settled(a)
RowExhaust(a, b) == Claimable(a) /\ b = Closed(a, "failed", 1)
RowLease(a, b) == Claimable(a) /\ ~Exhausted(a) /\ CanLog(a) /\ b = Leased(a)
RowEmit(a, b) == a.state = "running" /\ CanLog(a) /\ b = Logged(a)
\* The owner that saves is the current one and holds the current checkpoint.
Current(a, p) == p.gen = a.generation /\ p.inputs = a.inputs
RowPublish(a, b) ==
  /\ a.state = "running"
  /\ \E p \in Process : Current(a, p) /\ b = Saved(Released(Closed(a, "succeeded", 3)), p)
RowClarify(a, b) ==
  /\ a.state = "running" /\ CanLog(a) /\ a.remaining > a.used
  /\ \E p \in Process : Current(a, p) /\ b = Saved(Paused(a), p)
RowRequeue(a, b) ==
  /\ a.state = "running" /\ a.expires > 0
  /\ b = Requeued(a)
RowFail(a, b) ==
  /\ a.state \in {"running", "cancelling"}
  /\ \E to \in {"failed", "cancelled"} : b = Released(Closed(a, to, 1))
RowBeat(a, b) ==
  /\ a.state = "running" /\ a.lease > 0 /\ a.expires > 0
  /\ b = [a EXCEPT !.lease = Lease]
RowAge(a, b) == IsActive(a) /\ b = Aged(a)

\* Everything but the creation of the Run.
RowChange(a, b) ==
  \/ RowLapse(a, b) \/ RowCancel(a, b) \/ RowStop(a, b)
  \/ RowResume(a, b) \/ RowRemove(a, b) \/ RowSettle(a, b) \/ RowExhaust(a, b)
  \/ RowLease(a, b) \/ RowEmit(a, b) \/ RowPublish(a, b) \/ RowClarify(a, b)
  \/ RowRequeue(a, b) \/ RowFail(a, b) \/ RowBeat(a, b) \/ RowAge(a, b)

RowStep(a, b) == RowAccept(a, b) \/ RowChange(a, b)

-----------------------------------------------------------------------------
(* Every step changes every row by RowStep or not at all.                  *)

LEMMA CreateRows ==
  ASSUME TypeOK, NEW r \in Runs, NEW s \in Sessions, Create(r, s), NEW q \in Runs
  PROVE  run'[q] = run[q] \/ RowStep(run[q], run'[q])
<1>1. CASE q = r
  <2>1. run'[q] = Logged(Accepted(s, created))
    BY <1>1, Zenon DEF Create
  <2>2. created \in Nat
    BY DEF TypeOK
  <2>3. RowAccept(run[q], run'[q])
    BY <1>1, <2>1, <2>2, Zenon DEF Create, RowAccept
  <2> QED
    BY <2>3 DEF RowStep
<1>2. CASE q # r
  <2>1. CASE q \in ActiveIn(s)
    <3>1. run'[q] = Expire(run[q])
      BY <1>2, <2>1 DEF Create
    <3>2. Expired(run[q])
      BY <2>1 DEF Create
    <3> QED
      BY <3>1, <3>2, Zenon DEF RowStep, RowChange, RowLapse
  <2>2. CASE q \notin ActiveIn(s)
    BY <1>2, <2>2 DEF Create
  <2> QED
    BY <2>1, <2>2
<1> QED
  BY <1>1, <1>2

LEMMA UserRows ==
  ASSUME TypeOK, NEW q \in Runs,
         \/ \E r \in Runs : Read(r) \/ RequestCancel(r) \/ Resume(r, run[r].resumeKey)
         \/ \E s \in Sessions : DeleteSession(s)
  PROVE  run'[q] = run[q] \/ RowChange(run[q], run'[q])
<1>1. ASSUME NEW r \in Runs, Read(r)
      PROVE  run'[q] = run[q] \/ RowLapse(run[q], run'[q])
  BY <1>1, Zenon DEF Read, RowLapse, TypeOK
<1>2. ASSUME NEW r \in Runs, RequestCancel(r)
      PROVE  run'[q] = run[q] \/ RowCancel(run[q], run'[q]) \/ RowStop(run[q], run'[q])
  BY <1>2, Zenon DEF RequestCancel, RowCancel, RowStop, TypeOK
<1>3. ASSUME NEW r \in Runs, Resume(r, run[r].resumeKey)
      PROVE  run'[q] = run[q] \/ RowResume(run[q], run'[q]) \/ RowLapse(run[q], run'[q])
  <2>1. run[r].resumeKey \in Nat
    BY DEF TypeOK, Row
  <2> QED
    BY <1>3, <2>1, Zenon DEF Resume, RowResume, RowLapse, Expired, TypeOK
<1>4. ASSUME NEW s \in Sessions, DeleteSession(s)
      PROVE  run'[q] = run[q] \/ RowRemove(run[q], run'[q])
  BY <1>4, Zenon DEF DeleteSession, RowsOf, RowRemove, TypeOK
<1> QED
  BY <1>1, <1>2, <1>3, <1>4, Zenon DEF RowChange

LEMMA SweptRows ==
  ASSUME TypeOK, NEW skipped, NEW q \in Runs
  PROVE  Swept(skipped)[q] = run[q] \/ RowChange(run[q], Swept(skipped)[q])
<1>1. Swept(skipped)[q] \in {run[q], Expire(run[q]), Settled(run[q])}
  BY Zenon DEF Swept
<1>2. CASE q \in skipped
  BY <1>2, Zenon DEF Swept
<1>3. CASE q \notin skipped /\ Expired(run[q])
  BY <1>3, Zenon DEF Swept, RowChange, RowLapse
<1>4. CASE q \notin skipped /\ ~Expired(run[q])
  BY <1>4, Zenon DEF Swept, RowChange, RowSettle
<1> QED
  BY <1>2, <1>3, <1>4

\* The Run a sweep leases or ends is one it did not touch before.
LEMMA SweptClaimable ==
  ASSUME TypeOK, NEW skipped, NEW r \in Runs, Claimable(run[r])
  PROVE  Swept(skipped)[r] = run[r]
<1>1. run[r].state \in {"queued", "running"}
  BY Zenon DEF Claimable
<1>2. run[r].state # "waiting" /\ run[r].state # "cancelling"
  BY <1>1
<1> QED
  BY <1>2, Zenon DEF Swept, Expired, Abandoned

LEMMA ClaimRows ==
  ASSUME TypeOK, NEW w \in Workers, NEW skipped, ClaimNext(w, skipped), NEW q \in Runs
  PROVE  run'[q] = run[q] \/ RowChange(run[q], run'[q])
<1>1. CASE SweepOnly(w, skipped)
  BY <1>1, SweptRows, Zenon DEF SweepOnly
<1>2. CASE ClaimExhausted(w, skipped)
  <2>1. PICK r \in Runs : /\ IsNext(r, skipped)
                          /\ run' = [Swept(skipped) EXCEPT ![r] = Closed(@, "failed", 1)]
    BY <1>2, Zenon DEF ClaimExhausted
  <2>2. Claimable(run[r])
    BY <2>1, Zenon DEF IsNext
  <2>3. CASE q = r
    <3>1. run'[q] = Closed(run[q], "failed", 1)
      BY <2>1, <2>2, <2>3, SweptClaimable, Zenon DEF Swept
    <3> QED
      BY <2>2, <2>3, <3>1, Zenon DEF RowChange, RowExhaust
  <2>4. CASE q # r
    <3>1. run'[q] = Swept(skipped)[q]
      BY <2>1, <2>4, Zenon DEF Swept
    <3> QED
      BY <3>1, SweptRows, Zenon
  <2> QED
    BY <2>3, <2>4
<1>3. CASE ClaimRun(w, skipped)
  <2>1. PICK r \in Runs : /\ IsNext(r, skipped)
                          /\ ~Exhausted(run[r])
                          /\ CanLog(run[r])
                          /\ run' = [Swept(skipped) EXCEPT ![r] = Leased(@)]
    BY <1>3, Zenon DEF ClaimRun
  <2>2. Claimable(run[r])
    BY <2>1, Zenon DEF IsNext
  <2>3. CASE q = r
    <3>1. run'[q] = Leased(run[q])
      BY <2>1, <2>2, <2>3, SweptClaimable, Zenon DEF Swept
    <3> QED
      BY <2>1, <2>2, <2>3, <3>1, Zenon DEF RowChange, RowLease
  <2>4. CASE q # r
    <3>1. run'[q] = Swept(skipped)[q]
      BY <2>1, <2>4, Zenon DEF Swept
    <3> QED
      BY <3>1, SweptRows, Zenon
  <2> QED
    BY <2>3, <2>4
<1> QED
  BY <1>1, <1>2, <1>3, Zenon DEF ClaimNext

\* An owner that passes the fence is the current one, and knows the current
\* checkpoint while it executes.
LEMMA OwnedIsCurrent ==
  ASSUME TypeOK, NEW w \in Workers, ClaimInv(w), InRun(w), Owned(w)
  PROVE  /\ worker[w].run \in Runs
         /\ worker[w] \in Process
         /\ run[worker[w].run].state = "running"
         /\ worker[w].gen = run[worker[w].run].generation
         /\ worker[w].pc = "executing" => Current(run[worker[w].run], worker[w])
<1>1. worker[w] \in Process
  BY Zenon DEF TypeOK
<1> QED
  BY <1>1, Zenon DEF ClaimInv, Owned, HoldsLease, Current

LEMMA OwnerRows ==
  ASSUME TypeOK, NEW w \in Workers, ClaimInv(w), NEW q \in Runs,
         \/ EmitEvent(w) \/ Publish(w) \/ Clarify(w)
         \/ ReleaseBusy(w) \/ FinishFailure(w) \/ Heartbeat(w)
  PROVE  run'[q] = run[q] \/ RowChange(run[q], run'[q])
<1> DEFINE r == worker[w].run
<1>1. InRun(w)
  BY Zenon DEF InRun, EmitEvent, Publish, Clarify, ReleaseBusy, FinishFailure, Heartbeat
<1>2. r \in Runs
  BY <1>1, Zenon DEF ClaimInv
<1>3. run \in [Runs -> Row]
  BY Zenon DEF TypeOK
<1>4. CASE EmitEvent(w)
  <2>1. CanLog(run[r]) /\ run[r].state = "running" /\ run' = [run EXCEPT ![r] = Logged(@)]
    BY <1>1, <1>4, OwnedIsCurrent, Zenon DEF EmitEvent
  <2> QED
    BY <1>2, <1>3, <2>1, Zenon DEF RowChange, RowEmit
<1>5. CASE Publish(w)
  <2>1. /\ run[r].state = "running" /\ worker[w] \in Process /\ Current(run[r], worker[w])
        /\ run' = [run EXCEPT ![r] = Saved(Released(Closed(@, "succeeded", 3)), worker[w])]
    BY <1>1, <1>5, OwnedIsCurrent, Zenon DEF Publish
  <2> QED
    BY <1>2, <1>3, <2>1, Zenon DEF RowChange, RowPublish
<1>6. CASE Clarify(w)
  <2>1. /\ run[r].state = "running" /\ worker[w] \in Process /\ Current(run[r], worker[w])
        /\ run[r].remaining > run[r].used /\ CanLog(run[r])
        /\ run' = [run EXCEPT ![r] = Saved(Paused(@), worker[w])]
    BY <1>1, <1>6, OwnedIsCurrent, Zenon DEF Clarify
  <2> QED
    BY <1>2, <1>3, <2>1, Zenon DEF RowChange, RowClarify
<1>7. CASE ReleaseBusy(w)
  <2>1. CASE Owned(w)
    <3>1. /\ run[r].state = "running" /\ run[r].expires > 0
          /\ run' = [run EXCEPT ![r] = Requeued(@)]
      BY <1>1, <1>7, <2>1, OwnedIsCurrent, Zenon DEF ReleaseBusy, Owned
    <3> QED
      BY <1>2, <1>3, <3>1, Zenon DEF RowChange, RowRequeue
  <2>2. CASE ~Owned(w)
    BY <1>7, <2>2, Zenon DEF ReleaseBusy
  <2> QED
    BY <2>1, <2>2
<1>8. CASE FinishFailure(w)
  <2>1. CASE run' = run
    BY <2>1
  <2>2. CASE run' # run
    <3>1. /\ HoldsLease(w)
          /\ \E to \in {"failed", "cancelled"} :
               run' = [run EXCEPT ![r] = Released(Closed(@, to, 1))]
      BY <1>8, <2>2, Zenon DEF FinishFailure
    <3>2. run[r].state \in {"running", "cancelling"}
      BY <3>1, Zenon DEF HoldsLease
    <3> QED
      BY <1>2, <1>3, <3>1, <3>2, Zenon DEF RowChange, RowFail
  <2> QED
    BY <2>1, <2>2
<1>9. CASE Heartbeat(w)
  <2>1. CASE Owned(w)
    <3>1. /\ run[r].state = "running"
          /\ run' = [run EXCEPT ![r].lease = Lease]
      BY <1>1, <1>9, <2>1, OwnedIsCurrent, Zenon DEF Heartbeat
    <3>2. run'[q] = run[q] \/ (q = r /\ run'[q] = [run[r] EXCEPT !.lease = Lease])
      BY <1>2, <1>3, <3>1, Zenon
    <3>3. run[r].lease > 0 /\ run[r].expires > 0
      BY <1>1, <2>1, Zenon DEF Owned, HoldsLease
    <3> QED
      BY <3>1, <3>2, <3>3, Zenon DEF RowChange, RowBeat
  <2>2. CASE ~Owned(w)
    BY <1>9, <2>2, Zenon DEF Heartbeat
  <2> QED
    BY <2>1, <2>2
<1> QED
  BY <1>4, <1>5, <1>6, <1>7, <1>8, <1>9

LEMMA TickRows ==
  ASSUME TypeOK, Tick, NEW q \in Runs
  PROVE  run'[q] = run[q] \/ RowChange(run[q], run'[q])
  BY Zenon DEF Tick, RowChange, RowAge

\* A step other than create changes every row by RowChange, or not at all.
LEMMA StepsButCreate ==
  ASSUME IInv, [Next]_vars, NEW q \in Runs,
         ~ \E r \in Runs, s \in Sessions : Create(r, s)
  PROVE  run'[q] = run[q] \/ RowChange(run[q], run'[q])
<1> TypeOK /\ \A w \in Workers : ClaimInv(w)
  BY Zenon DEF IInv
<1>1. CASE User
  BY <1>1, UserRows, Zenon DEF User
<1>2. CASE Tick
  BY <1>2, TickRows
<1>3. ASSUME NEW w \in Workers, Worker(w)
      PROVE  run'[q] = run[q] \/ RowChange(run[q], run'[q])
  <2>1. CASE \E skipped \in SUBSET Runs : ClaimNext(w, skipped)
    BY <2>1, ClaimRows, Zenon
  <2>2. CASE \/ LoadCheckpoint(w) \/ EnterSession(w) \/ LoseSessionLock(w) \/ Raise(w)
             \/ LeaveSession(w) \/ HeartbeatDies(w) \/ Crash(w)
    BY <2>2, Zenon DEF LoadCheckpoint, EnterSession, LoseSessionLock, Raise,
                       LeaveSession, HeartbeatDies, Crash
  <2>3. CASE \/ EmitEvent(w) \/ Publish(w) \/ Clarify(w)
             \/ ReleaseBusy(w) \/ FinishFailure(w) \/ Heartbeat(w)
    BY <2>3, OwnerRows, Zenon
  <2> QED
    BY <1>3, <2>1, <2>2, <2>3, Zenon DEF Worker
<1>4. CASE UNCHANGED vars
  BY <1>4, Zenon DEF vars
<1> QED
  BY <1>1, <1>2, <1>3, <1>4, Zenon DEF Next

\* A step changes every row by RowStep, or not at all.
LEMMA StepOfRows ==
  ASSUME IInv, [Next]_vars, NEW q \in Runs
  PROVE  run'[q] = run[q] \/ RowStep(run[q], run'[q])
<1>1. TypeOK
  BY Zenon DEF IInv
<1>2. ASSUME NEW r \in Runs, NEW s \in Sessions, Create(r, s)
      PROVE  run'[q] = run[q] \/ RowStep(run[q], run'[q])
  BY <1>1, <1>2, CreateRows
<1>3. CASE ~ \E r \in Runs, s \in Sessions : Create(r, s)
  BY <1>3, StepsButCreate, Zenon DEF RowStep
<1> QED
  BY <1>2, <1>3

-----------------------------------------------------------------------------
(* Types.                                                                  *)

LEMMA RowNumbers ==
  ASSUME NEW a \in Row
  PROVE  /\ a.born \in Nat /\ a.generation \in Nat /\ a.owner \in Nat
         /\ a.lease \in Nat /\ a.remaining \in Nat /\ a.used \in Nat
         /\ a.expires \in Nat /\ a.sequence \in Nat /\ a.endings \in Nat
         /\ a.asked \in Nat /\ a.revision \in Nat /\ a.inputs \in Nat
         /\ a.receipt \in Nat /\ a.resumeKey \in Nat /\ a.answer \in Nat
  BY Zenon DEF Row

LEMMA NoRowTyped ==
  ASSUME NEW s \in Sessions
  PROVE  NoRow(s) \in Row
  BY 0 \in Nat, Zenon DEF NoRow, Row, States

LEMMA AcceptedTyped ==
  ASSUME NEW s \in Sessions, NEW t \in Nat
  PROVE  Accepted(s, t) \in Row
<1>1. Budget \in Nat /\ Budget + Grace \in Nat
  BY TimesAssumption, SMT
<1>2. NoRow(s) \in Row /\ "queued" \in States
  BY NoRowTyped, Zenon DEF States, Active
<1> QED
  BY <1>1, <1>2, Zenon DEF Accepted, Row

\* The parts every change is composed of.
LEMMA PartsTyped ==
  ASSUME NEW a \in Row
  PROVE  /\ \A state \in States : Moved(a, state) \in Row
         /\ Logged(a) \in Row
         /\ \A n \in Nat : Ended(a, n) \in Row
         /\ Released(a) \in Row
<1>1. a.sequence + 1 \in Nat /\ a.endings + 1 \in Nat /\ 0 \in Nat
  BY RowNumbers, SMT
<1>2. \A n \in Nat : a.sequence + n \in Nat
  BY RowNumbers, SMT
<1>3. \A state \in States : Moved(a, state) \in Row
  BY Zenon DEF Moved, Row
<1>4. Logged(a) \in Row
  BY <1>1, Zenon DEF Logged, Row
<1>5. \A n \in Nat : Ended(a, n) \in Row
  BY <1>1, <1>2, Zenon DEF Ended, Row
<1>6. Released(a) \in Row
  BY <1>1, Zenon DEF Released, Row
<1> QED
  BY <1>3, <1>4, <1>5, <1>6

LEMMA ClosedTyped ==
  ASSUME NEW a \in Row, NEW to \in Terminal, NEW n \in Nat
  PROVE  Closed(a, to, n) \in Row
<1>1. Moved(a, to) \in Row
  BY PartsTyped, Zenon DEF States
<1> QED
  BY <1>1, PartsTyped, Zenon DEF Closed

LEMMA SavedTyped ==
  ASSUME NEW a \in Row, NEW p \in Process
  PROVE  Saved(a, p) \in Row
<1>1. p.gen \in Nat /\ p.inputs \in Nat /\ p.receipt \in Nat
  BY Zenon DEF Process
<1>2. a.revision + 1 \in Nat
  BY RowNumbers, SMT
<1> QED
  BY <1>1, <1>2, Zenon DEF Saved, Row

\* The row after an answer was published, field by field.
LEMMA PublishedParts ==
  ASSUME NEW a \in Row, NEW p \in Process
  PROVE  LET b == Saved(Released(Closed(a, "succeeded", 3)), p) IN
         /\ b.state = "succeeded" /\ b.shown = "succeeded" /\ b.owner = 0
         /\ b.generation = a.generation /\ b.endings = a.endings + 1
         /\ b.session = a.session /\ b.remaining = a.remaining
         /\ b.answer = p.gen /\ b.inputs = p.inputs
<1> DEFINE m == Moved(a, "succeeded")
           c == Closed(a, "succeeded", 3)
           d == Released(c)
<1>1. m \in Row /\ c \in Row
  <2>1. a.sequence + 3 \in Nat /\ a.endings + 1 \in Nat
    BY RowNumbers, SMT
  <2> QED
    BY <2>1, ClosedTyped, PartsTyped, Zenon DEF Terminal, States
<1>2. d \in Row
  BY <1>1, PartsTyped
<1>3. /\ m.state = "succeeded" /\ m.shown = "succeeded" /\ m.generation = a.generation
      /\ m.endings = a.endings /\ m.session = a.session /\ m.remaining = a.remaining
  BY Zenon DEF Moved, Row
<1> HIDE DEF m
<1>4. c = Ended(m, 3)
  BY DEF Closed, m
<1> HIDE DEF c
<1>5. /\ c.state = m.state /\ c.shown = m.shown /\ c.generation = m.generation
      /\ c.endings = m.endings + 1 /\ c.session = m.session /\ c.remaining = m.remaining
  BY <1>1, <1>4, Zenon DEF Ended, Row
<1>6. /\ d.state = c.state /\ d.shown = c.shown /\ d.generation = c.generation
      /\ d.endings = c.endings /\ d.session = c.session /\ d.remaining = c.remaining /\ d.owner = 0
  BY <1>1, Zenon DEF Released, Row
<1> HIDE DEF d
<1> DEFINE b == Saved(d, p)
<1>7. /\ b.state = d.state /\ b.shown = d.shown /\ b.generation = d.generation
      /\ b.endings = d.endings /\ b.session = d.session /\ b.remaining = d.remaining /\ b.owner = d.owner
      /\ b.answer = p.gen /\ b.inputs = p.inputs
  BY <1>2, Zenon DEF Saved, Row
<1>8. b = Saved(Released(Closed(a, "succeeded", 3)), p)
  BY DEF d, c
<1> HIDE DEF b
<1> QED
  BY <1>3, <1>5, <1>6, <1>7, <1>8

LEMMA PausedTyped ==
  ASSUME NEW a \in Row, a.remaining > a.used
  PROVE  Paused(a) \in Row
<1>1. /\ a.remaining - a.used \in Nat /\ a.asked + 1 \in Nat /\ a.revision + 1 \in Nat
      /\ WaitLimit \in Nat
  BY RowNumbers, TimesAssumption, SMT
<1>2. Moved(a, "waiting") \in Row
  BY PartsTyped, Zenon DEF States, Active
<1>3. Released(Moved(a, "waiting")) \in Row
  BY <1>2, PartsTyped
<1>4. Logged(Released(Moved(a, "waiting"))) \in Row
  BY <1>3, PartsTyped
<1> QED
  BY <1>1, <1>4, Zenon DEF Paused, Row

\* Every way a row changes keeps it a row; the subtractions of spent time need
\* the invariant, or they would leave Nat.
LEMMA RowTyped ==
  ASSUME NEW a \in Row, NEW b, RowInv(a), RowStep(a, b)
  PROVE  b \in Row
<1>1. /\ a.sequence + 1 \in Nat /\ a.sequence + 3 \in Nat /\ a.endings + 1 \in Nat
      /\ a.asked + 1 \in Nat /\ a.revision + 1 \in Nat /\ a.inputs + 1 \in Nat
      /\ a.generation + 1 \in Nat /\ a.used + 1 \in Nat
      /\ 0 \in Nat /\ 1 \in Nat /\ 0 + 1 \in Nat
  BY RowNumbers, SMT
<1>2. Less(a.lease) \in Nat /\ Less(a.expires) \in Nat
  BY RowNumbers, SMT DEF Less
<1>3. /\ Budget \in Nat /\ Budget + Grace \in Nat /\ WaitLimit \in Nat
      /\ BusyDelay \in Nat /\ Lease \in Nat
  BY TimesAssumption, SMT
<1>5. CASE RowAccept(a, b)
  <2>1. PICK s \in Sessions, t \in Nat : b = Logged(Accepted(s, t))
    BY <1>5, Zenon DEF RowAccept
  <2> QED
    BY <2>1, AcceptedTyped, PartsTyped
<1>6. CASE RowLapse(a, b)
  <2>1. Closed(a, "interrupted", 1) \in Row
    BY <1>1, ClosedTyped DEF Terminal
  <2> QED
    BY <1>1, <1>6, <2>1, Zenon DEF RowLapse, Expire, Row
<1>7. CASE RowCancel(a, b)
  <2>1. Closed(a, "cancelled", 1) \in Row
    BY <1>1, ClosedTyped DEF Terminal
  <2> QED
    BY <1>1, <1>7, <2>1, Zenon DEF RowCancel, Cancelled, Row
<1>8. CASE RowStop(a, b)
  <2>1. Moved(a, "cancelling") \in Row
    BY PartsTyped, Zenon DEF States, Active
  <2>2. Logged(Moved(a, "cancelling")) \in Row
    BY <2>1, PartsTyped
  <2> QED
    BY <1>1, <1>8, <2>2, Zenon DEF RowStop, Stopping, Row
<1>9. CASE RowResume(a, b)
  <2>1. Moved(a, "queued") \in Row
    BY PartsTyped, Zenon DEF States, Active
  <2>2. Logged(Moved(a, "queued")) \in Row
    BY <2>1, PartsTyped
  <2>3. PICK token \in Nat : b = Resumed(a, token)
    BY <1>9, Zenon DEF RowResume
  <2> DEFINE c == Logged(Moved(a, "queued"))
  <2>4. b = [c EXCEPT !.inputs = a.inputs + 1, !.receipt = token,
                      !.revision = a.revision + 1, !.resumeKey = 0]
    BY <2>3 DEF Resumed
  <2> HIDE DEF c
  <2>5. c \in Row
    BY <2>2 DEF c
  <2> QED
    BY <1>1, <2>4, <2>5, Zenon DEF Row
<1>10. CASE RowRemove(a, b)
  BY <1>10, NoRowTyped, ZenonT(60) DEF RowRemove, Row, States
<1>11. CASE RowSettle(a, b)
  BY <1>1, <1>11, ClosedTyped, PartsTyped, Zenon DEF RowSettle, Settled, Terminal
<1>12. CASE RowExhaust(a, b)
  BY <1>1, <1>12, ClosedTyped, Zenon DEF RowExhaust, Terminal
<1>13. CASE RowLease(a, b)
  <2>1. a.remaining - a.used \in Nat
    BY <1>13, RowNumbers, SMT DEF RowLease, Exhausted
  <2>2. Moved(a, "running") \in Row
    BY PartsTyped, Zenon DEF States, Active
  <2>3. Logged(Moved(a, "running")) \in Row
    BY <2>2, PartsTyped
  <2> QED
    BY <1>1, <1>3, <1>13, <2>1, <2>3, Zenon DEF RowLease, Leased, Row
<1>14. CASE RowEmit(a, b)
  BY <1>14, PartsTyped, Zenon DEF RowEmit
<1>15. CASE RowPublish(a, b)
  <2>1. Released(Closed(a, "succeeded", 3)) \in Row
    BY ClosedTyped, PartsTyped, 3 \in Nat, Zenon DEF Terminal
  <2> QED
    BY <1>15, <2>1, SavedTyped, Zenon DEF RowPublish
<1>16. CASE RowClarify(a, b)
  <2>1. Paused(a) \in Row
    BY <1>16, PausedTyped, Zenon DEF RowClarify
  <2> QED
    BY <1>16, <2>1, SavedTyped, Zenon DEF RowClarify
<1>17. CASE RowRequeue(a, b)
  <2>1. a.remaining - a.used \in Nat
    BY <1>17, RowNumbers, SMT DEF RowRequeue, RowInv
  <2>2. Moved(a, "queued") \in Row
    BY PartsTyped, Zenon DEF States, Active
  <2>3. Released(Moved(a, "queued")) \in Row
    BY <2>2, PartsTyped
  <2> QED
    BY <1>3, <1>17, <2>1, <2>3, Zenon DEF RowRequeue, Requeued, Row
<1>18. CASE RowFail(a, b)
  BY <1>1, <1>18, ClosedTyped, PartsTyped, Zenon DEF RowFail, Terminal
<1>19. CASE RowBeat(a, b)
  BY <1>3, <1>19, Zenon DEF RowBeat, Row
<1>20. CASE RowAge(a, b)
  BY <1>1, <1>2, <1>20, Zenon DEF RowAge, Aged, Row
<1> QED
  BY <1>5, <1>6, <1>7, <1>8, <1>9, <1>10, <1>11, <1>12, <1>13, <1>14, <1>15, <1>16,
     <1>17, <1>18, <1>19, <1>20, Zenon DEF RowStep, RowChange

-----------------------------------------------------------------------------
(* The invariant of a row.                                                 *)

LEMMA RowInvStep ==
  ASSUME NEW a \in Row, NEW b \in Row, RowInv(a), RowStep(a, b)
  PROVE  RowInv(b)
<1> USE DEF Active, Terminal, IsActive
<1>1. CASE RowAccept(a, b)
  <2>0. PICK s \in Sessions, t \in Nat : b = Logged(Accepted(s, t))
    BY <1>1, Zenon DEF RowAccept
  <2> DEFINE c == Accepted(s, t)
  <2>1. /\ c.state = "queued" /\ c.shown = "queued" /\ c.owner = 0 /\ c.used = 0
        /\ c.generation = 0 /\ c.endings = 0 /\ c.sequence = 0
        /\ c.asked = 0 /\ c.inputs = 0
    BY Zenon DEF Accepted, NoRow
  <2>2. c \in Row
    BY AcceptedTyped
  <2> HIDE DEF c
  <2>3. /\ b.state = c.state /\ b.shown = c.shown /\ b.owner = c.owner /\ b.used = c.used
        /\ b.generation = c.generation /\ b.endings = c.endings
        /\ b.sequence = c.sequence + 1 /\ b.asked = c.asked /\ b.inputs = c.inputs
    BY <2>0, <2>2, Zenon DEF c, Logged, Row
  <2> QED
    BY <2>1, <2>3, LimitsAssumption, SMT DEF RowInv
<1>2. CASE RowLapse(a, b)
  <2>1. /\ b.state = "interrupted" /\ b.shown = "interrupted"
        /\ b.generation = a.generation /\ b.owner = a.owner /\ b.endings = a.endings + 1
    BY <1>2, Zenon DEF RowLapse, Expire, Closed, Ended, Moved, Row
  <2>2. a.state = "waiting"
    BY <1>2, Zenon DEF RowLapse, Expired
  <2> QED
    BY <2>1, <2>2, SMT DEF RowInv
<1>3. CASE RowCancel(a, b)
  <2>1. /\ b.state = "cancelled" /\ b.shown = "cancelled"
        /\ b.generation = a.generation /\ b.owner = a.owner /\ b.endings = a.endings + 1
    BY <1>3, Zenon DEF RowCancel, Cancelled, Closed, Ended, Moved, Row
  <2>2. a.state \in {"queued", "running", "waiting"}
    BY <1>3, Zenon DEF RowCancel
  <2> QED
    BY <2>1, <2>2, SMT DEF RowInv
<1>4. CASE RowStop(a, b)
  <2>1. /\ b.state = "cancelling" /\ b.shown = "cancelling"
        /\ b.generation = a.generation /\ b.owner = a.owner /\ b.endings = a.endings
        /\ b.sequence = a.sequence + 1 /\ b.asked = a.asked /\ b.inputs = a.inputs
    BY <1>4, Zenon DEF RowStop, Stopping, Logged, Moved, Row
  <2>2. /\ a.state \in {"queued", "running"} /\ a.sequence < EventLimit
    BY <1>4, Zenon DEF RowStop, Unowned, CanLog
  <2> QED
    BY <2>1, <2>2, RowNumbers, LimitsAssumption, SMT DEF RowInv
<1>5. CASE RowResume(a, b)
  <2>1. /\ b.state = "queued" /\ b.shown = "queued"
        /\ b.generation = a.generation /\ b.owner = a.owner /\ b.endings = a.endings
        /\ b.sequence = a.sequence + 1 /\ b.asked = a.asked /\ b.inputs = a.inputs + 1
        /\ b.used = a.used
    BY <1>5, ZenonT(60) DEF RowResume, Resumed, Logged, Moved, Row
  <2>2. a.state = "waiting" /\ a.sequence < EventLimit
    BY <1>5, Zenon DEF RowResume, CanLog
  <2> QED
    BY <2>1, <2>2, RowNumbers, LimitsAssumption, SMT DEF RowInv
<1>6. CASE RowRemove(a, b)
  <2>1. /\ b.state = "deleted" /\ b.owner = 0 /\ b.generation = 0 /\ b.endings = 0
    BY <1>6, Zenon DEF RowRemove, NoRow
  <2> QED
    BY <2>1, SMT DEF RowInv
<1>7. CASE RowSettle(a, b)
  <2>1. /\ b.state = "cancelled" /\ b.shown = "cancelled" /\ b.owner = 0
        /\ b.endings = a.endings + 1
    BY <1>7, Zenon DEF RowSettle, Settled, Released, Closed, Ended, Moved, Row
  <2>2. a.state = "cancelling"
    BY <1>7, Zenon DEF RowSettle, Abandoned
  <2> QED
    BY <2>1, <2>2, SMT DEF RowInv
<1>8. CASE RowExhaust(a, b)
  <2>1. /\ b.state = "failed" /\ b.shown = "failed"
        /\ b.generation = a.generation /\ b.owner = a.owner /\ b.endings = a.endings + 1
    BY <1>8, Zenon DEF RowExhaust, Closed, Ended, Moved, Row
  <2>2. a.state \in {"queued", "running"}
    BY <1>8, Zenon DEF RowExhaust, Claimable
  <2> QED
    BY <2>1, <2>2, SMT DEF RowInv
<1>9. CASE RowLease(a, b)
  <2>1. /\ b.state = "running" /\ b.shown = "running"
        /\ b.generation = a.generation + 1 /\ b.owner = a.generation + 1
        /\ b.endings = a.endings /\ b.sequence = a.sequence + 1
        /\ b.asked = a.asked /\ b.inputs = a.inputs /\ b.used = 0
        /\ b.remaining = a.remaining - a.used /\ b.expires = a.remaining - a.used
    BY <1>9, ZenonT(60) DEF RowLease, Leased, Logged, Moved, Row
  <2>2. a.state \in {"queued", "running"} /\ a.sequence < EventLimit
    BY <1>9, Zenon DEF RowLease, Claimable, CanLog
  <2> QED
    BY <2>1, <2>2, RowNumbers, LimitsAssumption, SMT DEF RowInv
<1>10. CASE RowEmit(a, b)
  <2>1. /\ b.state = a.state /\ b.shown = a.shown /\ b.generation = a.generation
        /\ b.owner = a.owner /\ b.endings = a.endings /\ b.sequence = a.sequence + 1
        /\ b.asked = a.asked /\ b.inputs = a.inputs /\ b.used = a.used
        /\ b.remaining = a.remaining /\ b.expires = a.expires
    BY <1>10, Zenon DEF RowEmit, Logged, Row
  <2>2. a.state = "running" /\ a.sequence < EventLimit
    BY <1>10, Zenon DEF RowEmit, CanLog
  <2> QED
    BY <2>1, <2>2, RowNumbers, LimitsAssumption, SMT DEF RowInv
<1>11. CASE RowPublish(a, b)
  <2>0. PICK p \in Process : Current(a, p) /\ b = Saved(Released(Closed(a, "succeeded", 3)), p)
    BY <1>11, Zenon DEF RowPublish
  <2>1. /\ b.state = "succeeded" /\ b.shown = "succeeded" /\ b.owner = 0
        /\ b.generation = a.generation /\ b.answer = p.gen
        /\ b.endings = a.endings + 1
    BY <2>0, PublishedParts, Zenon
  <2>2. a.state = "running"
    BY <1>11, Zenon DEF RowPublish
  <2> QED
    BY <2>0, <2>1, <2>2, SMT DEF RowInv, Current
<1>12. CASE RowClarify(a, b)
  <2>0. PICK p \in Process : Current(a, p) /\ b = Saved(Paused(a), p)
    BY <1>12, Zenon DEF RowClarify
  <2> DEFINE c == Paused(a)
  <2>1. /\ c.state = "waiting" /\ c.shown = "waiting" /\ c.owner = 0 /\ c.used = 0
        /\ c.generation = a.generation /\ c.endings = a.endings
        /\ c.sequence = a.sequence + 1 /\ c.asked = a.asked + 1
    BY Zenon DEF Paused, Released, Logged, Moved, Row
  <2>3. c \in Row
    BY <1>12, PausedTyped, Zenon DEF RowClarify
  <2> HIDE DEF c
  <2>4. /\ b.state = c.state /\ b.shown = c.shown /\ b.owner = c.owner /\ b.used = c.used
        /\ b.generation = c.generation /\ b.endings = c.endings
        /\ b.sequence = c.sequence /\ b.asked = c.asked /\ b.inputs = p.inputs
    BY <2>0, <2>3, Zenon DEF c, Saved, Row
  <2>2. a.state = "running" /\ a.sequence < EventLimit
    BY <1>12, Zenon DEF RowClarify, CanLog
  <2> QED
    BY <2>0, <2>1, <2>2, <2>4, RowNumbers, LimitsAssumption, SMT DEF RowInv, Current
<1>13. CASE RowRequeue(a, b)
  <2>1. /\ b.state = "queued" /\ b.shown = "queued" /\ b.owner = 0 /\ b.used = 0
        /\ b.generation = a.generation /\ b.endings = a.endings
        /\ b.sequence = a.sequence /\ b.asked = a.asked /\ b.inputs = a.inputs
    BY <1>13, Zenon DEF RowRequeue, Requeued, Released, Moved, Row
  <2>2. a.state = "running"
    BY <1>13, Zenon DEF RowRequeue
  <2> QED
    BY <2>1, <2>2, SMT DEF RowInv
<1>14. CASE RowFail(a, b)
  <2>1. /\ b.state \in {"failed", "cancelled"} /\ b.shown = b.state /\ b.owner = 0
        /\ b.endings = a.endings + 1
    BY <1>14, ZenonT(60) DEF RowFail, Released, Closed, Ended, Moved, Row
  <2>2. a.state \in {"running", "cancelling"}
    BY <1>14, Zenon DEF RowFail
  <2> QED
    BY <2>1, <2>2, SMT DEF RowInv
<1>15. CASE RowBeat(a, b)
  <2>1. /\ b.state = a.state /\ b.shown = a.shown /\ b.generation = a.generation
        /\ b.owner = a.owner /\ b.endings = a.endings /\ b.sequence = a.sequence
        /\ b.asked = a.asked /\ b.inputs = a.inputs /\ b.used = a.used
        /\ b.remaining = a.remaining /\ b.expires = a.expires
    BY <1>15, Zenon DEF RowBeat, Row
  <2>2. a.state = "running"
    BY <1>15, Zenon DEF RowBeat
  <2> QED
    BY <2>1, <2>2, SMT DEF RowInv
<1>16. CASE RowAge(a, b)
  <2>1. /\ b.state = a.state /\ b.shown = a.shown /\ b.generation = a.generation
        /\ b.owner = a.owner /\ b.endings = a.endings /\ b.sequence = a.sequence
        /\ b.asked = a.asked /\ b.inputs = a.inputs
        /\ b.remaining = a.remaining /\ b.expires = Less(a.expires)
        /\ b.used = (IF a.owner # 0 /\ a.lease > 0 THEN a.used + 1 ELSE a.used)
    BY <1>16, Zenon DEF RowAge, Aged, Row
  <2>2. IsActive(a)
    BY <1>16, Zenon DEF RowAge
  <2> QED
    BY <2>1, <2>2, RowNumbers, SMT DEF RowInv, Less
<1> QED
  BY <1>1, <1>2, <1>3, <1>4, <1>5, <1>6, <1>7, <1>8, <1>9, <1>10, <1>11, <1>12,
     <1>13, <1>14, <1>15, <1>16, Zenon DEF RowStep, RowChange

-----------------------------------------------------------------------------
(* The claims of the workers.                                              *)

\* A row that is not deleted never loses a generation, and while it keeps its
\* generation its checkpoint only changes by leaving the running states.
LEMMA RowMonotone ==
  ASSUME NEW a \in Row, NEW b \in Row, RowInv(a), b = a \/ RowStep(a, b)
  PROVE  /\ b.state # "deleted" => a.state # "deleted" /\ a.generation <= b.generation
         /\ b.state \in {"running", "cancelling"} /\ b.generation = a.generation
              => a.state \in {"running", "cancelling"} /\ b.inputs = a.inputs
<1> USE DEF Active
<1>0. CASE b = a
  BY <1>0, RowNumbers, SMT
<1>1. CASE RowAccept(a, b)
  <2>1. a.state = "absent" /\ a.generation = 0
    BY <1>1, Zenon DEF RowAccept, RowInv
  <2>2. PICK s \in Sessions, t \in Nat : b = Logged(Accepted(s, t))
    BY <1>1, Zenon DEF RowAccept
  <2>3. b.state = "queued"
    <3>1. Accepted(s, t).state = "queued"
      BY Zenon DEF Accepted, NoRow
    <3> QED
      BY <2>2, <3>1, AcceptedTyped, Zenon DEF Logged, Row
  <2> QED
    BY <2>1, <2>3, RowNumbers, SMT
<1>2. CASE RowLapse(a, b) \/ RowCancel(a, b) \/ RowSettle(a, b) \/ RowExhaust(a, b) \/ RowFail(a, b)
  <2>1. /\ b.state \in Terminal /\ b.generation = a.generation
    BY <1>2, Zenon DEF RowLapse, Expire, RowCancel, Cancelled, RowSettle, Settled, RowExhaust,
                       RowFail, Released, Closed, Ended, Moved, Row, Terminal
  <2>2. a.state # "deleted"
    BY <1>2, Zenon DEF RowLapse, Expired, RowCancel, RowSettle, Abandoned, RowExhaust,
                       Claimable, RowFail
  <2> QED
    BY <2>1, <2>2, RowNumbers, SMT DEF Terminal
<1>3. CASE RowStop(a, b)
  <2>1. /\ b.state = "cancelling" /\ b.generation = a.generation /\ b.inputs = a.inputs
    BY <1>3, Zenon DEF RowStop, Stopping, Logged, Moved, Row
  <2>2. a.state = "running"
    BY <1>3, Zenon DEF RowStop, Unowned
  <2> QED
    BY <2>1, <2>2, RowNumbers, SMT
<1>4. CASE RowResume(a, b) \/ RowRequeue(a, b)
  <2>1. b.state = "queued" /\ b.generation = a.generation
    BY <1>4, ZenonT(60) DEF RowResume, Resumed, RowRequeue, Requeued, Released, Logged, Moved, Row
  <2>2. a.state \in {"waiting", "running"}
    BY <1>4, Zenon DEF RowResume, RowRequeue
  <2> QED
    BY <2>1, <2>2, RowNumbers, SMT
<1>5. CASE RowRemove(a, b)
  <2>1. b.state = "deleted"
    BY <1>5, Zenon DEF RowRemove, NoRow
  <2> QED
    BY <2>1
<1>6. CASE RowLease(a, b)
  <2>1. b.generation = a.generation + 1
    BY <1>6, Zenon DEF RowLease, Leased, Logged, Moved, Row
  <2>2. a.state \in {"queued", "running"}
    BY <1>6, Zenon DEF RowLease, Claimable
  <2> QED
    BY <2>1, <2>2, RowNumbers, SMT
<1>7. CASE RowEmit(a, b) \/ RowBeat(a, b) \/ RowAge(a, b)
  <2>1. b.state = a.state /\ b.generation = a.generation /\ b.inputs = a.inputs
    BY <1>7, Zenon DEF RowEmit, RowBeat, RowAge, Aged, Logged, Row
  <2>2. a.state \in Active
    BY <1>7, Zenon DEF RowEmit, RowBeat, RowAge, IsActive
  <2> QED
    BY <2>1, <2>2, RowNumbers, SMT
<1>8. CASE RowPublish(a, b)
  <2>1. PICK p \in Process : Current(a, p) /\ b = Saved(Released(Closed(a, "succeeded", 3)), p)
    BY <1>8, Zenon DEF RowPublish
  <2>2. b.state = "succeeded" /\ b.generation = a.generation
    BY <2>1, PublishedParts, Zenon
  <2>3. a.state = "running"
    BY <1>8, Zenon DEF RowPublish
  <2> QED
    BY <2>2, <2>3, RowNumbers, SMT
<1>9. CASE RowClarify(a, b)
  <2>1. PICK p \in Process : Current(a, p) /\ b = Saved(Paused(a), p)
    BY <1>9, Zenon DEF RowClarify
  <2>2. Paused(a).state = "waiting" /\ Paused(a).generation = a.generation
    BY Zenon DEF Paused, Released, Logged, Moved, Row
  <2>3. Paused(a) \in Row
    BY <1>9, PausedTyped, Zenon DEF RowClarify
  <2>4. b.state = "waiting" /\ b.generation = a.generation
    BY <2>1, <2>2, <2>3, Zenon DEF Saved, Row
  <2>5. a.state = "running"
    BY <1>9, Zenon DEF RowClarify
  <2> QED
    BY <2>4, <2>5, RowNumbers, SMT
<1> QED
  BY <1>0, <1>1, <1>2, <1>3, <1>4, <1>5, <1>6, <1>7, <1>8, <1>9, Zenon DEF RowStep, RowChange

\* What one step can do to a process, apart from making it idle.
Works(w) == worker[w].pc \in {"loaded", "executing"}
Keeps(w) ==
  /\ InRun(w) /\ worker'[w].run = worker[w].run /\ worker'[w].gen = worker[w].gen
  /\ Works(w)' => Works(w) /\ worker'[w].inputs = worker[w].inputs
Loads(w) ==
  /\ InRun(w) /\ worker'[w].run = worker[w].run /\ worker'[w].gen = worker[w].gen
  /\ run' = run /\ worker'[w].inputs = run[worker[w].run].inputs
Claims(w) ==
  /\ \E r \in Runs :
       /\ Claimable(run[r]) /\ run'[r] = Leased(run[r])
       /\ worker'[w].run = r /\ worker'[w].gen = run[r].generation + 1
       /\ worker'[w].pc = "claimed"
  /\ \A v \in Workers \ {w} : worker'[v] = worker[v]

\* A process changes only its own claim.
LEMMA OthersKeepClaims ==
  ASSUME TypeOK, NEW v \in Workers, Worker(v), NEW w \in Workers \ {v}
  PROVE  worker'[w] = worker[w]
<1>1. worker \in [Workers -> Process]
  BY Zenon DEF TypeOK
<1>2. CASE \E skipped \in SUBSET Runs : ClaimNext(v, skipped)
  BY <1>1, <1>2, Zenon DEF ClaimNext, SweepOnly, ClaimExhausted, ClaimRun
<1>3. CASE LoadCheckpoint(v) \/ EnterSession(v) \/ LoseSessionLock(v) \/ EmitEvent(v)
  BY <1>1, <1>3, Zenon DEF LoadCheckpoint, EnterSession, LoseSessionLock, EmitEvent, SetPc
<1>4. CASE Publish(v) \/ Clarify(v) \/ Raise(v) \/ LeaveSession(v)
  BY <1>1, <1>4, Zenon DEF Publish, Clarify, Raise, LeaveSession, SetPc
<1>5. CASE ReleaseBusy(v) \/ FinishFailure(v) \/ Heartbeat(v) \/ HeartbeatDies(v) \/ Crash(v)
  BY <1>1, <1>5, Zenon DEF ReleaseBusy, FinishFailure, Heartbeat, HeartbeatDies, Crash
<1> QED
  BY <1>2, <1>3, <1>4, <1>5, Zenon DEF Worker

LEMMA StepOfWorkers ==
  ASSUME IInv, [Next]_vars, NEW w \in Workers
  PROVE  /\ worker'[w] \in Process
         /\ ~InRun(w)' \/ Keeps(w) \/ Loads(w) \/ Claims(w)
<1> TypeOK /\ ClaimInv(w)
  BY Zenon DEF IInv
<1>1. worker \in [Workers -> Process] /\ worker[w] \in Process
  BY Zenon DEF TypeOK
<1>2. Idle \in Process /\ Idle.pc = "idle"
  BY 0 \in Nat, Zenon DEF Idle, Process
<1>3. CASE worker'[w] = worker[w]
  BY <1>1, <1>3, Zenon DEF Keeps, InRun, Works
<1>4. CASE worker'[w] = Idle
  BY <1>2, <1>4, Zenon DEF InRun
<1>5. ASSUME NEW skipped, ClaimNext(w, skipped), worker'[w] # worker[w]
      PROVE  worker'[w] \in Process /\ Claims(w)
  <2>1. ClaimRun(w, skipped)
    BY <1>5, Zenon DEF ClaimNext, SweepOnly, ClaimExhausted
  <2>2. PICK r \in Runs :
          /\ IsNext(r, skipped)
          /\ run' = [Swept(skipped) EXCEPT ![r] = Leased(@)]
          /\ worker' = [worker EXCEPT ![w] =
               [Idle EXCEPT !.pc = "claimed", !.run = r,
                            !.gen = run[r].generation + 1, !.beating = TRUE]]
    BY <2>1, Zenon DEF ClaimRun
  <2>3. Claimable(run[r])
    BY <2>2, Zenon DEF IsNext
  <2>4. run'[r] = Leased(run[r])
    BY <2>2, <2>3, SweptClaimable, Zenon DEF Swept
  <2>5. run[r].generation + 1 \in Nat
    <3>1. run[r] \in Row
      BY Zenon DEF TypeOK
    <3> QED
      BY <3>1, RowNumbers, SMT
  <2>6. /\ worker'[w] = [Idle EXCEPT !.pc = "claimed", !.run = r,
                                     !.gen = run[r].generation + 1, !.beating = TRUE]
        /\ \A v \in Workers \ {w} : worker'[v] = worker[v]
    BY <1>1, <2>2, Zenon
  <2>7. /\ worker'[w].run = r /\ worker'[w].gen = run[r].generation + 1
        /\ worker'[w].pc = "claimed" /\ worker'[w] \in Process
    BY <1>2, <2>5, <2>6, ZenonT(60) DEF Process
  <2> QED
    BY <2>3, <2>4, <2>6, <2>7, Zenon DEF Claims
<1>6. CASE LoadCheckpoint(w)
  <2>1. InRun(w) /\ run' = run
    BY <1>6, Zenon DEF LoadCheckpoint, InRun
  <2>2. CASE Owned(w)
    <3> DEFINE row == run[worker[w].run]
    <3>1. worker'[w] = [worker[w] EXCEPT !.pc = "loaded", !.inputs = row.inputs,
                                         !.receipt = row.receipt]
      BY <1>1, <1>6, <2>2, Zenon DEF LoadCheckpoint
    <3>2. row.inputs \in Nat /\ row.receipt \in Nat
      <4>1. row \in Row
        BY <2>1, Zenon DEF ClaimInv, TypeOK
      <4> QED
        BY <4>1, RowNumbers
    <3> QED
      BY <1>1, <2>1, <3>1, <3>2, Zenon DEF Loads, Process
  <2>3. CASE ~Owned(w)
    <3>1. worker'[w] = [worker[w] EXCEPT !.pc = "failing"]
      BY <1>1, <1>6, <2>3, Zenon DEF LoadCheckpoint, SetPc
    <3> QED
      BY <1>1, <2>1, <3>1, Zenon DEF Keeps, Works, Process
  <2> QED
    BY <2>2, <2>3
<1>7. CASE EnterSession(w)
  <2>1. /\ InRun(w) /\ worker[w].pc = "loaded"
        /\ \E pc \in {"executing", "busy"} : worker'[w] = [worker[w] EXCEPT !.pc = pc]
    BY <1>1, <1>7, Zenon DEF EnterSession, SetPc, InRun
  <2> QED
    BY <1>1, <2>1, Zenon DEF Keeps, Works, Process
<1>8. CASE Raise(w)
  <2>1. /\ InRun(w)
        /\ \E pc \in {"failing", "busy"}, unclean \in BOOLEAN :
             worker'[w] = [worker[w] EXCEPT !.pc = pc, !.unclean = unclean]
    BY <1>1, <1>8, Zenon DEF Raise, InRun
  <2> QED
    BY <1>1, <2>1, Zenon DEF Keeps, Works, Process
<1>9. CASE Publish(w) \/ Clarify(w)
  <2>1. InRun(w) /\ worker'[w] = [worker[w] EXCEPT !.pc = "leaving"]
    BY <1>1, <1>9, Zenon DEF Publish, Clarify, SetPc, InRun
  <2> QED
    BY <1>1, <2>1, Zenon DEF Keeps, Works, Process
<1>10. CASE (Heartbeat(w) \/ HeartbeatDies(w)) /\ worker'[w] # worker[w]
  <2>1. InRun(w) /\ worker'[w] = [worker[w] EXCEPT !.beating = FALSE]
    BY <1>1, <1>10, Zenon DEF Heartbeat, HeartbeatDies
  <2> QED
    BY <1>1, <2>1, Zenon DEF Keeps, Works, Process
<1>11. CASE LeaveSession(w) \/ ReleaseBusy(w) \/ FinishFailure(w) \/ Crash(w)
  <2>1. worker'[w] = Idle
    BY <1>1, <1>11, Zenon DEF LeaveSession, ReleaseBusy, FinishFailure, Crash
  <2> QED
    BY <1>4, <2>1
<1>12. CASE LoseSessionLock(w) \/ EmitEvent(w)
  <2>1. worker'[w] = worker[w]
    BY <1>12, Zenon DEF LoseSessionLock, EmitEvent
  <2> QED
    BY <1>3, <2>1
<1>13. CASE Worker(w)
  BY <1>3, <1>5, <1>6, <1>7, <1>8, <1>9, <1>10, <1>11, <1>12, <1>13, Zenon DEF Worker
<1>14. ASSUME NEW v \in Workers \ {w}, Worker(v)
       PROVE  worker'[w] = worker[w]
  BY <1>14, OthersKeepClaims
<1>15. CASE User \/ Tick \/ UNCHANGED vars
  <2>1. worker' = worker
    BY <1>15, Zenon DEF User, Create, Read, RequestCancel, Resume, DeleteSession, Tick, vars
  <2> QED
    BY <1>3, <2>1
<1> QED
  BY <1>3, <1>13, <1>14, <1>15, Zenon DEF Next

-----------------------------------------------------------------------------
(* The invariant is inductive.                                             *)

\* The variables stay functions with their domains, whatever their values.
LEMMA StepOfFunctions ==
  ASSUME TypeOK, [Next]_vars
  PROVE  /\ run' = [r \in Runs |-> run'[r]]
         /\ worker' = [w \in Workers |-> worker'[w]]
         /\ lock' \in [Sessions -> Workers \cup {NoWorker}]
         /\ created' \in Nat
<1> DEFINE Functions ==
      /\ run' = [r \in Runs |-> run'[r]]
      /\ worker' = [w \in Workers |-> worker'[w]]
      /\ lock' \in [Sessions -> Workers \cup {NoWorker}]
      /\ created' \in Nat
<1>1. /\ run \in [Runs -> Row] /\ worker \in [Workers -> Process]
      /\ lock \in [Sessions -> Workers \cup {NoWorker}] /\ created \in Nat
  BY Zenon DEF TypeOK
<1>2. /\ run = [r \in Runs |-> run[r]] /\ worker = [w \in Workers |-> worker[w]]
  BY <1>1, Zenon
<1>3. \A w : Unlocked(w) \in [Sessions -> Workers \cup {NoWorker}]
  BY <1>1, Zenon DEF Unlocked
<1>4. created + 1 \in Nat
  BY <1>1, SMT
<1>5. ASSUME NEW r \in Runs, NEW s \in Sessions, Create(r, s)
      PROVE  Functions
  BY <1>1, <1>2, <1>4, <1>5, Zenon DEF Create
<1>6. CASE \E r \in Runs : Read(r) \/ RequestCancel(r) \/ Resume(r, run[r].resumeKey)
  <2>1. /\ UNCHANGED <<worker, lock, created>>
        /\ \E r \in Runs : \E b : run' = [run EXCEPT ![r] = b]
    BY <1>6, Zenon DEF Read, RequestCancel, Resume
  <2> QED
    BY <1>1, <1>2, <2>1, Zenon
<1>7. ASSUME NEW s \in Sessions, DeleteSession(s)
      PROVE  Functions
  BY <1>1, <1>2, <1>7, Zenon DEF DeleteSession
<1>8. CASE Tick
  BY <1>1, <1>2, <1>8, Zenon DEF Tick
<1>9. ASSUME NEW w \in Workers, Worker(w)
      PROVE  Functions
  <2>1. ASSUME NEW skipped, ClaimNext(w, skipped)
        PROVE  Functions
    <3>1. Swept(skipped) = [r \in Runs |-> Swept(skipped)[r]]
      BY Zenon DEF Swept
    <3>2. CASE SweepOnly(w, skipped)
      BY <1>1, <1>2, <3>1, <3>2, Zenon DEF SweepOnly
    <3>3. CASE ClaimExhausted(w, skipped) \/ ClaimRun(w, skipped)
      <4>1. /\ \E r \in Runs : \E b : run' = [Swept(skipped) EXCEPT ![r] = b]
            /\ worker' = worker \/ \E p : worker' = [worker EXCEPT ![w] = p]
            /\ UNCHANGED <<lock, created>>
        BY <3>3, Zenon DEF ClaimExhausted, ClaimRun
      <4> HIDE DEF Swept
      <4> QED
        BY <1>1, <1>2, <3>1, <4>1, Zenon
    <3> QED
      BY <2>1, <3>2, <3>3, Zenon DEF ClaimNext
  <2>2. CASE \/ LoadCheckpoint(w) \/ EnterSession(w) \/ LoseSessionLock(w) \/ EmitEvent(w)
             \/ Publish(w) \/ Clarify(w) \/ Raise(w) \/ LeaveSession(w)
             \/ ReleaseBusy(w) \/ FinishFailure(w)
             \/ Heartbeat(w) \/ HeartbeatDies(w) \/ Crash(w)
    <3>1. run' = run \/ \E r, b : run' = [run EXCEPT ![r] = b]
      <4>1. CASE Heartbeat(w) \/ HeartbeatDies(w) \/ Crash(w) \/ Raise(w) \/ LeaveSession(w)
        BY <4>1, Zenon DEF Heartbeat, HeartbeatDies, Crash, Raise, LeaveSession
      <4>2. CASE LoadCheckpoint(w) \/ EnterSession(w) \/ LoseSessionLock(w) \/ EmitEvent(w)
        BY <4>2, Zenon DEF LoadCheckpoint, EnterSession, LoseSessionLock, EmitEvent
      <4>3. CASE Publish(w) \/ Clarify(w) \/ ReleaseBusy(w) \/ FinishFailure(w)
        BY <4>3, Zenon DEF Publish, Clarify, ReleaseBusy, FinishFailure
      <4> QED
        BY <2>2, <4>1, <4>2, <4>3
    <3>2. worker' = worker \/ \E p : worker' = [worker EXCEPT ![w] = p]
      <4>1. CASE Heartbeat(w) \/ HeartbeatDies(w) \/ Crash(w) \/ Raise(w) \/ LeaveSession(w)
        BY <4>1, Zenon DEF Heartbeat, HeartbeatDies, Crash, Raise, LeaveSession
      <4>2. CASE LoadCheckpoint(w) \/ EnterSession(w) \/ LoseSessionLock(w) \/ EmitEvent(w)
        BY <4>2, Zenon DEF LoadCheckpoint, EnterSession, LoseSessionLock, EmitEvent, SetPc
      <4>3. CASE Publish(w) \/ Clarify(w) \/ ReleaseBusy(w) \/ FinishFailure(w)
        BY <4>3, Zenon DEF Publish, Clarify, ReleaseBusy, FinishFailure, SetPc
      <4> QED
        BY <2>2, <4>1, <4>2, <4>3
    <3>3. lock' = lock \/ lock' = Unlocked(w) \/ \E s : lock' = [lock EXCEPT ![s] = w]
      BY <2>2, Zenon DEF LoadCheckpoint, EnterSession, LoseSessionLock, EmitEvent, Publish,
         Clarify, Raise, LeaveSession, ReleaseBusy, FinishFailure, Heartbeat, HeartbeatDies, Crash
    <3>4. created' = created
      BY <2>2, Zenon DEF LoadCheckpoint, EnterSession, LoseSessionLock, EmitEvent, Publish,
         Clarify, Raise, LeaveSession, ReleaseBusy, FinishFailure, Heartbeat, HeartbeatDies, Crash
    <3>5. lock' \in [Sessions -> Workers \cup {NoWorker}]
      BY <1>1, <1>3, <3>3, Zenon
    <3> QED
      BY <1>1, <1>2, <3>1, <3>2, <3>4, <3>5, Zenon
  <2> QED
    BY <1>9, <2>1, <2>2, Zenon DEF Worker
<1>10. CASE UNCHANGED vars
  BY <1>1, <1>2, <1>10, Zenon DEF vars
<1> QED
  BY <1>5, <1>6, <1>7, <1>8, <1>9, <1>10, Zenon DEF Next, User

LEMMA TypeStep ==
  ASSUME IInv, [Next]_vars
  PROVE  TypeOK'
<1> TypeOK
  BY Zenon DEF IInv
<1>1. ASSUME NEW r \in Runs
      PROVE  run'[r] \in Row
  <2>1. run[r] \in Row /\ RowInv(run[r])
    BY Zenon DEF IInv, TypeOK
  <2> QED
    BY <2>1, StepOfRows, RowTyped
<1>2. ASSUME NEW w \in Workers
      PROVE  worker'[w] \in Process
  BY <1>2, StepOfWorkers
<1>3. run' \in [Runs -> Row]
  BY <1>1, StepOfFunctions, Zenon
<1>4. worker' \in [Workers -> Process]
  BY <1>2, StepOfFunctions, Zenon
<1> QED
  BY <1>3, <1>4, StepOfFunctions, Zenon DEF TypeOK

LEMMA ClaimStep ==
  ASSUME IInv, [Next]_vars, TypeOK', NEW w \in Workers
  PROVE  ClaimInv(w)'
<1>1. ASSUME NEW r \in Runs
      PROVE  /\ run[r] \in Row /\ run'[r] \in Row /\ RowInv(run[r])
             /\ run'[r] = run[r] \/ RowStep(run[r], run'[r])
  BY StepOfRows, Zenon DEF IInv, TypeOK
<1>2. ClaimInv(w)
  BY Zenon DEF IInv
<1>3. CASE ~InRun(w)'
  BY <1>3, Zenon DEF ClaimInv
<1>4. CASE Keeps(w)
  <2> DEFINE r == worker[w].run
             a == run[r]
             b == run'[r]
  <2>1. /\ r \in Runs /\ worker[w].gen > 0
        /\ a.state # "deleted" => worker[w].gen <= a.generation
        /\ Works(w) /\ worker[w].gen = a.generation /\ a.state \in {"running", "cancelling"}
             => worker[w].inputs = a.inputs
    BY <1>2, <1>4, Zenon DEF ClaimInv, Keeps, Works
  <2>2. /\ b.state # "deleted" => a.state # "deleted" /\ a.generation <= b.generation
        /\ b.state \in {"running", "cancelling"} /\ b.generation = a.generation
             => a.state \in {"running", "cancelling"} /\ b.inputs = a.inputs
    BY <1>1, <2>1, RowMonotone
  <2>3. worker[w].gen \in Nat /\ a.generation \in Nat /\ b.generation \in Nat
    <3>1. worker[w] \in Process /\ a \in Row /\ b \in Row
      BY <1>1, <2>1, Zenon DEF IInv, TypeOK
    <3> QED
      BY <3>1, RowNumbers, Zenon DEF Process
  <2>4. b.state # "deleted" => worker[w].gen <= b.generation
    BY <2>1, <2>2, <2>3, SMT
  <2>5. Works(w) /\ worker[w].gen = b.generation /\ b.state \in {"running", "cancelling"}
          => worker[w].inputs = b.inputs
    <3> SUFFICES ASSUME Works(w), worker[w].gen = b.generation,
                        b.state \in {"running", "cancelling"}
                 PROVE  worker[w].inputs = b.inputs
      OBVIOUS
    <3>1. b.state # "deleted"
      OBVIOUS
    <3>2. a.generation = b.generation
      BY <2>1, <2>2, <2>3, <3>1, SMT
    <3> QED
      BY <2>1, <2>2, <3>2
  <2>6. /\ worker'[w].run = r /\ worker'[w].gen = worker[w].gen
        /\ Works(w)' => Works(w) /\ worker'[w].inputs = worker[w].inputs
    BY <1>4, Zenon DEF Keeps
  <2> HIDE DEF a, b, r
  <2> QED
    BY <2>1, <2>4, <2>5, <2>6, Zenon DEF ClaimInv, Works, b
<1>5. CASE Loads(w)
  BY <1>2, <1>5, Zenon DEF Loads, ClaimInv
<1>6. CASE Claims(w)
  <2>1. PICK r \in Runs : /\ run'[r] = Leased(run[r])
                          /\ worker'[w].run = r /\ worker'[w].gen = run[r].generation + 1
                          /\ worker'[w].pc = "claimed"
    BY <1>6, Zenon DEF Claims
  <2>2. run[r] \in Row
    BY <1>1
  <2>3. run'[r].generation = run[r].generation + 1
    BY <2>1, <2>2, Zenon DEF Leased, Logged, Moved, Row
  <2>4. run[r].generation + 1 > 0 /\ run[r].generation + 1 <= run[r].generation + 1
    BY <2>2, RowNumbers, SMT
  <2> QED
    BY <2>1, <2>3, <2>4, Zenon DEF ClaimInv
<1> QED
  BY <1>3, <1>4, <1>5, <1>6, StepOfWorkers

LEMMA ClaimsDifferStep ==
  ASSUME IInv, [Next]_vars, TypeOK'
  PROVE  ClaimsDiffer'
<1> SUFFICES ASSUME NEW v \in Workers, NEW w \in Workers, v # w, InRun(v)', InRun(w)',
                    worker'[v].run = worker'[w].run,
                    run'[worker'[v].run].state # "deleted"
             PROVE  worker'[v].gen # worker'[w].gen
  BY Zenon DEF ClaimsDiffer
<1>1. ASSUME NEW r \in Runs, run'[r].state # "deleted"
      PROVE  run[r].state # "deleted"
  <2>1. /\ run[r] \in Row /\ run'[r] \in Row /\ RowInv(run[r])
        /\ run'[r] = run[r] \/ RowStep(run[r], run'[r])
    BY StepOfRows, Zenon DEF IInv, TypeOK
  <2> QED
    BY <1>1, <2>1, RowMonotone
<1>2. \A u \in Workers : Keeps(u) \/ Loads(u) => 
         InRun(u) /\ worker'[u].run = worker[u].run /\ worker'[u].gen = worker[u].gen
  BY Zenon DEF Keeps, Loads
<1>3. CASE (Keeps(v) \/ Loads(v)) /\ (Keeps(w) \/ Loads(w))
  <2>1. worker[v].run \in Runs
    BY <1>2, <1>3, Zenon DEF IInv, ClaimInv
  <2>2. run[worker[v].run].state # "deleted"
    BY <1>1, <1>2, <1>3, <2>1
  <2> QED
    BY <1>2, <1>3, <2>2, Zenon DEF IInv, ClaimsDiffer
<1>4. ASSUME NEW x \in Workers, NEW y \in Workers, x # y, Claims(x), InRun(y)',
             worker'[x].run = worker'[y].run
      PROVE  worker'[x].gen # worker'[y].gen
  <2>1. PICK r \in Runs : /\ Claimable(run[r])
                          /\ worker'[x].run = r /\ worker'[x].gen = run[r].generation + 1
    BY <1>4, Zenon DEF Claims
  <2>2. worker'[y] = worker[y]
    BY <1>4, Zenon DEF Claims
  <2>3. InRun(y) /\ worker[y].run = r
    BY <1>4, <2>1, <2>2, Zenon DEF InRun
  <2>4. run[r].state # "deleted"
    BY <2>1, Zenon DEF Claimable
  <2>5. worker[y].gen <= run[r].generation
    BY <2>3, <2>4, Zenon DEF IInv, ClaimInv
  <2>6. worker[y].gen \in Nat /\ run[r].generation \in Nat
    <3>1. worker[y] \in Process /\ run[r] \in Row
      BY Zenon DEF IInv, TypeOK
    <3> QED
      BY <3>1, RowNumbers, Zenon DEF Process
  <2> QED
    BY <2>1, <2>2, <2>5, <2>6, SMT
<1>5. CASE Claims(v)
  BY <1>4, <1>5
<1>6. CASE Claims(w)
  BY <1>4, <1>6
<1> QED
  BY <1>3, <1>5, <1>6, StepOfWorkers

LEMMA InitIInv == Init => IInv
<1> SUFFICES ASSUME Init
             PROVE  IInv
  OBVIOUS
<1> DEFINE s0 == CHOOSE s \in Sessions : TRUE
<1>1. s0 \in Sessions
  BY NamesAssumption
<1>2. \A r \in Runs : run[r] = NoRow(s0)
  BY Zenon DEF Init
<1>3. \A w \in Workers : worker[w] = Idle
  BY Zenon DEF Init
<1> HIDE DEF s0
<1>4. Idle \in Process /\ Idle.pc = "idle"
  BY 0 \in Nat, Zenon DEF Idle, Process
<1>5. TypeOK
  <2>1. run \in [Runs -> Row]
    BY <1>1, NoRowTyped, Zenon DEF Init, s0
  <2>2. worker \in [Workers -> Process] /\ lock \in [Sessions -> Workers \cup {NoWorker}]
    BY <1>4, Zenon DEF Init
  <2> QED
    BY <2>1, <2>2, 0 \in Nat, Zenon DEF Init, TypeOK
<1>6. RowInv(NoRow(s0))
  <2>1. LET row == NoRow(s0)
        IN  /\ row.state = "absent" /\ row.shown = "absent" /\ row.generation = 0
            /\ row.owner = 0 /\ row.inputs = 0 /\ row.endings = 0
    BY Zenon DEF NoRow
  <2> QED
    BY <2>1, SMT DEF RowInv, IsActive, Active, Terminal
<1>7. \A w \in Workers : ~InRun(w)
  BY <1>3, <1>4, Zenon DEF InRun
<1> QED
  BY <1>2, <1>5, <1>6, <1>7, Zenon DEF IInv, ClaimInv, ClaimsDiffer

LEMMA NextIInv == IInv /\ [Next]_vars => IInv'
<1> SUFFICES ASSUME IInv, [Next]_vars
             PROVE  IInv'
  OBVIOUS
<1>1. TypeOK'
  BY TypeStep
<1>2. ASSUME NEW r \in Runs
      PROVE  RowInv(run'[r])
  <2>1. run[r] \in Row /\ run'[r] \in Row /\ RowInv(run[r])
    BY <1>1, Zenon DEF IInv, TypeOK
  <2>2. run'[r] = run[r] \/ RowStep(run[r], run'[r])
    BY StepOfRows
  <2> QED
    BY <2>1, <2>2, RowInvStep
<1>3. \A w \in Workers : ClaimInv(w)'
  BY <1>1, ClaimStep
<1>4. ClaimsDiffer'
  BY <1>1, ClaimsDifferStep
<1> QED
  BY <1>1, <1>2, <1>3, <1>4, Zenon DEF IInv

\* The inductive invariant holds in every reachable state.
THEOREM Invariance == Spec => []IInv
  BY InitIInv, NextIInv, PTL DEF Spec

\* Every variable keeps its type.
THEOREM TypeCorrect == Spec => []TypeOK
<1>1. IInv => TypeOK
  BY Zenon DEF IInv
<1> QED
  BY <1>1, Invariance, PTL

\* A Run has one ending in its journal when it is over, and none before.
THEOREM EndsOnce == Spec => []OneEnding
<1>1. IInv => OneEnding
  BY Zenon DEF IInv, RowInv, OneEnding
<1> QED
  BY <1>1, Invariance, PTL

\* The journal of an active Run has room for the events that end it.
THEOREM RoomIsKept == Spec => []RoomToEnd
<1>1. ASSUME IInv, NEW r \in Runs, IsActive(run[r])
      PROVE  CanClose(run[r], 3)
  <2>1. run[r] \in Row /\ run[r].sequence <= EventLimit
    BY <1>1, Zenon DEF IInv, TypeOK, RowInv
  <2> QED
    BY <2>1, RowNumbers, LimitsAssumption, SMT DEF CanClose
<1>2. IInv => RoomToEnd
  BY <1>1, Zenon DEF RoomToEnd
<1> QED
  BY <1>2, Invariance, PTL

\* At most one process passes the fence of a Run.
THEOREM OwnersDiffer == Spec => []OneOwner
<1>1. ASSUME IInv, NEW v \in Workers, NEW w \in Workers, InRun(v), InRun(w),
             worker[v].run = worker[w].run, HoldsLease(v), HoldsLease(w)
      PROVE  v = w
  <2>1. worker[v].gen = worker[w].gen
    BY <1>1, Zenon DEF HoldsLease
  <2>2. run[worker[v].run].state # "deleted"
    BY <1>1, Zenon DEF HoldsLease
  <2> QED
    BY <1>1, <2>1, <2>2, Zenon DEF IInv, ClaimsDiffer
<1>2. IInv => OneOwner
  BY <1>1, Zenon DEF OneOwner
<1> QED
  BY <1>2, Invariance, PTL

\* No owner writes an older checkpoint over an accepted supplement.
THEOREM KeepsSupplements == Spec => []SupplementsKept
<1>1. IInv => SupplementsKept
  BY Zenon DEF IInv, RowInv, SupplementsKept
<1> QED
  BY <1>1, Invariance, PTL

\* The message repeats the state of the Run and the answer of its last attempt.
THEOREM MessageIsCurrent == Spec => []MessageAgrees
<1>1. IInv => MessageAgrees
  BY Zenon DEF IInv, RowInv, MessageAgrees
<1> QED
  BY <1>1, Invariance, PTL

\* No owner has a deadline beyond the budget that is left.
THEOREM DeadlineIsBounded == Spec => []DeadlineWithinBudget
<1>1. IInv => DeadlineWithinBudget
  BY Zenon DEF IInv, RowInv, DeadlineWithinBudget
<1> QED
  BY <1>1, Invariance, PTL

\* No step but create makes a row active, or moves it to another session.
LEMMA RowStaysHome ==
  ASSUME NEW a \in Row, NEW b \in Row, RowChange(a, b), IsActive(b)
  PROVE  IsActive(a) /\ b.session = a.session
<1> USE DEF IsActive, Active
<1>1. CASE RowLapse(a, b) \/ RowCancel(a, b) \/ RowSettle(a, b) \/ RowExhaust(a, b) \/ RowFail(a, b)
  <2>1. b.state \in {"interrupted", "cancelled", "failed"}
    BY <1>1, Zenon DEF RowLapse, Expire, RowCancel, Cancelled, RowSettle, Settled, RowExhaust,
                       RowFail, Released, Closed, Ended, Moved, Row
  <2> QED
    BY <2>1
<1>2. CASE RowStop(a, b) \/ RowResume(a, b) \/ RowLease(a, b) \/ RowRequeue(a, b)
  <2>1. b.session = a.session
    <3>1. CASE RowStop(a, b)
      BY <3>1, Zenon DEF RowStop, Stopping, Logged, Moved, Row
    <3>4. CASE RowLease(a, b)
      BY <3>4, Zenon DEF RowLease, Leased, Logged, Moved, Row
    <3>2. CASE RowResume(a, b)
      BY <3>2, ZenonT(60) DEF RowResume, Resumed, Logged, Moved, Row
    <3>3. CASE RowRequeue(a, b)
      BY <3>3, Zenon DEF RowRequeue, Requeued, Released, Moved, Row
    <3> QED
      BY <1>2, <3>1, <3>2, <3>3, <3>4
  <2>2. a.state \in {"queued", "running", "waiting"}
    BY <1>2, Zenon DEF RowStop, RowResume, RowLease, Claimable, RowRequeue
  <2> QED
    BY <2>1, <2>2
<1>3. CASE RowRemove(a, b)
  BY <1>3, Zenon DEF RowRemove, NoRow
<1>4. CASE RowEmit(a, b) \/ RowBeat(a, b) \/ RowAge(a, b)
  <2>1. b.session = a.session /\ b.state = a.state
    BY <1>4, Zenon DEF RowEmit, RowBeat, RowAge, Aged, Logged, Row
  <2> QED
    BY <2>1
<1>5. CASE RowPublish(a, b)
  <2>1. PICK p \in Process : b = Saved(Released(Closed(a, "succeeded", 3)), p)
    BY <1>5, Zenon DEF RowPublish
  <2>2. b.state = "succeeded"
    BY <2>1, PublishedParts, Zenon
  <2> QED
    BY <2>2
<1>6. CASE RowClarify(a, b)
  <2>1. PICK p \in Process : b = Saved(Paused(a), p)
    BY <1>6, Zenon DEF RowClarify
  <2>2. Paused(a) \in Row
    BY <1>6, PausedTyped, Zenon DEF RowClarify
  <2>3. Paused(a).session = a.session
    BY Zenon DEF Paused, Released, Logged, Moved, Row
  <2>4. b.session = a.session
    BY <2>1, <2>2, <2>3, Zenon DEF Saved, Row
  <2>5. a.state = "running"
    BY <1>6, Zenon DEF RowClarify
  <2> QED
    BY <2>4, <2>5
<1> QED
  BY <1>1, <1>2, <1>3, <1>4, <1>5, <1>6, Zenon DEF RowChange

\* Creating a Run interrupts or finds over every other Run of its session.
LEMMA CreateAlone ==
  ASSUME IInv, TypeOK', OneActiveRun, NEW r \in Runs, NEW s \in Sessions, Create(r, s)
  PROVE  OneActiveRun'
<1>1. ASSUME NEW q \in Runs \ {r}, IsActive(run'[q])
      PROVE  IsActive(run[q]) /\ run'[q] = run[q] /\ run[q].session # s
  <2>1. CASE q \in ActiveIn(s)
    <3>1. run'[q] = Expire(run[q]) /\ run[q] \in Row
      BY <2>1, Zenon DEF Create, IInv, TypeOK
    <3>2. run'[q].state = "interrupted"
      BY <3>1, Zenon DEF Expire, Closed, Ended, Moved, Row
    <3> QED
      BY <1>1, <3>2, Zenon DEF IsActive, Active
  <2>2. CASE q \notin ActiveIn(s)
    <3>1. run'[q] = run[q]
      BY <2>2, Zenon DEF Create
    <3> QED
      BY <1>1, <2>2, <3>1, Zenon DEF ActiveIn, IsActive
  <2> QED
    BY <2>1, <2>2
<1>2. run'[r].session = s
  <2>1. run'[r] = Logged(Accepted(s, created)) /\ created \in Nat
    BY Zenon DEF Create, IInv, TypeOK
  <2>2. Accepted(s, created) \in Row
    BY <2>1, AcceptedTyped
  <2>3. Accepted(s, created).session = s
    BY Zenon DEF Accepted, NoRow
  <2> QED
    BY <2>1, <2>2, <2>3, Zenon DEF Logged, Row
<1>3. ASSUME NEW p \in Runs, NEW q \in Runs, IsActive(run'[p]), IsActive(run'[q]),
             run'[p].session = run'[q].session
      PROVE  p = q
  <2>1. CASE p = r \/ q = r
    BY <1>1, <1>2, <1>3, <2>1
  <2>2. CASE p # r /\ q # r
    BY <1>1, <1>3, <2>2, Zenon DEF OneActiveRun
  <2> QED
    BY <2>1, <2>2
<1> QED
  BY <1>3, Zenon DEF OneActiveRun, IsActive

\* A session never has two active Runs.
THEOREM OneRunPerSession == Spec => []OneActiveRun
<1>1. Init => OneActiveRun
  <2>1. \A s : NoRow(s).state = "absent"
    BY Zenon DEF NoRow
  <2> QED
    BY <2>1, Zenon DEF Init, OneActiveRun, IsActive, Active
<1>2. OneActiveRun /\ IInv /\ TypeOK' /\ [Next]_vars => OneActiveRun'
  <2> SUFFICES ASSUME OneActiveRun, IInv, TypeOK', [Next]_vars
               PROVE  OneActiveRun'
    OBVIOUS
  <2>1. CASE \E r \in Runs, s \in Sessions : Create(r, s)
    BY <2>1, CreateAlone
  <2>2. CASE ~ \E r \in Runs, s \in Sessions : Create(r, s)
    <3>1. ASSUME NEW q \in Runs, IsActive(run'[q])
          PROVE  IsActive(run[q]) /\ run'[q].session = run[q].session
      <4>1. run[q] \in Row /\ run'[q] \in Row
        BY Zenon DEF IInv, TypeOK
      <4> QED
        BY <2>2, <3>1, <4>1, StepsButCreate, RowStaysHome
    <3> QED
      BY <3>1, Zenon DEF OneActiveRun, IsActive
  <2> QED
    BY <2>1, <2>2
<1> QED
  BY <1>1, <1>2, Invariance, TypeCorrect, PTL DEF Spec

-----------------------------------------------------------------------------
(* What a step may never do.                                               *)

\* Only the actions that charge time change the budget of an active Run.
LEMMA RowBudget ==
  ASSUME NEW a \in Row, NEW b \in Row, RowInv(a), RowStep(a, b), IsActive(a)
  PROVE  b.remaining <= a.remaining
<1>1. CASE b.remaining = a.remaining
  BY <1>1, RowNumbers, SMT
<1>2. CASE RowLease(a, b) \/ RowRequeue(a, b)
  <2>1. b.remaining = a.remaining - a.used
    BY <1>2, Zenon DEF RowLease, Leased, RowRequeue, Requeued, Released, Logged, Moved, Row
  <2> QED
    BY <2>1, RowNumbers, SMT
<1>3. CASE RowClarify(a, b)
  <2>1. PICK p \in Process : b = Saved(Paused(a), p)
    BY <1>3, Zenon DEF RowClarify
  <2>2. Paused(a) \in Row
    BY <1>3, PausedTyped, Zenon DEF RowClarify
  <2>3. Paused(a).remaining = a.remaining - a.used
    BY Zenon DEF Paused, Released, Logged, Moved, Row
  <2>4. b.remaining = Paused(a).remaining
    BY <2>1, <2>2, Zenon DEF Saved, Row
  <2> QED
    BY <2>3, <2>4, RowNumbers, SMT
<1>4. CASE RowRemove(a, b)
  <2>1. b.remaining = 0
    BY <1>4, Zenon DEF RowRemove, NoRow
  <2> QED
    BY <2>1, RowNumbers, SMT
<1>5. CASE RowAccept(a, b)
  BY <1>5, Zenon DEF RowAccept, IsActive, Active
<1>6. CASE RowLapse(a, b) \/ RowCancel(a, b) \/ RowSettle(a, b) \/ RowExhaust(a, b) \/ RowFail(a, b)
  <2>1. b.remaining = a.remaining
    BY <1>6, Zenon DEF RowLapse, Expire, RowCancel, Cancelled, RowSettle, Settled, RowExhaust,
                       RowFail, Released, Closed, Ended, Moved, Row
  <2> QED
    BY <1>1, <2>1
<1>7. CASE RowStop(a, b) \/ RowResume(a, b) \/ RowEmit(a, b) \/ RowBeat(a, b) \/ RowAge(a, b)
  <2>1. b.remaining = a.remaining
    BY <1>7, Zenon DEF RowStop, Stopping, RowResume, Resumed, RowEmit, RowBeat, RowAge, Aged,
                       Logged, Moved, Row
  <2> QED
    BY <1>1, <2>1
<1>8. CASE RowPublish(a, b)
  <2>1. PICK p \in Process : b = Saved(Released(Closed(a, "succeeded", 3)), p)
    BY <1>8, Zenon DEF RowPublish
  <2>2. b.remaining = a.remaining
    BY <2>1, PublishedParts, Zenon
  <2> QED
    BY <1>1, <2>2
<1> QED
  BY <1>2, <1>3, <1>4, <1>5, <1>6, <1>7, <1>8, Zenon DEF RowStep, RowChange

\* The budget of an active Run never grows.
THEOREM BudgetShrinks == Spec => BudgetNeverGrows
<1>1. ASSUME IInv, TypeOK', [Next]_vars, NEW r \in Runs, IsActive(run[r])
      PROVE  run[r]'.remaining <= run[r].remaining
  <2>1. run[r] \in Row /\ run'[r] \in Row /\ RowInv(run[r])
    BY <1>1, Zenon DEF IInv, TypeOK
  <2>2. CASE run'[r] = run[r]
    BY <2>1, <2>2, RowNumbers, SMT
  <2>3. CASE RowStep(run[r], run'[r])
    BY <1>1, <2>1, <2>3, RowBudget
  <2> QED
    BY <1>1, <2>2, <2>3, StepOfRows
<1>2. IInv /\ TypeOK' /\ [Next]_vars
        => [\A r \in Runs : IsActive(run[r]) => run[r]'.remaining <= run[r].remaining]_vars
  BY <1>1
<1> QED
  BY <1>2, Invariance, TypeCorrect, PTL DEF Spec, BudgetNeverGrows

\* A Run that is over is only ever deleted.
THEOREM EndingsAreFinal == Spec => EndedIsFinal
<1>1. ASSUME NEW a \in Row, NEW b, a.state \in Terminal, RowStep(a, b)
      PROVE  b.state = "deleted"
  <2>1. RowRemove(a, b)
    BY <1>1, Zenon DEF RowStep, RowChange, RowAccept, RowLapse, Expired, RowCancel, RowStop, RowResume,
       RowSettle, Abandoned, RowExhaust, RowLease, Claimable, RowEmit, RowPublish, RowClarify,
       RowRequeue, RowFail, RowBeat, RowAge, IsActive, Active, Terminal
  <2> QED
    BY <2>1, Zenon DEF RowRemove, NoRow
<1>2. ASSUME IInv, [Next]_vars, NEW r \in Runs, run[r].state \in Terminal
      PROVE  run[r]' = run[r] \/ run[r].state' = "deleted"
  <2>1. run[r] \in Row
    BY <1>2, Zenon DEF IInv, TypeOK
  <2> QED
    BY <1>1, <1>2, <2>1, StepOfRows
<1>3. IInv /\ [Next]_vars
        => [\A r \in Runs : run[r].state \in Terminal =>
             run[r]' = run[r] \/ run[r].state' = "deleted"]_vars
  BY <1>2
<1> QED
  BY <1>3, Invariance, PTL DEF Spec, EndedIsFinal

\* The calls that end the attempt of a superseded owner do not touch the Run.
THEOREM StaleOwnersAreHarmless == Spec => StaleOwnerHarmless
<1>1. ASSUME TypeOK, [Next]_vars, NEW w \in Workers, InRun(w),
             worker[w].gen # run[worker[w].run].generation, worker'[w] # worker[w]
      PROVE  run' = run
  <2>1. worker' # worker
    BY <1>1
  <2>2. Worker(w)
    BY <1>1, <2>1, OthersKeepClaims, Zenon
    DEF Next, User, Create, Read, RequestCancel, Resume, DeleteSession, Tick, vars
  <2>3. ~HoldsLease(w) /\ ~Owned(w)
    BY <1>1, Zenon DEF HoldsLease, Owned
  <2>4. worker[w].pc # "idle"
    BY <1>1, Zenon DEF InRun
  <2>5. CASE \/ EmitEvent(w) \/ Publish(w) \/ Clarify(w) \/ ReleaseBusy(w)
             \/ FinishFailure(w) \/ Heartbeat(w)
    BY <2>3, <2>5, Zenon DEF EmitEvent, Publish, Clarify, ReleaseBusy, FinishFailure, Heartbeat
  <2>6. CASE \E skipped \in SUBSET Runs : ClaimNext(w, skipped)
    BY <2>4, <2>6, Zenon DEF ClaimNext, SweepOnly, ClaimExhausted, ClaimRun
  <2>7. CASE \/ LoadCheckpoint(w) \/ EnterSession(w) \/ LoseSessionLock(w) \/ Raise(w)
             \/ LeaveSession(w) \/ HeartbeatDies(w) \/ Crash(w)
    BY <2>7, Zenon DEF LoadCheckpoint, EnterSession, LoseSessionLock, Raise, LeaveSession,
                       HeartbeatDies, Crash
  <2> QED
    BY <2>2, <2>5, <2>6, <2>7, Zenon DEF Worker
<1>2. TypeOK /\ [Next]_vars
        => [\A w \in Workers :
             InRun(w) /\ worker[w].gen # run[worker[w].run].generation /\ worker'[w] # worker[w]
               => run'[worker[w].run] = run[worker[w].run]]_vars
  BY <1>1
<1> QED
  BY <1>2, TypeCorrect, PTL DEF Spec, StaleOwnerHarmless

-----------------------------------------------------------------------------
(* RunStore implements RunLifecycle.                                       *)

LEMMA Phases ==
  /\ PhaseOf("absent") = "none" /\ PhaseOf("deleted") = "removed"
  /\ PhaseOf("queued") = "open" /\ PhaseOf("running") = "open"
  /\ PhaseOf("waiting") = "asking" /\ PhaseOf("cancelling") = "closing"
  /\ PhaseOf("succeeded") = "succeeded" /\ PhaseOf("failed") = "failed"
  /\ PhaseOf("cancelled") = "cancelled" /\ PhaseOf("interrupted") = "interrupted"
  BY SMT DEF PhaseOf

\* What of a row the abstract life depends on.
LEMMA SameLife ==
  ASSUME NEW a, NEW b,
         PhaseOf(b.state) = PhaseOf(a.state), b.generation = a.generation, b.inputs = a.inputs,
         a.state # "succeeded", b.state # "succeeded"
  PROVE  LifeOf(b) = LifeOf(a)
  BY Zenon DEF LifeOf

Living(phase, attempts, supplied) ==
  [phase |-> phase, attempts |-> attempts, supplied |-> supplied, answer |-> 0]

LEMMA LifeIs ==
  ASSUME NEW a
  PROVE  /\ a.state = "absent"     => LifeOf(a) = Living("none", a.generation, a.inputs)
         /\ a.state = "deleted"    => LifeOf(a) = Living("removed", a.generation, a.inputs)
         /\ a.state \in {"queued", "running"}
                                   => LifeOf(a) = Living("open", a.generation, a.inputs)
         /\ a.state = "waiting"    => LifeOf(a) = Living("asking", a.generation, a.inputs)
         /\ a.state = "cancelling" => LifeOf(a) = Living("closing", a.generation, a.inputs)
         /\ a.state \in {"failed", "cancelled", "interrupted"}
                                   => LifeOf(a) = Living(a.state, a.generation, a.inputs)
  BY Phases, Zenon DEF LifeOf, Living

LEMMA SupplyOf ==
  ASSUME NEW g, NEW i, NEW x, NEW y, x = Living("asking", g, i), y = Living("open", g, i + 1)
  PROVE  Lifecycle!Supply(x, y)
<1>1. x.phase = "asking" /\ x.supplied = i
  BY SMT DEF Living
<1>2. [x EXCEPT !.phase = "open"] = Living("open", g, i)
  BY SMT DEF Living
<1>3. [Living("open", g, i) EXCEPT !.supplied = i + 1] = Living("open", g, i + 1)
  BY SMT DEF Living
<1>4. [x EXCEPT !.phase = "open", !.supplied = i + 1] = Living("open", g, i + 1)
  BY <1>2, <1>3
<1>5. [x EXCEPT !.phase = "open", !.supplied = x.supplied + 1] = Living("open", g, i + 1)
  BY <1>1, <1>4
<1> QED
  BY <1>1, <1>5 DEF Lifecycle!Supply

LEMMA DeliverOf ==
  ASSUME NEW g, g > 0, NEW i, NEW x, NEW y, x = Living("open", g, i),
         y = [phase |-> "succeeded", attempts |-> g, supplied |-> i, answer |-> g]
  PROVE  Lifecycle!Deliver(x, y)
<1>1. x.phase = "open" /\ x.attempts = g
  BY SMT DEF Living
<1>2. [x EXCEPT !.phase = "succeeded"] = Living("succeeded", g, i)
  BY SMT DEF Living
<1>3. [Living("succeeded", g, i) EXCEPT !.answer = g] = y
  BY SMT DEF Living
<1>4. [x EXCEPT !.phase = "succeeded", !.answer = g] = y
  BY <1>2, <1>3
<1>5. [x EXCEPT !.phase = "succeeded", !.answer = x.attempts] = y
  BY <1>1, <1>4
<1> QED
  BY <1>1, <1>5 DEF Lifecycle!Deliver

\* Every change of a row is a step of its abstract life, or invisible in it.
LEMMA RowAdvances ==
  ASSUME NEW a \in Row, NEW b \in Row, RowInv(a), RowStep(a, b)
  PROVE  LifeOf(b) = LifeOf(a) \/ Lifecycle!Advance(LifeOf(a), LifeOf(b))
<1>1. CASE RowAccept(a, b)
  <2>1. PICK s \in Sessions, t \in Nat : b = Logged(Accepted(s, t))
    BY <1>1, Zenon DEF RowAccept
  <2> DEFINE c == Accepted(s, t)
  <2>2. c.state = "queued" /\ c.generation = 0 /\ c.inputs = 0
    BY Zenon DEF Accepted, NoRow
  <2>3. c \in Row
    BY AcceptedTyped
  <2> HIDE DEF c
  <2>4. b.state = "queued" /\ b.generation = 0 /\ b.inputs = 0
    BY <2>1, <2>2, <2>3, Zenon DEF c, Logged, Row
  <2>5. a.state = "absent" /\ a.generation = 0 /\ a.inputs = 0
    BY <1>1, Zenon DEF RowAccept, RowInv
  <2>6. /\ LifeOf(a) = Living("none", 0, 0)
        /\ LifeOf(b) = Living("open", 0, 0)
    BY <2>4, <2>5, LifeIs, Zenon
  <2>7. Lifecycle!Accept(LifeOf(a), LifeOf(b))
    BY <2>6, SMT DEF Living, Lifecycle!Accept, Lifecycle!None
  <2> QED
    BY <2>7, Zenon DEF Lifecycle!Advance
<1>2. CASE RowLapse(a, b)
  <2>1. b.state = "interrupted" /\ b.generation = a.generation /\ b.inputs = a.inputs
    BY <1>2, Zenon DEF RowLapse, Expire, Closed, Ended, Moved, Row
  <2>2. a.state = "waiting"
    BY <1>2, Zenon DEF RowLapse, Expired
  <2>3. /\ LifeOf(a) = Living("asking", a.generation, a.inputs)
        /\ LifeOf(b) = Living("interrupted", a.generation, a.inputs)
    BY <2>1, <2>2, LifeIs, Zenon
  <2>4. Lifecycle!Lapse(LifeOf(a), LifeOf(b))
    BY <2>3, SMT DEF Living, Lifecycle!Lapse
  <2> QED
    BY <2>4, Zenon DEF Lifecycle!Advance
<1>3. CASE RowCancel(a, b) \/ RowSettle(a, b)
  <2>1. b.state = "cancelled" /\ b.generation = a.generation /\ b.inputs = a.inputs
    BY <1>3, Zenon DEF RowCancel, Cancelled, RowSettle, Settled, Released, Closed, Ended, Moved, Row
  <2>2. a.state \in {"queued", "running", "waiting", "cancelling"}
    BY <1>3, Zenon DEF RowCancel, RowSettle, Abandoned
  <2>3. /\ \E phase \in {"open", "asking", "closing"} :
             LifeOf(a) = Living(phase, a.generation, a.inputs)
        /\ LifeOf(b) = Living("cancelled", a.generation, a.inputs)
    BY <2>1, <2>2, LifeIs, Zenon
  <2>4. Lifecycle!Cancel(LifeOf(a), LifeOf(b))
    BY <2>3, SMT DEF Living, Lifecycle!Cancel
  <2> QED
    BY <2>4, Zenon DEF Lifecycle!Advance
<1>4. CASE RowStop(a, b)
  <2>1. b.state = "cancelling" /\ b.generation = a.generation /\ b.inputs = a.inputs
    BY <1>4, Zenon DEF RowStop, Stopping, Logged, Moved, Row
  <2>2. a.state = "running"
    BY <1>4, Zenon DEF RowStop, Unowned
  <2>3. /\ LifeOf(a) = Living("open", a.generation, a.inputs)
        /\ LifeOf(b) = Living("closing", a.generation, a.inputs)
    BY <2>1, <2>2, LifeIs, Zenon
  <2>4. Lifecycle!Stop(LifeOf(a), LifeOf(b))
    BY <2>3, SMT DEF Living, Lifecycle!Stop
  <2> QED
    BY <2>4, Zenon DEF Lifecycle!Advance
<1>5. CASE RowResume(a, b)
  <2>1. b.state = "queued" /\ b.generation = a.generation /\ b.inputs = a.inputs + 1
    BY <1>5, Zenon DEF RowResume, Resumed, Logged, Moved, Row
  <2>2. a.state = "waiting"
    BY <1>5, Zenon DEF RowResume
  <2>3. /\ LifeOf(a) = Living("asking", a.generation, a.inputs)
        /\ LifeOf(b) = Living("open", a.generation, a.inputs + 1)
    BY <2>1, <2>2, LifeIs, Zenon
  <2>4. Lifecycle!Supply(LifeOf(a), LifeOf(b))
    BY <2>3, SupplyOf
  <2> QED
    BY <2>4, Zenon DEF Lifecycle!Advance
<1>6. CASE RowRemove(a, b)
  <2>1. b.state = "deleted" /\ b.generation = 0 /\ b.inputs = 0
    BY <1>6, Zenon DEF RowRemove, NoRow
  <2>2. a.state \in Active \cup Terminal
    BY <1>6, Zenon DEF RowRemove
  <2>3. PhaseOf(a.state) \notin {"none", "removed"}
    BY <2>2, SMT DEF PhaseOf, Active, Terminal
  <2>4. LifeOf(a).phase = PhaseOf(a.state)
    BY Zenon DEF LifeOf
  <2>5. LifeOf(b) = Living("removed", 0, 0)
    BY <2>1, LifeIs, Zenon
  <2>6. Lifecycle!Remove(LifeOf(a), LifeOf(b))
    BY <2>3, <2>4, <2>5, SMT DEF Living, Lifecycle!Remove, Lifecycle!Gone, Lifecycle!None
  <2> QED
    BY <2>6, Zenon DEF Lifecycle!Advance
<1>7. CASE RowExhaust(a, b)
  <2>1. b.state = "failed" /\ b.generation = a.generation /\ b.inputs = a.inputs
    BY <1>7, Zenon DEF RowExhaust, Closed, Ended, Moved, Row
  <2>2. a.state \in {"queued", "running"}
    BY <1>7, Zenon DEF RowExhaust, Claimable
  <2>3. /\ LifeOf(a) = Living("open", a.generation, a.inputs)
        /\ LifeOf(b) = Living("failed", a.generation, a.inputs)
    BY <2>1, <2>2, LifeIs, Zenon
  <2>4. Lifecycle!Fail(LifeOf(a), LifeOf(b))
    BY <2>3, SMT DEF Living, Lifecycle!Fail
  <2> QED
    BY <2>4, Zenon DEF Lifecycle!Advance
<1>8. CASE RowLease(a, b)
  <2>1. b.state = "running" /\ b.generation = a.generation + 1 /\ b.inputs = a.inputs
    BY <1>8, Zenon DEF RowLease, Leased, Logged, Moved, Row
  <2>2. a.state \in {"queued", "running"}
    BY <1>8, Zenon DEF RowLease, Claimable
  <2>3. /\ LifeOf(a) = Living("open", a.generation, a.inputs)
        /\ LifeOf(b) = Living("open", a.generation + 1, a.inputs)
    BY <2>1, <2>2, LifeIs, Zenon
  <2>4. Lifecycle!Attempt(LifeOf(a), LifeOf(b))
    BY <2>3, SMT DEF Living, Lifecycle!Attempt
  <2> QED
    BY <2>4, Zenon DEF Lifecycle!Advance
<1>9. CASE RowEmit(a, b) \/ RowBeat(a, b) \/ RowAge(a, b)
  <2>1. b.state = a.state /\ b.generation = a.generation /\ b.inputs = a.inputs
    BY <1>9, Zenon DEF RowEmit, RowBeat, RowAge, Aged, Logged, Row
  <2>2. a.state # "succeeded"
    BY <1>9, Zenon DEF RowEmit, RowBeat, RowAge, IsActive, Active
  <2> QED
    BY <2>1, <2>2, SameLife
<1>10. CASE RowPublish(a, b)
  <2>1. PICK p \in Process : Current(a, p) /\ b = Saved(Released(Closed(a, "succeeded", 3)), p)
    BY <1>10, Zenon DEF RowPublish
  <2>2. /\ b.state = "succeeded" /\ b.generation = a.generation
        /\ b.inputs = p.inputs /\ b.answer = p.gen
    BY <2>1, PublishedParts, Zenon
  <2>3. a.state = "running" /\ a.generation > 0
    BY <1>10, Zenon DEF RowPublish, RowInv
  <2>4. LifeOf(b) = [phase |-> "succeeded", attempts |-> a.generation,
                     supplied |-> a.inputs, answer |-> a.generation]
    BY <2>1, <2>2, Phases, Zenon DEF LifeOf, Current
  <2>5. LifeOf(a) = Living("open", a.generation, a.inputs)
    BY <2>3, LifeIs, Zenon
  <2>6. Lifecycle!Deliver(LifeOf(a), LifeOf(b))
    BY <2>3, <2>4, <2>5, DeliverOf
  <2> QED
    BY <2>6, Zenon DEF Lifecycle!Advance
<1>11. CASE RowClarify(a, b)
  <2>1. PICK p \in Process : Current(a, p) /\ b = Saved(Paused(a), p)
    BY <1>11, Zenon DEF RowClarify
  <2>2. Paused(a) \in Row
    BY <1>11, PausedTyped, Zenon DEF RowClarify
  <2>3. Paused(a).state = "waiting" /\ Paused(a).generation = a.generation
    BY Zenon DEF Paused, Released, Logged, Moved, Row
  <2>4. b.state = "waiting" /\ b.generation = a.generation /\ b.inputs = p.inputs
    BY <2>1, <2>2, <2>3, Zenon DEF Saved, Row
  <2>5. a.state = "running" /\ a.generation > 0 /\ p.inputs = a.inputs
    BY <1>11, <2>1, Zenon DEF RowClarify, RowInv, Current
  <2>6. /\ LifeOf(a) = Living("open", a.generation, a.inputs)
        /\ LifeOf(b) = Living("asking", a.generation, a.inputs)
    BY <2>4, <2>5, LifeIs, Zenon
  <2>7. Lifecycle!Ask(LifeOf(a), LifeOf(b))
    BY <2>5, <2>6, SMT DEF Living, Lifecycle!Ask
  <2> QED
    BY <2>7, Zenon DEF Lifecycle!Advance
<1>12. CASE RowRequeue(a, b)
  <2>1. b.state = "queued" /\ b.generation = a.generation /\ b.inputs = a.inputs
    BY <1>12, Zenon DEF RowRequeue, Requeued, Released, Moved, Row
  <2>2. a.state = "running"
    BY <1>12, Zenon DEF RowRequeue
  <2>3. PhaseOf(b.state) = PhaseOf(a.state)
    BY <2>1, <2>2, Phases
  <2> QED
    BY <2>1, <2>2, <2>3, SameLife
<1>13. CASE RowFail(a, b)
  <2>1. /\ b.state \in {"failed", "cancelled"}
        /\ b.generation = a.generation /\ b.inputs = a.inputs
    BY <1>13, Zenon DEF RowFail, Released, Closed, Ended, Moved, Row
  <2>2. a.state \in {"running", "cancelling"}
    BY <1>13, Zenon DEF RowFail
  <2>3. /\ \E phase \in {"open", "closing"} :
             LifeOf(a) = Living(phase, a.generation, a.inputs)
        /\ \E phase \in {"failed", "cancelled"} :
             LifeOf(b) = Living(phase, a.generation, a.inputs)
    BY <2>1, <2>2, LifeIs, Zenon
  <2>4. Lifecycle!Fail(LifeOf(a), LifeOf(b)) \/ Lifecycle!Cancel(LifeOf(a), LifeOf(b))
    BY <2>3, SMT DEF Living, Lifecycle!Fail, Lifecycle!Cancel
  <2> QED
    BY <2>4, Zenon DEF Lifecycle!Advance
<1> QED
  BY <1>1, <1>2, <1>3, <1>4, <1>5, <1>6, <1>7, <1>8, <1>9, <1>10, <1>11, <1>12, <1>13,
     Zenon DEF RowStep, RowChange

\* The protocol implements the abstract life of a Run.
THEOREM Refinement == Spec => ImplementsLifecycle
<1>1. Init => Lifecycle!Init
  <2> SUFFICES ASSUME Init
               PROVE  Lifecycle!Init
    OBVIOUS
  <2>1. \A s : LifeOf(NoRow(s)) = Lifecycle!None
    <3>1. \A s : NoRow(s).state = "absent" /\ NoRow(s).generation = 0 /\ NoRow(s).inputs = 0
      BY Zenon DEF NoRow
    <3> QED
      BY <3>1, LifeIs, Zenon DEF Living, Lifecycle!None
  <2>2. \A r \in Runs : LifeOf(run[r]) = Lifecycle!None
    BY <2>1, Zenon DEF Init
  <2> QED
    BY <2>2, Zenon DEF Lifecycle!Init
<1>2. IInv /\ TypeOK' /\ [Next]_vars => [Lifecycle!Next]_([r \in Runs |-> LifeOf(run[r])])
  <2> SUFFICES ASSUME IInv, TypeOK', [Next]_vars
               PROVE  Lifecycle!Next
    BY Zenon
  <2>1. ASSUME NEW r \in Runs
        PROVE  \/ LifeOf(run'[r]) = LifeOf(run[r])
               \/ Lifecycle!Advance(LifeOf(run[r]), LifeOf(run'[r]))
    <3>1. run[r] \in Row /\ run'[r] \in Row /\ RowInv(run[r])
      BY Zenon DEF IInv, TypeOK
    <3> QED
      BY <3>1, StepOfRows, RowAdvances
  <2> QED
    BY <2>1, Zenon DEF Lifecycle!Next
<1> QED
  BY <1>1, <1>2, Invariance, TypeCorrect, PTL DEF Spec, ImplementsLifecycle, Lifecycle!Spec

-----------------------------------------------------------------------------
(* The fence that RunOperations relies on.                                  *)

\* A row that ends, or is removed, closes its fence.
LEMMA FenceCloses ==
  ASSUME NEW a \in Row, NEW b \in Row, IsOver(b)
  PROVE  FenceOf(b) = FenceOf(a) \/ Fencing!Close(FenceOf(a), FenceOf(b))
<1>1. \A row \in Row : IsOver(row) => FenceOf(row) = Fencing!Over
  BY Zenon DEF FenceOf, Fencing!Over
<1>2. ~IsOver(a) => FenceOf(a).state # "over"
  BY Zenon DEF FenceOf
<1> QED
  BY <1>1, <1>2, Zenon DEF Fencing!Close

\* The fence of a Run that is not over.
LEMMA FenceIs ==
  ASSUME NEW row \in Row, ~IsOver(row)
  PROVE  FenceOf(row) = [gen |-> row.generation, state |-> IF IsHeld(row) THEN "held" ELSE "free"]
BY Zenon DEF FenceOf

\* A step that leases nothing keeps the fence or revokes it.
LEMMA FenceKeptOrRevoked ==
  ASSUME NEW a \in Row, NEW b \in Row, ~IsOver(a), ~IsOver(b),
         b.generation = a.generation, IsHeld(b) => IsHeld(a)
  PROVE  FenceOf(b) = FenceOf(a) \/ Fencing!Revoke(FenceOf(a), FenceOf(b))
<1>1. CASE IsHeld(b) \/ ~IsHeld(a)
  <2>1. IsHeld(b) <=> IsHeld(a)
    BY <1>1, Zenon
  <2> QED
    BY <2>1, FenceIs, Zenon
<1>2. CASE IsHeld(a) /\ ~IsHeld(b)
  <2>1. /\ FenceOf(a) = [gen |-> a.generation, state |-> "held"]
        /\ FenceOf(b) = [gen |-> a.generation, state |-> "free"]
    BY <1>2, FenceIs, Zenon
  <2> QED
    BY <2>1, SMT DEF Fencing!Revoke
<1> QED
  BY <1>1, <1>2

\* A lease is a new grant.
LEMMA FenceGranted ==
  ASSUME NEW a \in Row, NEW b \in Row, ~IsOver(a), ~IsOver(b),
         b.generation = a.generation + 1, IsHeld(b), ~IsHeld(a)
  PROVE  Fencing!Grant(FenceOf(a), FenceOf(b))
<1>1. /\ FenceOf(a) = [gen |-> a.generation, state |-> "free"]
      /\ FenceOf(b) = [gen |-> a.generation + 1, state |-> "held"]
  <2>1. FenceOf(a) = [gen |-> a.generation, state |-> "free"]
    BY FenceIs, Zenon
  <2>2. FenceOf(b) = [gen |-> b.generation, state |-> "held"]
    BY FenceIs, Zenon
  <2> QED
    BY <2>1, <2>2
<1>2. FenceOf(a).state = "free" /\ FenceOf(a).gen = a.generation
  BY <1>1
<1>3. FenceOf(b) = [gen |-> FenceOf(a).gen + 1, state |-> "held"]
  BY <1>1, <1>2, Zenon
<1> QED
  BY <1>2, <1>3, Zenon DEF Fencing!Grant

\* A Run that was not created has no owner.
LEMMA FreeFenceOf ==
  ASSUME NEW row, row.state = "absent", row.generation = 0
  PROVE  FenceOf(row) = Fencing!Free
<1>1. ~IsOver(row) /\ ~IsHeld(row)
  BY DEF IsOver, IsHeld, Terminal
<1> QED
  BY <1>1, Zenon DEF FenceOf, Fencing!Free

\* Every change of a row is a step of its fence, or invisible in it.
LEMMA RowFences ==
  ASSUME NEW a \in Row, NEW b \in Row, RowInv(a), RowStep(a, b)
  PROVE  FenceOf(b) = FenceOf(a) \/ Fencing!Advance(FenceOf(a), FenceOf(b))
<1>1. CASE \/ RowLapse(a, b) \/ RowCancel(a, b) \/ RowSettle(a, b) \/ RowExhaust(a, b)
           \/ RowFail(a, b) \/ RowRemove(a, b) \/ RowPublish(a, b)
  <2>1. ASSUME RowLapse(a, b) \/ RowCancel(a, b) \/ RowSettle(a, b) \/ RowExhaust(a, b)
        PROVE  IsOver(b)
    <3>1. b.state \in {"interrupted", "cancelled", "failed"}
      BY <2>1, Zenon DEF RowLapse, Expire, RowCancel, Cancelled, RowSettle, Settled, RowExhaust,
                         Released, Closed, Ended, Moved, Row
    <3> QED
      BY <3>1 DEF IsOver, Terminal
  <2>2. ASSUME RowFail(a, b) \/ RowRemove(a, b)
        PROVE  IsOver(b)
    <3>1. b.state \in {"failed", "cancelled", "deleted"}
      BY <2>2, Zenon DEF RowFail, RowRemove, NoRow, Released, Closed, Ended, Moved, Row
    <3> QED
      BY <3>1 DEF IsOver, Terminal
  <2>3. ASSUME RowPublish(a, b)
        PROVE  IsOver(b)
    <3>1. b.state = "succeeded"
      BY <2>3, Zenon DEF RowPublish, Saved, Released, Closed, Ended, Moved, Row
    <3> QED
      BY <3>1 DEF IsOver, Terminal
  <2>4. IsOver(b)
    BY <1>1, <2>1, <2>2, <2>3
  <2> QED
    BY <2>4, FenceCloses DEF Fencing!Advance
<1>2. CASE RowAccept(a, b) \/ RowStop(a, b) \/ RowResume(a, b) \/ RowClarify(a, b) \/ RowRequeue(a, b)
  <2>1. ASSUME RowAccept(a, b)
        PROVE  b.state \in {"queued", "cancelling", "waiting"} /\ b.generation = a.generation
    <3>1. PICK s \in Sessions, t \in Nat : b = Logged(Accepted(s, t))
      BY <2>1, Zenon DEF RowAccept
    <3> DEFINE c == Accepted(s, t)
    <3>2. c.state = "queued" /\ c.generation = 0
      BY Zenon DEF Accepted, NoRow
    <3>3. c \in Row
      BY AcceptedTyped
    <3> HIDE DEF c
    <3>4. b.state = "queued" /\ b.generation = 0
      BY <3>1, <3>2, <3>3, Zenon DEF c, Logged, Row
    <3> QED
      BY <2>1, <3>4, Zenon DEF RowAccept, RowInv
  <2>2. ASSUME RowStop(a, b)
        PROVE  b.state \in {"queued", "cancelling", "waiting"} /\ b.generation = a.generation
    BY <2>2, Zenon DEF RowStop, Stopping, Logged, Moved, Row
  <2>3. ASSUME RowResume(a, b)
        PROVE  b.state \in {"queued", "cancelling", "waiting"} /\ b.generation = a.generation
    BY <2>3, Zenon DEF RowResume, Resumed, Logged, Moved, Row
  <2>4. ASSUME RowClarify(a, b)
        PROVE  b.state \in {"queued", "cancelling", "waiting"} /\ b.generation = a.generation
    <3>1. PICK p \in Process : b = Saved(Paused(a), p)
      BY <2>4, Zenon DEF RowClarify
    <3>2. Paused(a) \in Row
      BY <2>4, PausedTyped, Zenon DEF RowClarify
    <3>3. Paused(a).state = "waiting" /\ Paused(a).generation = a.generation
      BY Zenon DEF Paused, Released, Logged, Moved, Row
    <3> QED
      BY <3>1, <3>2, <3>3, Zenon DEF Saved, Row
  <2>5. ASSUME RowRequeue(a, b)
        PROVE  b.state \in {"queued", "cancelling", "waiting"} /\ b.generation = a.generation
    BY <2>5, Zenon DEF RowRequeue, Requeued, Released, Moved, Row
  <2>6. /\ b.state \in {"queued", "cancelling", "waiting"}
        /\ b.generation = a.generation
    BY <1>2, <2>1, <2>2, <2>3, <2>4, <2>5
  <2>7. a.state \in {"absent", "queued", "running", "waiting"}
    BY <1>2, Zenon DEF RowAccept, RowStop, RowResume, RowClarify, RowRequeue
  <2>8. ~IsOver(a) /\ ~IsOver(b) /\ ~IsHeld(b)
    BY <2>6, <2>7 DEF IsOver, IsHeld, Terminal
  <2> QED
    BY <2>6, <2>8, FenceKeptOrRevoked DEF Fencing!Advance
<1>3. CASE RowEmit(a, b) \/ RowBeat(a, b) \/ RowAge(a, b)
  <2>1. b.state = a.state /\ b.generation = a.generation
    BY <1>3, Zenon DEF RowEmit, RowBeat, RowAge, Aged, Logged, Row
  <2>2. ~IsOver(a)
    BY <1>3 DEF RowEmit, RowBeat, RowAge, IsActive, Active, IsOver, Terminal
  <2>3. ASSUME RowEmit(a, b)
        PROVE  IsHeld(b) => IsHeld(a)
    <3>1. b.lease = a.lease /\ b.expires = a.expires
      BY <2>3, Zenon DEF RowEmit, Logged, Row
    <3> QED
      BY <2>1, <3>1 DEF IsHeld
  <2>4. ASSUME RowBeat(a, b)
        PROVE  IsHeld(b) => IsHeld(a)
    BY <2>1, <2>4, Zenon DEF RowBeat, IsHeld
  <2>5. ASSUME RowAge(a, b)
        PROVE  IsHeld(b) => IsHeld(a)
    <3>1. b.lease = Less(a.lease) /\ b.expires = Less(a.expires)
      BY <2>5, Zenon DEF RowAge, Aged, Row
    <3>2. a.lease \in Nat /\ a.expires \in Nat
      BY Zenon DEF Row
    <3>3. (b.lease > 0 => a.lease > 0) /\ (b.expires > 0 => a.expires > 0)
      BY <3>1, <3>2, SMT DEF Less
    <3> QED
      BY <2>1, <3>3 DEF IsHeld
  <2>6. IsHeld(b) => IsHeld(a)
    BY <1>3, <2>3, <2>4, <2>5
  <2>7. ~IsOver(b)
    BY <2>1, <2>2 DEF IsOver
  <2> QED
    BY <2>1, <2>2, <2>6, <2>7, FenceKeptOrRevoked DEF Fencing!Advance
<1>4. CASE RowLease(a, b)
  <2>1. /\ b.state = "running" /\ b.generation = a.generation + 1
        /\ b.lease = Lease /\ b.expires = a.remaining - a.used
    BY <1>4, Zenon DEF RowLease, Leased, Logged, Moved, Row
  <2>2. a.remaining \in Nat /\ a.used \in Nat /\ a.lease \in Nat
    BY Zenon DEF Row
  <2>3. b.lease > 0 /\ b.expires > 0
    BY <1>4, <2>1, <2>2, TimesAssumption DEF RowLease, Exhausted
  <2>4. a.state \in {"queued", "running"} /\ a.lease = 0
    BY <1>4, Zenon DEF RowLease, Claimable
  <2>5. ~IsOver(a) /\ ~IsOver(b) /\ IsHeld(b) /\ ~IsHeld(a)
    BY <2>1, <2>2, <2>3, <2>4 DEF IsOver, IsHeld, Terminal
  <2> QED
    BY <2>1, <2>5, FenceGranted DEF Fencing!Advance
<1> QED
  BY <1>1, <1>2, <1>3, <1>4, Zenon DEF RowStep, RowChange

\* The lease protocol implements the fence its workers rely on.
THEOREM FenceRefinement == Spec => ImplementsFence
<1>1. Init => Fencing!Init
  <2> SUFFICES ASSUME Init
               PROVE  Fencing!Init
    OBVIOUS
  <2>1. \A s : NoRow(s).state = "absent" /\ NoRow(s).generation = 0
    BY Zenon DEF NoRow
  <2>2. \A s : FenceOf(NoRow(s)) = Fencing!Free
    BY <2>1, FreeFenceOf, Zenon
  <2>3. \A r \in Runs : FenceOf(run[r]) = Fencing!Free
    BY <2>2, Zenon DEF Init
  <2> QED
    BY <2>3, Zenon DEF Fencing!Init
<1>2. IInv /\ TypeOK' /\ [Next]_vars => [Fencing!Next]_([r \in Runs |-> FenceOf(run[r])])
  <2> SUFFICES ASSUME IInv, TypeOK', [Next]_vars
               PROVE  Fencing!Next
    BY Zenon
  <2>1. ASSUME NEW r \in Runs
        PROVE  \/ FenceOf(run'[r]) = FenceOf(run[r])
               \/ Fencing!Advance(FenceOf(run[r]), FenceOf(run'[r]))
    <3>1. run[r] \in Row /\ run'[r] \in Row /\ RowInv(run[r])
      BY Zenon DEF IInv, TypeOK
    <3> QED
      BY <3>1, StepOfRows, RowFences
  <2> QED
    BY <2>1, Zenon DEF Fencing!Next
<1> QED
  BY <1>1, <1>2, Invariance, TypeCorrect, PTL DEF Spec, ImplementsFence, Fencing!Spec
=============================================================================
