-------------------------- MODULE DocumentStoreProofs --------------------------
(***************************************************************************)
(* Theorems of DocumentStore for every set of versions and workers and any *)
(* limits: what is published is what the series points to, what left does  *)
(* not come back, what ended stays as it ended; what a reader is given is  *)
(* whole, what is retired is gone, and a parent task is what its children  *)
(* add up to.                                                              *)
(*                                                                         *)
(* They rest on four inductive invariants.   IInv says what the parts of   *)
(* the store know of one another: the row of a version and the pointer of  *)
(* its series (DocInv), the job and its receipts (QueueInv), the workers   *)
(* and the jobs they were given (SlotInv, GoneInv).  StoreInv says what    *)
(* the place of the holder of a lock tells of what is stored, and RunInv   *)
(* what an answer under way may rely on.  ParentInv counts the children,   *)
(* Bounds the attempts and the tasks.                                      *)
(***************************************************************************)
EXTENDS DocumentStore, SequenceTheorems, FiniteSetTheorems, TLAPS

-----------------------------------------------------------------------------
(* The inductive invariant.                                                *)

\* Attempts are any integers here: their bounds are not needed.
JobRow ==
  [state : {"none", "queued", "running"} \cup Ended, kind : {"ingest", "delete"},
   attempts : Int, token : Workers \cup {NoDoc}, lease : {"none", "live", "expired"}]

Shape ==
  /\ doc \in [Docs -> Document] /\ series \in Series /\ job \in [Docs -> JobRow]
  /\ receipt \in [Docs -> Seq(Receipt)] /\ worker \in [Workers -> Process]

DocInv(d) ==
  /\ doc[d].index = "published" <=> series.current = d /\ doc[d].verified = "yes"
  /\ doc[d].status = "absent" =>
       doc[d].index = "none" /\ doc[d].verified = "no" /\ series.current # d
  /\ doc[d].status = "absent" <=> job[d].state = "none"
  /\ doc[d].status \in {"deleting", "retired"} =>
       series.current # d /\ job[d].kind = "delete"
  /\ doc[d].status = "retired" => doc[d].index = "cleaned"

QueueInv(d) ==
  /\ job[d].state # "none" => receipt[d] # << >>
  /\ job[d].state \in {"queued", "running"} => Last(receipt[d]).state \notin Ended

SlotInv(w) ==
  /\ worker[w].pc # "idle" => worker[w].doc \in Docs
  /\ worker[w].pc \in {"check", "purge", "unlink", "retired"} => worker[w].kind = "delete"

\* Only a worker that was given the retirement can settle a retired version.
GoneInv(w) ==
  worker[w].pc # "idle" /\ Owned(w) /\ doc[worker[w].doc].status = "retired"
    => worker[w].kind = "delete"

IInv ==
  /\ Shape
  /\ \A d \in Docs : DocInv(d) /\ QueueInv(d)
  /\ \A w \in Workers : SlotInv(w) /\ GoneInv(w)

-----------------------------------------------------------------------------
(* What one step can do to a version, to its job and receipts, and to a    *)
(* worker.  The rows a and b of a version, the rows j and k of its job and *)
(* the pointers c and e of the series are those before and after the step. *)

JobKept(j, k) == k.kind = j.kind /\ (k.state = "none" <=> j.state = "none")

\* Nothing, or the pointer of the series moved between other versions.
Still(d, a, b, c, e, j, k) ==
  /\ b.status = a.status /\ b.index = a.index /\ b.verified = a.verified
  /\ e = d <=> c = d
  /\ JobKept(j, k)

\* A step of a build that does not end it well.
Working(d, a, b, c, e, j, k) ==
  /\ a.status \notin {"absent", "retired"}
  /\ b.status = a.status \/ {a.status, b.status} \subseteq {"processing", "failed"}
  /\ b.index = a.index \/ (a.index # "published" /\ b.index # "published")
  /\ b.verified = a.verified
  /\ e = c /\ JobKept(j, k)

Verified(d, a, b, c, e, j, k) ==
  /\ a.status = "processing" /\ b.status = "ready" /\ b.verified = "yes"
  /\ b.index = IF c = d THEN "published" ELSE "verified"
  /\ e = c /\ JobKept(j, k)

Gone(d, a, b, c, e, j, k) ==
  /\ a.status = "deleting" /\ b.status = "retired"
  /\ a.index = "retiring" /\ b.index = "cleaned" /\ b.verified = a.verified
  /\ e = c /\ JobKept(j, k)

Opened(d, a, b, c, e, j, k) ==
  /\ a.status = "absent" /\ b.status = "processing" /\ b.index = "building"
  /\ b.verified = a.verified /\ k.state # "none"

Chosen(d, a, b, c, e, j, k) ==
  /\ a.status = "ready" /\ b.status = "ready"
  /\ b.verified = "yes" /\ b.index = "published" /\ e = d
  /\ JobKept(j, k)

Replaced(d, a, b, c, e, j, k) ==
  /\ b.status = a.status /\ b.verified = a.verified
  /\ b.index = "superseded" /\ c = d /\ e # d
  /\ JobKept(j, k)

Retried(d, a, b, c, e, j, k) ==
  /\ a.status \in {"failed", "processing"} /\ b.status = "processing"
  /\ b.index = a.index /\ b.verified = a.verified /\ e = c /\ k.state # "none"

Leaving(d, a, b, c, e, j, k) ==
  /\ a.status \notin {"absent", "retired"}
  /\ b.status = "deleting" /\ b.index = "retiring" /\ e # d
  /\ k.state # "none" /\ k.kind = "delete"

RowStep(d, a, b, c, e, j, k) ==
  \/ Still(d, a, b, c, e, j, k) \/ Working(d, a, b, c, e, j, k)
  \/ Verified(d, a, b, c, e, j, k) \/ Gone(d, a, b, c, e, j, k)
  \/ Opened(d, a, b, c, e, j, k) \/ Chosen(d, a, b, c, e, j, k)
  \/ Replaced(d, a, b, c, e, j, k) \/ Retried(d, a, b, c, e, j, k)
  \/ Leaving(d, a, b, c, e, j, k)

DocStep(d) ==
  /\ RowStep(d, doc[d], doc'[d], series.current, series'.current, job[d], job'[d])
  /\ doc'[d].status = "retired" /\ doc[d].status # "retired" =>
       \E w \in Workers : At(w, "retired") /\ worker[w].doc = d /\ Owned(w)

\* The receipts s and t of a version whose job goes from j to k.
TrailStep(s, t, j, k) ==
  \/ t = s /\ k.state = j.state
  \/ /\ j.state \in {"queued", "running"}
     /\ k.state \in {"queued", "running"} \cup Ended
     /\ \E waiting \in Flag : t = Synced(s, k.state, waiting)
  \/ /\ k.state \in {"queued", "running"}
     /\ \E kind \in {"ingest", "delete"}, child \in Flag : t = Enqueued(s, kind, child)

QueueStep(d) == TrailStep(receipt[d], receipt'[d], job[d], job'[d])

\* The job of d is given to w.
Taken(w, d) ==
  /\ worker'[w].pc = "enter" /\ worker'[w].doc = d /\ worker'[w].kind = job[d].kind
  /\ job'[d].token = w /\ doc' = doc

OwnerStep(d) ==
  \/ job'[d].state = "running" /\ job'[d].lease = "live" =>
       job[d].state = "running" /\ job[d].lease = "live" /\ job'[d].token = job[d].token
  \/ \E w \in Workers : Taken(w, d)

SlotStep(w) ==
  \/ worker'[w].pc = "idle"
  \/ /\ worker[w].pc # "idle"
     /\ worker'[w].doc = worker[w].doc /\ worker'[w].kind = worker[w].kind
     /\ worker'[w].pc \in {"check", "purge", "unlink", "retired"} =>
          worker[w].kind = "delete"
  \/ \E d \in Docs : Taken(w, d)

StepFacts ==
  /\ Shape'
  /\ \A d \in Docs : DocStep(d) /\ QueueStep(d) /\ OwnerStep(d)
  /\ \A w \in Workers : SlotStep(w)

-----------------------------------------------------------------------------
(* Receipts.                                                               *)

ReceiptStates == {"queued", "running"} \cup Ended

LEMMA SyncedFacts ==
  ASSUME NEW s \in Seq(Receipt), s # << >>, NEW state \in ReceiptStates, NEW waiting \in Flag
  PROVE  /\ Synced(s, state, waiting) \in Seq(Receipt)
         /\ Synced(s, state, waiting) # << >>
         /\ Last(Synced(s, state, waiting)).state = state
         /\ Last(Synced(s, state, waiting)).child = Last(s).child
         /\ DOMAIN Synced(s, state, waiting) = DOMAIN s
         /\ \A i \in DOMAIN s : i # Len(s) => Synced(s, state, waiting)[i] = s[i]
<1> DEFINE n == Len(s)
           r == [s[n] EXCEPT !.state = state, !.waiting = waiting]
<1>1. n \in 1 .. Len(s) /\ s[n] \in Receipt
  BY EmptySeq, LenProperties, ElementOfSeq
<1>2. r \in Receipt /\ r.state = state /\ r.child = s[n].child
  BY <1>1 DEF Receipt, ReceiptStates
<1>3. Synced(s, state, waiting) = [s EXCEPT ![n] = r]
  BY <1>1, LenProperties DEF Synced
<1> HIDE DEF n, r
<1>4. /\ [s EXCEPT ![n] = r] \in Seq(Receipt)
      /\ Len([s EXCEPT ![n] = r]) = Len(s)
      /\ \A j \in 1 .. Len(s) : [s EXCEPT ![n] = r][j] = IF j = n THEN r ELSE s[j]
  BY <1>1, <1>2, ExceptSeq
<1>5. DOMAIN s = 1 .. Len(s) /\ DOMAIN [s EXCEPT ![n] = r] = DOMAIN s
  BY LenProperties
<1>6. n = Len(s)
  BY DEF n
<1>7. [s EXCEPT ![n] = r] # << >>
  BY <1>1, <1>4, <1>6, EmptySeq
<1> QED
  BY <1>1, <1>2, <1>3, <1>4, <1>5, <1>6, <1>7 DEF Last

LEMMA EnqueuedFacts ==
  ASSUME NEW s \in Seq(Receipt), NEW kind \in {"ingest", "delete"}, NEW child \in Flag
  PROVE  /\ Enqueued(s, kind, child) \in Seq(Receipt)
         /\ Enqueued(s, kind, child) # << >>
         /\ Last(Enqueued(s, kind, child)).state = "queued"
         /\ Last(Enqueued(s, kind, child)).child = child
         /\ Len(Enqueued(s, kind, child)) = Len(s) + 1
         /\ \A i \in DOMAIN s :
              /\ i \in DOMAIN Enqueued(s, kind, child)
              /\ s[i].state \in Ended => Enqueued(s, kind, child)[i] = s[i]
<1> DEFINE n == Len(s)
           cancel(r) == [r EXCEPT !.state = "cancelled", !.waiting = "no"]
           e(i) == IF i = n /\ s[i].state \notin Ended THEN cancel(s[i]) ELSE s[i]
           old == [i \in 1 .. n |-> e(i)]
           new == [kind |-> kind, state |-> "queued", waiting |-> "no", child |-> child]
<1>1. n \in Nat /\ DOMAIN s = 1 .. n
  BY LenProperties
<1>2. ASSUME NEW i \in 1 .. n PROVE e(i) \in Receipt
  <2>1. s[i] \in Receipt
    BY ElementOfSeq
  <2>2. cancel(s[i]) \in Receipt
    BY <2>1 DEF Receipt, Ended, Flag
  <2> QED
    BY <2>1, <2>2
<1>3. new \in Receipt /\ new.state = "queued" /\ new.child = child
  BY DEF Receipt, Flag
<1>4. Enqueued(s, kind, child) = Append(old, new)
  BY <1>1 DEF Enqueued
<1>5. old \in Seq(Receipt) /\ Len(old) = n
  <2> HIDE DEF e, n
  <2>1. old \in Seq(Receipt)
    BY <1>1, <1>2, IsASeq
  <2> QED
    BY <1>1, <2>1, LenProperties
<1>6. \A i \in 1 .. n : s[i].state \in Ended => old[i] = s[i]
  OBVIOUS
<1> DEFINE m == Len(s)
<1>9. n = m
  OBVIOUS
<1> HIDE DEF old, new, n
<1>7. /\ Append(old, new) \in Seq(Receipt)
      /\ Len(Append(old, new)) = n + 1
      /\ Append(old, new)[n + 1] = new
      /\ \A i \in 1 .. n : Append(old, new)[i] = old[i]
      /\ DOMAIN Append(old, new) = 1 .. n + 1
  BY <1>1, <1>3, <1>5, AppendProperties, LenProperties
<1>8. Append(old, new) # << >>
  BY <1>1, <1>7, EmptySeq
<1> QED
  BY <1>1, <1>3, <1>4, <1>6, <1>7, <1>8, <1>9 DEF Last

-----------------------------------------------------------------------------
(* The invariant after a step of the kinds above.                          *)

LEMMA DocInvStep ==
  ASSUME IInv, StepFacts, NEW d \in Docs
  PROVE  DocInv(d)'
<1> DEFINE a == doc[d]  b == doc'[d]  c == series.current  e == series'.current
           j == job[d]  k == job'[d]
<1>1. a \in Document /\ b \in Document /\ j \in JobRow /\ k \in JobRow
  BY Zenon DEF IInv, StepFacts, Shape
<1>2. DocInv(d) /\ RowStep(d, a, b, c, e, j, k)
  BY Zenon DEF IInv, StepFacts, DocStep
<1>3. /\ a.index = "published" <=> c = d /\ a.verified = "yes"
      /\ a.status = "absent" => a.index = "none" /\ a.verified = "no" /\ c # d
      /\ a.status = "absent" <=> j.state = "none"
      /\ a.status \in {"deleting", "retired"} => c # d /\ j.kind = "delete"
      /\ a.status = "retired" => a.index = "cleaned"
  BY <1>2, Zenon DEF DocInv
<1> SUFFICES
      /\ b.index = "published" <=> e = d /\ b.verified = "yes"
      /\ b.status = "absent" => b.index = "none" /\ b.verified = "no" /\ e # d
      /\ b.status = "absent" <=> k.state = "none"
      /\ b.status \in {"deleting", "retired"} => e # d /\ k.kind = "delete"
      /\ b.status = "retired" => b.index = "cleaned"
  BY Zenon DEF DocInv
<1> HIDE DEF a, b, c, e, j, k
<1>4. CASE Still(d, a, b, c, e, j, k)
  BY <1>3, <1>4 DEF Still, JobKept
<1>5. CASE Working(d, a, b, c, e, j, k)
  BY <1>3, <1>5 DEF Working, JobKept
<1>6. CASE Verified(d, a, b, c, e, j, k)
  BY <1>3, <1>6 DEF Verified, JobKept
<1>7. CASE Gone(d, a, b, c, e, j, k)
  BY <1>3, <1>7 DEF Gone, JobKept
<1>8. CASE Opened(d, a, b, c, e, j, k)
  BY <1>3, <1>8 DEF Opened
<1>9. CASE Chosen(d, a, b, c, e, j, k)
  BY <1>3, <1>9 DEF Chosen, JobKept
<1>10. CASE Replaced(d, a, b, c, e, j, k)
  BY <1>3, <1>10 DEF Replaced, JobKept
<1>11. CASE Retried(d, a, b, c, e, j, k)
  BY <1>3, <1>11 DEF Retried
<1>12. CASE Leaving(d, a, b, c, e, j, k)
  BY <1>3, <1>12 DEF Leaving
<1> QED
  BY <1>2, <1>4, <1>5, <1>6, <1>7, <1>8, <1>9, <1>10, <1>11, <1>12 DEF RowStep

LEMMA QueueInvStep ==
  ASSUME IInv, StepFacts, NEW d \in Docs
  PROVE  QueueInv(d)'
<1> DEFINE s == receipt[d]  t == receipt'[d]  j == job[d]  k == job'[d]
<1>1. s \in Seq(Receipt) /\ k.state \in {"none", "queued", "running"} \cup Ended
  BY Zenon DEF IInv, StepFacts, Shape, JobRow
<1>2. TrailStep(s, t, j, k)
  BY Zenon DEF StepFacts, QueueStep
<1>3. /\ j.state # "none" => s # << >>
      /\ j.state \in {"queued", "running"} => Last(s).state \notin Ended
  BY Zenon DEF IInv, QueueInv
<1> SUFFICES /\ k.state # "none" => t # << >>
             /\ k.state \in {"queued", "running"} => Last(t).state \notin Ended
  BY Zenon DEF QueueInv
<1> HIDE DEF s, t, j, k
<1>4. CASE t = s /\ k.state = j.state
  BY <1>3, <1>4
<1>5. CASE /\ j.state \in {"queued", "running"}
           /\ k.state \in {"queued", "running"} \cup Ended
           /\ \E waiting \in Flag : t = Synced(s, k.state, waiting)
  <2>1. PICK waiting \in Flag : t = Synced(s, k.state, waiting)
    BY <1>5
  <2>2. t # << >> /\ Last(t).state = k.state
    BY <1>1, <1>3, <1>5, <2>1, SyncedFacts, ZenonT(60) DEF ReceiptStates
  <2> QED
    BY <2>2 DEF Ended
<1>6. CASE \E kind \in {"ingest", "delete"}, child \in Flag : t = Enqueued(s, kind, child)
  BY <1>1, <1>6, EnqueuedFacts, SMTT(60) DEF Ended
<1> QED
  BY <1>2, <1>4, <1>5, <1>6 DEF TrailStep

LEMMA SlotInvStep ==
  ASSUME IInv, StepFacts, NEW w \in Workers
  PROVE  SlotInv(w)'
<1>1. SlotInv(w) /\ SlotStep(w)
  BY Zenon DEF IInv, StepFacts
<1>2. CASE worker'[w].pc = "idle"
  BY <1>2 DEF SlotInv
<1>3. CASE \E d \in Docs : Taken(w, d)
  BY <1>3 DEF SlotInv, Taken
<1>4. CASE /\ worker[w].pc # "idle"
           /\ worker'[w].doc = worker[w].doc /\ worker'[w].kind = worker[w].kind
           /\ worker'[w].pc \in {"check", "purge", "unlink", "retired"} =>
                worker[w].kind = "delete"
  BY <1>1, <1>4 DEF SlotInv
<1> QED
  BY <1>1, <1>2, <1>3, <1>4 DEF SlotStep

LEMMA GoneInvStep ==
  ASSUME IInv, StepFacts, NEW w \in Workers
  PROVE  GoneInv(w)'
<1> DEFINE x == worker'[w].doc
<1> SUFFICES ASSUME worker'[w].pc # "idle", doc'[x].status = "retired",
                    job'[x].state = "running", job'[x].token = w, job'[x].lease = "live"
             PROVE  worker'[w].kind = "delete"
  BY Zenon DEF GoneInv, Owned
<1>1. x \in Docs
  BY SlotInvStep, Zenon DEF SlotInv
<1>2. ASSUME NEW d \in Docs, Taken(w, d)
      PROVE  worker'[w].kind = "delete"
  <2>1. d = x /\ doc[x].status = "retired" /\ worker'[w].kind = job[x].kind
    BY <1>2, Zenon DEF Taken
  <2>2. DocInv(x)
    BY <1>1, Zenon DEF IInv
  <2> QED
    BY <2>1, <2>2 DEF DocInv
<1>3. CASE \E v \in Workers : Taken(v, x)
  BY <1>1, <1>2, <1>3, Zenon DEF Taken
<1>4. CASE ~\E v \in Workers : Taken(v, x)
  <2>1. job[x].state = "running" /\ job[x].lease = "live" /\ job[x].token = w
    BY <1>1, <1>4, Zenon DEF StepFacts, OwnerStep
  <2>2. \/ \E d \in Docs : Taken(w, d)
        \/ worker[w].pc # "idle" /\ worker[w].doc = x /\ worker'[w].kind = worker[w].kind
    BY Zenon DEF StepFacts, SlotStep
  <2>3. ASSUME worker[w].pc # "idle", worker[w].doc = x, worker'[w].kind = worker[w].kind
        PROVE  worker'[w].kind = "delete"
    <3>1. Owned(w)
      BY <2>1, <2>3, Zenon DEF Owned
    <3>2. CASE doc[x].status = "retired"
      BY <2>3, <3>1, <3>2, Zenon DEF IInv, GoneInv
    <3>3. CASE doc[x].status # "retired"
      <4>1. PICK v \in Workers : At(v, "retired") /\ worker[v].doc = x /\ Owned(v)
        BY <1>1, <3>3, Zenon DEF StepFacts, DocStep
      <4>2. v = w
        BY <2>1, <4>1, Zenon DEF Owned
      <4>3. SlotInv(w)
        BY Zenon DEF IInv
      <4> QED
        BY <2>3, <4>1, <4>2, <4>3 DEF SlotInv, At
    <3> QED
      BY <3>2, <3>3
  <2> QED
    BY <1>2, <2>2, <2>3
<1> QED
  BY <1>3, <1>4

\* Each kind of step keeps the invariant.
LEMMA InvStep ==
  ASSUME IInv, StepFacts
  PROVE  IInv'
<1>1. Shape'
  BY DEF StepFacts
<1> QED
  BY <1>1, DocInvStep, QueueInvStep, SlotInvStep, GoneInvStep, Zenon DEF IInv

-----------------------------------------------------------------------------
(* What a step does to the workers.                                        *)

Slots == worker' \in [Workers -> Process] /\ \A v \in Workers : SlotStep(v)

\* The places of a worker that has gone as far as the clean-up of a retirement.
Cleaning == {"check", "purge", "unlink", "retired"}

LEMMA SameSlots ==
  ASSUME IInv, worker' = worker
  PROVE  Slots
<1>1. worker' \in [Workers -> Process]
  BY Zenon DEF IInv, Shape
<1>2. ASSUME NEW v \in Workers PROVE SlotStep(v)
  <2>1. SlotInv(v)
    BY Zenon DEF IInv
  <2> QED
    BY <2>1 DEF SlotInv, SlotStep
<1> QED
  BY <1>1, <1>2 DEF Slots

LEMMA MovedSlots ==
  ASSUME IInv, NEW w \in Workers, NEW p \in Process, worker' = [worker EXCEPT ![w] = p],
         \/ p.pc = "idle"
         \/ /\ worker[w].pc # "idle" /\ p.doc = worker[w].doc /\ p.kind = worker[w].kind
            /\ p.pc \in Cleaning => worker[w].kind = "delete"
  PROVE  Slots
<1>1. worker \in [Workers -> Process]
  BY Zenon DEF IInv, Shape
<1>2. worker' \in [Workers -> Process] /\ worker'[w] = p
  BY <1>1, Zenon
<1>3. ASSUME NEW v \in Workers PROVE SlotStep(v)
  <2>1. SlotInv(v)
    BY Zenon DEF IInv
  <2>2. CASE v = w
    BY <1>2, <2>2 DEF SlotStep, Cleaning
  <2>3. CASE v # w
    <3>1. worker'[v] = worker[v]
      BY <1>1, <2>3, Zenon
    <3> QED
      BY <2>1, <3>1 DEF SlotInv, SlotStep
  <2> QED
    BY <2>2, <2>3
<1> QED
  BY <1>2, <1>3 DEF Slots

LEMMA LeaveSlots ==
  ASSUME IInv, NEW w \in Workers, Leave(w)
  PROVE  Slots
<1>1. Idle \in Process /\ Idle.pc = "idle"
  BY DEF Idle, Process, Flag
<1>2. worker' = [worker EXCEPT ![w] = Idle]
  BY DEF Leave
<1> HIDE DEF Idle
<1> QED
  BY <1>1, <1>2, MovedSlots

LEMMA GotoSlots ==
  ASSUME IInv, NEW w \in Workers, worker[w].pc # "idle",
         NEW pc \in Outside \cup {"enter", "start", "build", "verify", "ready", "mark",
                                  "check", "retired", "finish"},
         pc \in Cleaning => worker[w].kind = "delete", Goto(w, pc)
  PROVE  Slots
<1> DEFINE p == [worker[w] EXCEPT !.pc = pc]
<1>1. worker[w] \in Process
  BY Zenon DEF IInv, Shape
<1>2. p \in Process /\ p.pc = pc /\ p.doc = worker[w].doc /\ p.kind = worker[w].kind
  BY <1>1 DEF Process
<1>3. worker' = [worker EXCEPT ![w] = p]
  BY DEF Goto
<1> HIDE DEF p
<1> QED
  BY <1>2, <1>3, MovedSlots

LEMMA StopSlots ==
  ASSUME IInv, NEW w \in Workers, worker[w].pc # "idle",
         NEW e \in {"none", "retryable", "final", "pinned"}, Stop(w, e)
  PROVE  Slots
<1> DEFINE p == [worker[w] EXCEPT !.pc = "finish", !.error = e]
<1>1. worker[w] \in Process /\ worker \in [Workers -> Process]
  BY Zenon DEF IInv, Shape
<1>2. p \in Process /\ p.pc = "finish" /\ p.doc = worker[w].doc /\ p.kind = worker[w].kind
  BY <1>1 DEF Process
<1>3. worker' = [worker EXCEPT ![w] = p]
  BY <1>1 DEF Stop
<1> HIDE DEF p
<1> QED
  BY <1>2, <1>3, MovedSlots DEF Cleaning

LEMMA FailingSlots ==
  ASSUME IInv, NEW w \in Workers, worker[w].pc # "idle",
         NEW e \in {"retryable", "final"}, Failing(w, e)
  PROVE  Slots
<1> DEFINE x == worker[w].doc
           pc == IF doc[x].status # "processing" THEN "finish"
                 ELSE IF doc[x].index \in Immutable THEN "mark" ELSE "failwipe"
           p == [worker[w] EXCEPT !.pc = pc, !.error = e]
<1>1. worker[w] \in Process /\ worker \in [Workers -> Process]
  BY Zenon DEF IInv, Shape
<1>2. pc \in {"finish", "mark", "failwipe"}
  OBVIOUS
<1>3. worker' = [worker EXCEPT ![w] = p]
  BY <1>1 DEF Failing
<1> HIDE DEF pc
<1>4. p \in Process /\ p.pc = pc /\ p.doc = worker[w].doc /\ p.kind = worker[w].kind
  BY <1>1, <1>2 DEF Process, Outside
<1> HIDE DEF p
<1> QED
  BY <1>2, <1>3, <1>4, MovedSlots DEF Cleaning

LEMMA AfterwardsSlots ==
  ASSUME IInv, NEW w \in Workers, worker[w].pc # "idle",
         NEW pc \in Outside \cup {"enter", "start", "build", "verify", "ready", "mark",
                                  "check", "retired", "finish"},
         pc \in Cleaning => worker[w].kind = "delete", Afterwards(w, pc)
  PROVE  Slots
BY LeaveSlots, GotoSlots, Zenon DEF Afterwards

-----------------------------------------------------------------------------
(* Steps that leave the database alone.                                    *)

\* Nothing happens to a version whose rows, job and receipts stay.
LEMMA SameRows ==
  ASSUME NEW d \in Docs, doc'[d] = doc[d], series'.current = d <=> series.current = d,
         job'[d] = job[d], receipt'[d] = receipt[d]
  PROVE  DocStep(d) /\ QueueStep(d) /\ OwnerStep(d)
BY DEF DocStep, RowStep, Still, JobKept, QueueStep, TrailStep, OwnerStep

LEMMA QuietStep ==
  ASSUME IInv, UNCHANGED <<doc, series, job, receipt>>, Slots
  PROVE  StepFacts
<1>1. Shape'
  BY Zenon DEF IInv, Shape, Slots
<1> QED
  BY <1>1, SameRows DEF StepFacts, Slots

LEMMA QuietActions ==
  ASSUME IInv, NEW w \in Workers,
         \/ Enter(w) \/ Wipe(w) \/ Write(w) \/ Verify(w) \/ FailWipe(w)
         \/ Purge(w) \/ Unlink(w) \/ Abandon(w) \/ Crash(w) \/ LoseLock(w)
         \/ \E e \in {"retryable", "final"} : BuildFails(w, e) \/ StepFails(w, e)
  PROVE  StepFacts
<1>1. worker \in [Workers -> Process] /\ worker[w] \in Process /\ SlotInv(w)
  BY Zenon DEF IInv, Shape
<1>2. CASE Enter(w)
  <2> DEFINE first == IF worker[w].exhausted = "yes" THEN "finish"
                      ELSE IF worker[w].kind = "delete" THEN "check" ELSE "start"
             p == [worker[w] EXCEPT !.pc = first, !.lock = "yes", !.fresh = "no"]
  <2>1. CASE Owned(w)
    <3>1. worker[w].pc = "enter" /\ worker' = [worker EXCEPT ![w] = p]
      BY <1>1, <1>2, <2>1 DEF Enter, At
    <3>2. /\ first \in {"finish", "check", "start"}
          /\ first = "check" => worker[w].kind = "delete"
      OBVIOUS
    <3> HIDE DEF first
    <3>3. p \in Process /\ p.pc = first /\ p.doc = worker[w].doc /\ p.kind = worker[w].kind
      BY <1>1, <3>2, ZenonT(60) DEF Process, Flag
    <3> HIDE DEF p
    <3>4. Slots
      BY <3>1, <3>2, <3>3, MovedSlots DEF Cleaning
    <3> QED
      BY <1>2, <3>4, QuietStep, Zenon DEF Enter, data
  <2>2. CASE ~Owned(w)
    BY <1>2, <2>2, LeaveSlots, QuietStep, Zenon DEF Enter, data
  <2> QED
    BY <2>1, <2>2
<1>3. CASE Wipe(w)
  <2>1. CASE Held(w)
    <3> DEFINE p == [worker[w] EXCEPT !.pc = "write", !.batch = 1]
    <3>1. worker[w].pc = "wipe" /\ worker' = [worker EXCEPT ![w] = p]
      BY <1>1, <1>3, <2>1 DEF Wipe, At
    <3>2. p \in Process /\ p.pc = "write" /\ p.doc = worker[w].doc /\ p.kind = worker[w].kind
      BY <1>1 DEF Process, Outside
    <3> HIDE DEF p
    <3>3. Slots
      BY <3>1, <3>2, MovedSlots DEF Cleaning
    <3> QED
      BY <1>3, <3>3, QuietStep, Zenon DEF Wipe
  <2>2. CASE ~Held(w)
    BY <1>3, <2>2, LeaveSlots, QuietStep, Zenon DEF Wipe
  <2> QED
    BY <2>1, <2>2
<1>4. CASE Write(w)
  <2>1. worker[w].pc = "write"
    BY <1>4, Zenon DEF Write, At
  <2>2. CASE ~Held(w)
    BY <1>4, <2>2, LeaveSlots, QuietStep, Zenon DEF Write
  <2>3. CASE Held(w) /\ worker[w].batch + 1 \in Batches
    <3> DEFINE p == [worker[w] EXCEPT !.batch = worker[w].batch + 1]
    <3>1. worker' = [worker EXCEPT ![w] = p]
      BY <1>1, <1>4, <2>3 DEF Write
    <3>2. p \in Process /\ p.pc = "write" /\ p.doc = worker[w].doc /\ p.kind = worker[w].kind
      BY <1>1, <2>1 DEF Process, Outside
    <3> HIDE DEF p
    <3>3. Slots
      BY <2>1, <3>1, <3>2, MovedSlots DEF Cleaning
    <3> QED
      BY <1>4, <3>3, QuietStep, Zenon DEF Write
  <2>4. CASE Held(w) /\ worker[w].batch + 1 \notin Batches
    <3>1. Goto(w, "verify")
      BY <1>4, <2>4 DEF Write
    <3>2. Slots
      BY <2>1, <3>1, GotoSlots DEF Cleaning
    <3> QED
      BY <1>4, <3>2, QuietStep, Zenon DEF Write
  <2> QED
    BY <2>2, <2>3, <2>4
<1>5. CASE Verify(w)
  <2>1. worker[w].pc # "idle" /\ (Goto(w, "ready") \/ Failing(w, "final"))
    BY <1>5 DEF Verify, At
  <2>2. Slots
    BY <2>1, GotoSlots, FailingSlots DEF Cleaning
  <2> QED
    BY <1>5, <2>2, QuietStep, Zenon DEF Verify, data
<1>6. CASE FailWipe(w)
  <2>1. worker[w].pc # "idle" /\ Afterwards(w, "mark")
    BY <1>6 DEF FailWipe, At
  <2>2. Slots
    BY <2>1, AfterwardsSlots DEF Cleaning
  <2> QED
    BY <1>6, <2>2, QuietStep, Zenon DEF FailWipe
<1>7. CASE Purge(w)
  <2>1. worker[w].pc = "purge" /\ Afterwards(w, "unlink")
    BY <1>7 DEF Purge, At
  <2>2. Slots
    BY <1>1, <2>1, AfterwardsSlots DEF SlotInv, Outside
  <2> QED
    BY <1>7, <2>2, QuietStep, Zenon DEF Purge
<1>8. CASE Unlink(w)
  <2>1. worker[w].pc = "unlink" /\ Afterwards(w, "retired")
    BY <1>8 DEF Unlink, At
  <2>2. Slots
    BY <1>1, <2>1, AfterwardsSlots DEF SlotInv
  <2> QED
    BY <1>8, <2>2, QuietStep, Zenon DEF Unlink
<1>9. CASE Abandon(w)
  BY <1>9, LeaveSlots, QuietStep, Zenon DEF Abandon, data
<1>10. CASE Crash(w)
  BY <1>10, LeaveSlots, QuietStep, Zenon DEF Crash, data
<1>11. CASE LoseLock(w)
  <2> DEFINE p == [worker[w] EXCEPT !.lock = "no"]
  <2>1. worker' = [worker EXCEPT ![w] = p]
    BY <1>11, Zenon DEF LoseLock
  <2>2. p \in Process /\ p.pc = worker[w].pc /\ p.doc = worker[w].doc /\ p.kind = worker[w].kind
    BY <1>1 DEF Process, Flag
  <2> HIDE DEF p
  <2>3. Slots
    BY <1>1, <2>1, <2>2, MovedSlots DEF SlotInv, Cleaning
  <2> QED
    BY <1>11, <2>3, QuietStep, Zenon DEF LoseLock, data
<1>12. ASSUME NEW e \in {"retryable", "final"}, BuildFails(w, e)
       PROVE  StepFacts
  <2>1. worker[w].pc # "idle" /\ Failing(w, e)
    BY <1>12 DEF BuildFails, At
  <2>2. Slots
    BY <2>1, FailingSlots
  <2> QED
    BY <1>12, <2>2, QuietStep, Zenon DEF BuildFails, data
<1>13. ASSUME NEW e \in {"retryable", "final"}, StepFails(w, e)
       PROVE  StepFacts
  <2>1. worker[w].pc # "idle" /\ Stop(w, e)
    BY <1>13 DEF StepFails, At
  <2>2. Slots
    BY <2>1, StopSlots
  <2> QED
    BY <1>13, <2>2, QuietStep, Zenon DEF StepFails, data
<1> QED
  BY <1>2, <1>3, <1>4, <1>5, <1>6, <1>7, <1>8, <1>9, <1>10, <1>11, <1>12, <1>13

LEMMA ReaderActions ==
  ASSUME IInv, Reader \/ UNCHANGED vars
  PROVE  StepFacts
<1>1. UNCHANGED <<doc, series, job, receipt>> /\ worker' = worker
  BY Zenon DEF Reader, Pin, Lapse, ClaimRun, Validate, Search, Answer, EndRun, data, vars
<1> QED
  BY <1>1, SameSlots, QuietStep

-----------------------------------------------------------------------------
(* Steps of a worker that change the row of its version.                   *)

LEMMA RowOnly ==
  ASSUME IInv, UNCHANGED <<series, job, receipt>>, Slots,
         NEW x \in Docs, NEW b \in Document, doc' = [doc EXCEPT ![x] = b],
         RowStep(x, doc[x], b, series.current, series.current, job[x], job[x]),
         b.status = "retired" /\ doc[x].status # "retired" =>
           \E w \in Workers : At(w, "retired") /\ worker[w].doc = x /\ Owned(w)
  PROVE  StepFacts
<1>1. doc \in [Docs -> Document]
  BY Zenon DEF IInv, Shape
<1>2. Shape'
  BY <1>1, Zenon DEF IInv, Shape, Slots
<1>3. ASSUME NEW d \in Docs PROVE DocStep(d) /\ QueueStep(d) /\ OwnerStep(d)
  <2>1. CASE d = x
    <3>1. doc'[d] = b /\ series' = series /\ job' = job /\ receipt' = receipt
      BY <1>1, <2>1, Zenon
    <3>2. DocStep(d)
      BY <2>1, <3>1, Zenon DEF DocStep
    <3> QED
      BY <3>1, <3>2 DEF QueueStep, TrailStep, OwnerStep
  <2>2. CASE d # x
    <3>1. doc'[d] = doc[d]
      BY <1>1, <2>2, Zenon
    <3> QED
      BY <3>1, SameRows
  <2> QED
    BY <2>1, <2>2
<1> QED
  BY <1>2, <1>3 DEF StepFacts, Slots

\* What a worker knows of its version while the guard lets it go on.
LEMMA HeldFacts ==
  ASSUME IInv, NEW w \in Workers, worker[w].pc # "idle", Owned(w)
  PROVE  /\ worker[w].doc \in Docs /\ doc[worker[w].doc] \in Document
         /\ job[worker[w].doc].state = "running"
         /\ DocInv(worker[w].doc) /\ doc[worker[w].doc].status # "absent"
<1>1. worker[w].doc \in Docs
  BY Zenon DEF IInv, SlotInv
<1>2. doc[worker[w].doc] \in Document /\ DocInv(worker[w].doc)
  BY <1>1, Zenon DEF IInv, Shape
<1>3. job[worker[w].doc].state = "running"
  BY Zenon DEF Owned
<1> QED
  BY <1>1, <1>2, <1>3 DEF DocInv

LEMMA StartStep ==
  ASSUME IInv, NEW w \in Workers, Start(w)
  PROVE  StepFacts
<1> DEFINE x == worker[w].doc
           b == [doc[x] EXCEPT !.status = "processing", !.retry = "no"]
<1>1. /\ worker[w].pc # "idle" /\ Owned(w)
      /\ UNCHANGED <<series, job, receipt>>
  BY DEF Start, At, Held
<1>2. Slots
  <2>1. Stop(w, "final") \/ Goto(w, "build") \/ Goto(w, "finish")
    BY Zenon DEF Start
  <2> QED
    BY <1>1, <2>1, StopSlots, GotoSlots DEF Cleaning
<1>3. CASE doc' = doc
  BY <1>1, <1>2, <1>3, QuietStep
<1>4. CASE doc' # doc
  <2>1. doc \in [Docs -> Document]
    BY Zenon DEF IInv, Shape
  <2>2. doc[x].status = "failed" /\ doc' = [doc EXCEPT ![x] = b]
    BY <1>1, <1>4, <2>1, HeldFacts DEF Start
  <2>3. /\ x \in Docs /\ b \in Document /\ b.status = "processing"
        /\ b.index = doc[x].index /\ b.verified = doc[x].verified
    BY <1>1, HeldFacts DEF Document, Flag
  <2> HIDE DEF b, x
  <2>4. Working(x, doc[x], b, series.current, series.current, job[x], job[x])
    BY <2>2, <2>3 DEF Working, JobKept
  <2> QED
    BY <1>1, <1>2, <2>2, <2>3, <2>4, RowOnly DEF RowStep
<1> QED
  BY <1>3, <1>4

LEMMA BuildStep ==
  ASSUME IInv, NEW w \in Workers, Build(w)
  PROVE  StepFacts
<1> DEFINE x == worker[w].doc
           b == [doc[x] EXCEPT !.index = "building"]
<1>1. /\ worker[w].pc # "idle" /\ Owned(w)
      /\ UNCHANGED <<series, job, receipt>>
  BY DEF Build, At, Held
<1>2. Slots
  <2>1. Failing(w, "final") \/ Goto(w, "wipe")
    BY Zenon DEF Build
  <2> QED
    BY <1>1, <2>1, FailingSlots, GotoSlots DEF Cleaning, Outside
<1>3. CASE doc' = doc
  BY <1>1, <1>2, <1>3, QuietStep
<1>4. CASE doc' # doc
  <2>1. doc[x].index \notin Immutable /\ doc' = [doc EXCEPT ![x] = b]
    BY <1>4, Zenon DEF Build
  <2>2. /\ x \in Docs /\ b \in Document /\ b.status = doc[x].status
        /\ b.index = "building" /\ b.verified = doc[x].verified
    BY <1>1, HeldFacts DEF Document
  <2>3. doc[x].status \notin {"absent", "retired"} /\ doc[x].index # "published"
    BY <1>1, <2>1, HeldFacts DEF DocInv, Immutable
  <2> HIDE DEF b, x
  <2>4. Working(x, doc[x], b, series.current, series.current, job[x], job[x])
    BY <2>2, <2>3 DEF Working, JobKept
  <2> QED
    BY <1>1, <1>2, <2>1, <2>2, <2>3, <2>4, RowOnly DEF RowStep
<1> QED
  BY <1>3, <1>4

LEMMA ReadyStep ==
  ASSUME IInv, NEW w \in Workers, Ready(w)
  PROVE  StepFacts
<1> DEFINE x == worker[w].doc
           index == IF series.current = x THEN "published" ELSE "verified"
           b == [doc[x] EXCEPT !.status = "ready", !.verified = "yes", !.index = index]
<1>1. /\ worker[w].pc # "idle" /\ Owned(w)
      /\ UNCHANGED <<series, job, receipt>>
  BY DEF Ready, At, Held
<1>2. Slots
  <2>1. Goto(w, "finish")
    BY Zenon DEF Ready
  <2> QED
    BY <1>1, <2>1, GotoSlots DEF Cleaning
<1>3. CASE doc' = doc
  BY <1>1, <1>2, <1>3, QuietStep
<1>4. CASE doc' # doc
  <2>1. doc \in [Docs -> Document] /\ x \in Docs /\ doc[x] \in Document
    BY <1>1, HeldFacts, Zenon DEF IInv, Shape
  <2>2. doc[x].status = "processing" /\ doc' = [doc EXCEPT ![x] = b]
    BY <1>4, <2>1 DEF Ready
  <2>3. /\ b \in Document /\ b.status = "ready"
        /\ b.index = index /\ b.verified = "yes"
    BY <2>1 DEF Document, Flag
  <2> HIDE DEF b, x
  <2>4. Verified(x, doc[x], b, series.current, series.current, job[x], job[x])
    BY <2>2, <2>3 DEF Verified, JobKept
  <2> QED
    BY <1>1, <1>2, <2>1, <2>2, <2>3, <2>4, RowOnly DEF RowStep
<1> QED
  BY <1>3, <1>4

LEMMA MarkStep ==
  ASSUME IInv, NEW w \in Workers, Mark(w)
  PROVE  StepFacts
<1> DEFINE x == worker[w].doc
           retry == IF worker[w].error = "retryable" THEN "yes" ELSE "no"
           index == IF doc[x].index \in Immutable THEN doc[x].index ELSE "failed"
           b == [doc[x] EXCEPT !.status = "failed", !.retry = retry, !.index = index]
<1>1. /\ worker[w].pc # "idle" /\ Owned(w)
      /\ UNCHANGED <<series, job, receipt>>
  BY DEF Mark, At, Held
<1>2. Slots
  <2>1. Goto(w, "finish")
    BY Zenon DEF Mark
  <2> QED
    BY <1>1, <2>1, GotoSlots DEF Cleaning
<1>3. CASE doc' = doc
  BY <1>1, <1>2, <1>3, QuietStep
<1>4. CASE doc' # doc
  <2>1. doc \in [Docs -> Document] /\ x \in Docs /\ doc[x] \in Document
    BY <1>1, HeldFacts, Zenon DEF IInv, Shape
  <2>2. doc[x].status = "processing" /\ doc' = [doc EXCEPT ![x] = b]
    BY <1>4, <2>1 DEF Mark
  <2>3. /\ retry \in Flag
        /\ index = doc[x].index \/ (index = "failed" /\ doc[x].index # "published")
    BY DEF Flag, Immutable
  <2> HIDE DEF retry, index
  <2>4. /\ b \in Document /\ b.status = "failed"
        /\ b.index = index /\ b.verified = doc[x].verified
    BY <2>1, <2>3 DEF Document, Flag
  <2> HIDE DEF b, x
  <2>5. Working(x, doc[x], b, series.current, series.current, job[x], job[x])
    BY <2>2, <2>3, <2>4 DEF Working, JobKept
  <2> QED
    BY <1>1, <1>2, <2>1, <2>2, <2>4, <2>5, RowOnly DEF RowStep
<1> QED
  BY <1>3, <1>4

LEMMA RetiredStep ==
  ASSUME IInv, NEW w \in Workers, Retired(w)
  PROVE  StepFacts
<1> DEFINE x == worker[w].doc
           b == [doc[x] EXCEPT !.status = "retired", !.index = "cleaned"]
<1>1. /\ worker[w].pc # "idle" /\ At(w, "retired") /\ Owned(w)
      /\ UNCHANGED <<series, job, receipt>>
  BY DEF Retired, At, Held
<1>2. Slots
  <2>1. Goto(w, "finish")
    BY Zenon DEF Retired
  <2> QED
    BY <1>1, <2>1, GotoSlots DEF Cleaning
<1>3. doc \in [Docs -> Document] /\ x \in Docs /\ doc[x] \in Document
  BY <1>1, HeldFacts, Zenon DEF IInv, Shape
<1>4. /\ doc[x].status = "deleting" /\ doc[x].index = "retiring"
      /\ doc' = [doc EXCEPT ![x] = b]
  BY <1>3 DEF Retired
<1>5. /\ b \in Document /\ b.status = "retired"
      /\ b.index = "cleaned" /\ b.verified = doc[x].verified
  BY <1>3 DEF Document
<1> HIDE DEF b
<1>6. Gone(x, doc[x], b, series.current, series.current, job[x], job[x])
  BY <1>4, <1>5 DEF Gone, JobKept
<1> QED
  BY <1>1, <1>2, <1>3, <1>4, <1>5, <1>6, RowOnly, Zenon DEF RowStep

-----------------------------------------------------------------------------
(* Steps that change one version together with its job and receipts.       *)

LEMMA OneVersion ==
  ASSUME IInv, Slots, NEW x \in Docs, NEW b \in Document, NEW k \in JobRow,
         NEW t \in Seq(Receipt), series' \in Series,
         \A v \in Docs : v # x => (series'.current = v <=> series.current = v),
         doc' = [doc EXCEPT ![x] = b], job' = [job EXCEPT ![x] = k],
         receipt' = [receipt EXCEPT ![x] = t],
         RowStep(x, doc[x], b, series.current, series'.current, job[x], k),
         b.status = "retired" => doc[x].status = "retired",
         TrailStep(receipt[x], t, job[x], k), OwnerStep(x)
  PROVE  StepFacts
<1>1. /\ doc \in [Docs -> Document] /\ job \in [Docs -> JobRow]
      /\ receipt \in [Docs -> Seq(Receipt)]
  BY Zenon DEF IInv, Shape
<1>2. Shape'
  BY <1>1, Zenon DEF Shape, Slots
<1>3. ASSUME NEW d \in Docs PROVE DocStep(d) /\ QueueStep(d) /\ OwnerStep(d)
  <2>1. CASE d = x
    <3>1. doc'[d] = b /\ job'[d] = k /\ receipt'[d] = t
      BY <1>1, <2>1, Zenon
    <3>2. DocStep(d)
      BY <2>1, <3>1, Zenon DEF DocStep
    <3> QED
      BY <2>1, <3>1, <3>2, Zenon DEF QueueStep
  <2>2. CASE d # x
    <3>1. doc'[d] = doc[d] /\ job'[d] = job[d] /\ receipt'[d] = receipt[d]
      BY <1>1, <2>2, Zenon
    <3> QED
      BY <2>2, <3>1, SameRows
  <2> QED
    BY <2>1, <2>2
<1> QED
  BY <1>2, <1>3 DEF StepFacts, Slots

\* The current receipt follows the job.
LEMMA SyncFacts ==
  ASSUME IInv, NEW x \in Docs, job[x].state \in {"queued", "running"},
         NEW state \in ReceiptStates, NEW waiting \in Flag, Sync(x, state, waiting)
  PROVE  \E t \in Seq(Receipt) :
           t = Synced(receipt[x], state, waiting) /\ receipt' = [receipt EXCEPT ![x] = t]
<1>1. receipt[x] \in Seq(Receipt) /\ receipt[x] # << >>
  BY Zenon DEF IInv, Shape, QueueInv
<1>2. receipt' = [receipt EXCEPT ![x] = Synced(receipt[x], state, waiting)]
  BY Zenon DEF Sync
<1> QED
  BY <1>1, <1>2, SyncedFacts

\* Only the job and its receipt move: the queue's own steps.
LEMMA QueueOnly ==
  ASSUME IInv, Slots, UNCHANGED <<doc, series>>, NEW x \in Docs, NEW k \in JobRow,
         NEW t \in Seq(Receipt), job' = [job EXCEPT ![x] = k],
         receipt' = [receipt EXCEPT ![x] = t], JobKept(job[x], k),
         TrailStep(receipt[x], t, job[x], k), OwnerStep(x)
  PROVE  StepFacts
<1>1. doc \in [Docs -> Document] /\ doc[x] \in Document /\ series \in Series
  BY Zenon DEF IInv, Shape
<1>2. doc' = [doc EXCEPT ![x] = doc[x]]
  BY <1>1, Zenon
<1>3. RowStep(x, doc[x], doc[x], series.current, series'.current, job[x], k)
  BY DEF RowStep, Still
<1> QED
  BY <1>1, <1>2, <1>3, OneVersion

LEMMA LeaseSteps ==
  ASSUME IInv, NEW x \in Docs, job[x].state = "running",
         job' = [job EXCEPT ![x].lease = "expired"],
         UNCHANGED <<doc, series, receipt, worker>>
  PROVE  StepFacts
<1> DEFINE k == [job[x] EXCEPT !.lease = "expired"]
<1>1. job \in [Docs -> JobRow] /\ job[x] \in JobRow /\ receipt \in [Docs -> Seq(Receipt)]
  BY Zenon DEF IInv, Shape
<1>2. job' = [job EXCEPT ![x] = k] /\ receipt' = [receipt EXCEPT ![x] = receipt[x]]
  BY <1>1, Zenon
<1>3. k \in JobRow /\ k.state = job[x].state /\ k.kind = job[x].kind /\ k.lease = "expired"
  BY <1>1 DEF JobRow
<1> HIDE DEF k
<1>4. job'[x].lease = "expired"
  BY <1>1, <1>2, <1>3, Zenon
<1>5. OwnerStep(x)
  BY <1>4 DEF OwnerStep
<1>6. TrailStep(receipt[x], receipt[x], job[x], k) /\ JobKept(job[x], k)
  BY <1>3 DEF TrailStep, JobKept
<1>7. Slots /\ receipt[x] \in Seq(Receipt)
  BY <1>1, SameSlots, Zenon
<1> QED
  BY <1>2, <1>3, <1>5, <1>6, <1>7, QueueOnly

LEMMA ClaimStep ==
  ASSUME IInv, NEW w \in Workers, NEW x \in Docs, Claim(w, x)
  PROVE  StepFacts
<1> DEFINE waiting == IF job[x].kind = "delete" THEN Last(receipt[x]).waiting ELSE "no"
           attempts == IF Exhausted(x) THEN job[x].attempts ELSE job[x].attempts + 1
           k == [job[x] EXCEPT !.state = "running", !.token = w, !.lease = "live",
                               !.attempts = attempts]
           p == [Idle EXCEPT !.doc = x, !.kind = job[x].kind, !.pc = "enter",
                             !.fresh = IF job[x].state = "queued" THEN "yes" ELSE "no",
                             !.exhausted = IF Exhausted(x) THEN "yes" ELSE "no"]
<1>1. /\ job \in [Docs -> JobRow] /\ job[x] \in JobRow
      /\ receipt[x] \in Seq(Receipt) /\ worker \in [Workers -> Process]
  BY Zenon DEF IInv, Shape
<1>2. /\ worker[w].pc = "idle" /\ job[x].state \in {"queued", "running"}
      /\ UNCHANGED <<doc, series>>
  BY DEF Claim, At
<1>3. waiting \in Flag
  <2>1. receipt[x] # << >>
    BY <1>2, Zenon DEF IInv, QueueInv
  <2>2. Len(receipt[x]) \in 1 .. Len(receipt[x])
    BY <1>1, <2>1, EmptySeq
  <2>3. Last(receipt[x]) \in Receipt
    BY <1>1, <2>2, ElementOfSeq DEF Last
  <2> QED
    BY <2>3 DEF Receipt, Flag
<1>4. job' = [job EXCEPT ![x] = k]
  BY <1>1 DEF Claim
<1>5. worker' = [worker EXCEPT ![w] = p] /\ Sync(x, "running", waiting)
  BY Zenon DEF Claim
<1>6. attempts \in Int
  BY <1>1 DEF JobRow
<1>7. p \in Process /\ p.doc = x /\ p.kind = job[x].kind /\ p.pc = "enter"
  BY <1>1 DEF Process, Idle, Flag, JobRow
<1> HIDE DEF attempts, waiting, p
<1>8. k \in JobRow /\ k.state = "running" /\ k.kind = job[x].kind /\ k.token = w
  BY <1>1, <1>6 DEF JobRow
<1> HIDE DEF k
<1>9. job'[x] = k /\ worker'[w] = p
  BY <1>1, <1>4, <1>5, Zenon
<1>10. Taken(w, x)
  BY <1>2, <1>7, <1>8, <1>9, Zenon DEF Taken
<1>11. Slots
  <2>1. worker' \in [Workers -> Process]
    BY <1>1, <1>5, <1>7, Zenon
  <2>2. ASSUME NEW v \in Workers PROVE SlotStep(v)
    <3>1. CASE v = w
      BY <1>10, <3>1, Zenon DEF SlotStep
    <3>2. CASE v # w
      <4>1. worker'[v] = worker[v] /\ SlotInv(v)
        BY <1>1, <1>5, <3>2, Zenon DEF IInv
      <4> QED
        BY <4>1 DEF SlotStep, SlotInv
    <3> QED
      BY <3>1, <3>2
  <2> QED
    BY <2>1, <2>2 DEF Slots
<1>12. PICK t \in Seq(Receipt) :
         t = Synced(receipt[x], "running", waiting) /\ receipt' = [receipt EXCEPT ![x] = t]
  BY <1>2, <1>3, <1>5, SyncFacts DEF ReceiptStates
<1>13. TrailStep(receipt[x], t, job[x], k) /\ JobKept(job[x], k) /\ OwnerStep(x)
  BY <1>2, <1>3, <1>8, <1>10, <1>12 DEF TrailStep, JobKept, OwnerStep
<1> QED
  BY <1>2, <1>4, <1>8, <1>11, <1>12, <1>13, QueueOnly

LEMMA ReleaseStep ==
  ASSUME IInv, NEW w \in Workers, ReleaseBusy(w)
  PROVE  StepFacts
<1> DEFINE x == worker[w].doc
           attempts == IF worker[w].exhausted = "yes" THEN job[x].attempts
                       ELSE job[x].attempts - 1
           k == [job[x] EXCEPT !.state = "queued", !.token = NoDoc, !.lease = "none",
                               !.attempts = attempts]
<1>1. worker[w].pc # "idle" /\ UNCHANGED <<doc, series>> /\ Leave(w)
  BY DEF ReleaseBusy, At
<1>2. Slots
  BY <1>1, LeaveSlots
<1>3. CASE UNCHANGED <<job, receipt>>
  BY <1>1, <1>2, <1>3, QuietStep
<1>4. CASE ~UNCHANGED <<job, receipt>>
  <2>1. Owned(w) /\ Sync(x, "queued", "no")
    BY <1>4, Zenon DEF ReleaseBusy
  <2>2. x \in Docs /\ job[x].state = "running"
    BY <1>1, <2>1, HeldFacts
  <2>3. job \in [Docs -> JobRow] /\ job[x] \in JobRow
    BY <2>2, Zenon DEF IInv, Shape
  <2>4. job' = [job EXCEPT ![x] = k]
    BY <1>4, <2>3 DEF ReleaseBusy
  <2>5. attempts \in Int
    BY <2>3 DEF JobRow
  <2> HIDE DEF attempts
  <2>6. k \in JobRow /\ k.state = "queued" /\ k.kind = job[x].kind
    BY <2>3, <2>5 DEF JobRow
  <2> HIDE DEF k, x
  <2>7. PICK t \in Seq(Receipt) :
          t = Synced(receipt[x], "queued", "no") /\ receipt' = [receipt EXCEPT ![x] = t]
    BY <2>1, <2>2, SyncFacts DEF ReceiptStates, Flag
  <2>8. job'[x] = k
    BY <2>2, <2>3, <2>4, Zenon
  <2>9. TrailStep(receipt[x], t, job[x], k) /\ JobKept(job[x], k) /\ OwnerStep(x)
    BY <2>2, <2>6, <2>7, <2>8 DEF TrailStep, JobKept, OwnerStep, Flag
  <2> QED
    BY <1>1, <1>2, <2>2, <2>4, <2>6, <2>7, <2>9, QueueOnly
<1> QED
  BY <1>3, <1>4

LEMMA CheckStep ==
  ASSUME IInv, NEW w \in Workers, Check(w)
  PROVE  StepFacts
<1> DEFINE x == worker[w].doc
<1>1. worker[w].pc = "check" /\ Owned(w) /\ UNCHANGED <<doc, series, job>>
  BY DEF Check, At, Held
<1>2. Slots
  <2>1. Goto(w, "finish") \/ Stop(w, "pinned") \/ Goto(w, "purge")
    BY Zenon DEF Check
  <2>2. worker[w].kind = "delete"
    BY <1>1 DEF IInv, SlotInv
  <2> QED
    BY <1>1, <2>1, <2>2, GotoSlots, StopSlots DEF Cleaning, Outside
<1>3. CASE receipt' = receipt
  BY <1>1, <1>2, <1>3, QuietStep
<1>4. CASE receipt' # receipt
  <2>1. Sync(x, "running", "no")
    BY <1>4, Zenon DEF Check
  <2>2. x \in Docs /\ job[x].state = "running"
    BY <1>1, HeldFacts
  <2>3. job \in [Docs -> JobRow] /\ job[x] \in JobRow
    BY <2>2, Zenon DEF IInv, Shape
  <2> HIDE DEF x
  <2>4. job' = [job EXCEPT ![x] = job[x]]
    BY <1>1, <2>2, <2>3, Zenon
  <2>5. PICK t \in Seq(Receipt) :
          t = Synced(receipt[x], "running", "no") /\ receipt' = [receipt EXCEPT ![x] = t]
    BY <2>1, <2>2, SyncFacts DEF ReceiptStates, Flag
  <2>6. TrailStep(receipt[x], t, job[x], job[x]) /\ JobKept(job[x], job[x]) /\ OwnerStep(x)
    BY <1>1, <2>2, <2>5 DEF TrailStep, JobKept, OwnerStep, Flag
  <2> QED
    BY <1>1, <1>2, <2>2, <2>3, <2>4, <2>5, <2>6, QueueOnly
<1> QED
  BY <1>3, <1>4

\* A retirement is settled by the worker it was given to: an ingestion that
\* still owns the job of a version finds it at most on its way out.
LEMMA FinishStep ==
  ASSUME IInv, NEW w \in Workers, Finish(w)
  PROVE  StepFacts
<1> DEFINE x == worker[w].doc
           v == Verdict(w)
           state == IF v = "waiting" THEN "queued" ELSE v
           waiting == IF v = "waiting" THEN "yes" ELSE "no"
           attempts == IF v = "waiting" /\ job[x].attempts > 0 THEN job[x].attempts - 1
                       ELSE job[x].attempts
           k == [job[x] EXCEPT !.state = state, !.token = NoDoc, !.lease = "none",
                               !.attempts = attempts]
           b == IF worker[w].kind = "delete" \/ v \in {"succeeded", "cancelled"} THEN doc[x]
                ELSE IF v = "queued" THEN [doc[x] EXCEPT !.status = "processing", !.retry = "no"]
                ELSE [doc[x] EXCEPT !.status = "failed"]
<1>1. worker[w].pc # "idle" /\ Owned(w) /\ series' = series /\ Leave(w)
  BY DEF Finish, At, Held
<1>2. Slots
  BY <1>1, LeaveSlots
<1>3. /\ x \in Docs /\ job[x].state = "running" /\ doc[x] \in Document
      /\ DocInv(x) /\ doc[x].status # "absent"
  BY <1>1, HeldFacts
<1>4. /\ doc \in [Docs -> Document] /\ job \in [Docs -> JobRow] /\ job[x] \in JobRow
      /\ series \in Series
  BY <1>3, Zenon DEF IInv, Shape
<1>5. doc[x].status = "retired" => worker[w].kind = "delete"
  BY <1>1, ZenonT(60) DEF IInv, GoneInv
<1>6. /\ job' = [job EXCEPT ![x] = k] /\ doc' = [doc EXCEPT ![x] = b]
      /\ Sync(x, state, waiting)
  <2> USE <1>3, <1>4 DEF Finish
  <2>1. job' = [job EXCEPT ![x] = k]
    OBVIOUS
  <2>2. doc' = [doc EXCEPT ![x] = b]
    OBVIOUS
  <2>3. Sync(x, state, waiting)
    BY Zenon
  <2> QED
    BY <2>1, <2>2, <2>3
<1>7. /\ v \in {"succeeded", "waiting", "queued", "failed", "cancelled"}
      /\ worker[w].kind # "delete" /\ v \in {"queued", "failed"} =>
           doc[x].status \notin {"ready", "deleting"}
      /\ worker[w].kind # "delete" => v # "waiting"
  BY DEF Verdict
<1>8. /\ state \in ReceiptStates /\ state \in {"queued"} \cup Ended /\ waiting \in Flag
      /\ attempts \in Int
  BY <1>4, <1>7 DEF ReceiptStates, Ended, Flag, JobRow
<1>9. /\ b \in Document /\ b.index = doc[x].index /\ b.verified = doc[x].verified
      /\ b.status = doc[x].status \/ {doc[x].status, b.status} \subseteq {"processing", "failed"}
      /\ doc[x].status = "retired" => b.status = "retired"
  <2>1. CASE b = doc[x]
    BY <1>3, <2>1
  <2>2. CASE b # doc[x]
    <3>1. worker[w].kind # "delete" /\ v \in {"queued", "failed"}
      BY <1>7, <2>2
    <3>2. doc[x].status \in {"processing", "failed"}
      BY <1>3, <1>5, <1>7, <3>1 DEF Document
    <3>3. CASE v = "queued"
      <4>1. b = [doc[x] EXCEPT !.status = "processing", !.retry = "no"]
        BY <3>1, <3>3
      <4> QED
        BY <1>3, <3>2, <4>1 DEF Document, Flag
    <3>4. CASE v = "failed"
      <4>1. b = [doc[x] EXCEPT !.status = "failed"]
        BY <3>1, <3>4
      <4> QED
        BY <1>3, <3>2, <4>1 DEF Document, Flag
    <3> QED
      BY <3>1, <3>3, <3>4
  <2> QED
    BY <2>1, <2>2
<1> HIDE DEF b, attempts, state, waiting, v
<1>10. k \in JobRow /\ k.state = state /\ k.kind = job[x].kind
  BY <1>4, <1>8 DEF JobRow
<1> HIDE DEF k, x
<1>11. job'[x] = k /\ state # "running" /\ state # "none"
  <2>1. job'[x] = k
    BY <1>3, <1>4, <1>6, Zenon
  <2> QED
    BY <1>8, <2>1 DEF Ended
<1>12. PICK t \in Seq(Receipt) :
         t = Synced(receipt[x], state, waiting) /\ receipt' = [receipt EXCEPT ![x] = t]
  BY <1>3, <1>6, <1>8, SyncFacts
<1>13. TrailStep(receipt[x], t, job[x], k) /\ JobKept(job[x], k) /\ OwnerStep(x)
  BY <1>3, <1>8, <1>10, <1>11, <1>12 DEF TrailStep, JobKept, OwnerStep
<1>14. RowStep(x, doc[x], b, series.current, series'.current, job[x], k)
  <2>1. CASE doc[x].status = "retired"
    BY <1>1, <1>9, <1>13, <2>1 DEF RowStep, Still
  <2>2. CASE doc[x].status # "retired"
    BY <1>1, <1>3, <1>9, <1>13, <2>2 DEF RowStep, Working
  <2> QED
    BY <2>1, <2>2
<1>15. b.status = "retired" => doc[x].status = "retired"
  BY <1>9
<1> QED
  BY <1>1, <1>2, <1>3, <1>4, <1>6, <1>9, <1>10, <1>12, <1>13, <1>14, <1>15, OneVersion

-----------------------------------------------------------------------------
(* The requests of the owner.                                              *)

LEMMA NewJobFacts ==
  ASSUME NEW kind \in {"ingest", "delete"}
  PROVE  NewJob(kind) \in JobRow /\ NewJob(kind).kind = kind /\ NewJob(kind).state = "queued"
BY DEF NewJob, JobRow

\* A job that was claimed while it was replaced keeps its owner.
LEMMA RequeuedFacts ==
  ASSUME IInv, NEW d \in Docs, NEW kind \in {"ingest", "delete"}, NEW slipped,
         slipped => SlippedIn(d)
  PROVE  LET k == Requeued(d, kind, slipped)
         IN  /\ k \in JobRow /\ k.kind = kind /\ k.state \in {"queued", "running"}
             /\ k.state = "running" => /\ job[d].state = "running" /\ k.token = job[d].token
                                       /\ k.lease = job[d].lease
<1> DEFINE j == job[d]
           before == IF worker[j.token].exhausted = "yes" THEN j.attempts ELSE j.attempts - 1
           attempts == IF before = 0 THEN j.attempts ELSE 0
<1>1. j \in JobRow
  BY Zenon DEF IInv, Shape
<1>2. attempts \in Int
  BY <1>1 DEF JobRow
<1>3. CASE slipped
  <2>1. j.state = "running"
    BY <1>3, Zenon DEF SlippedIn
  <2>2. Requeued(d, kind, slipped) = [j EXCEPT !.kind = kind, !.attempts = attempts]
    BY <1>3, Zenon DEF Requeued
  <2> HIDE DEF attempts
  <2> QED
    BY <1>1, <1>2, <2>1, <2>2 DEF JobRow
<1>4. CASE ~slipped
  <2>1. Requeued(d, kind, slipped) = NewJob(kind)
    BY <1>4, Zenon DEF Requeued
  <2> QED
    BY <2>1, NewJobFacts
<1> QED
  BY <1>3, <1>4

LEMMA UploadStep ==
  ASSUME IInv, NEW x \in Docs, Upload(x)
  PROVE  StepFacts
<1> DEFINE b == [doc[x] EXCEPT !.status = "processing", !.index = "building"]
           k == NewJob("ingest")
           t == Enqueued(receipt[x], "ingest", "no")
<1>1. /\ doc \in [Docs -> Document] /\ job \in [Docs -> JobRow] /\ doc[x] \in Document
      /\ receipt[x] \in Seq(Receipt) /\ series \in Series
  BY Zenon DEF IInv, Shape
<1>2. /\ doc' = [doc EXCEPT ![x] = b] /\ job' = [job EXCEPT ![x] = k]
      /\ receipt' = [receipt EXCEPT ![x] = t]
      /\ doc[x].status = "absent" /\ worker' = worker
  BY <1>1 DEF Upload
<1>3. /\ b \in Document /\ b.status = "processing" /\ b.index = "building"
      /\ b.verified = doc[x].verified
  BY <1>1 DEF Document
<1>4. t \in Seq(Receipt)
  BY <1>1, EnqueuedFacts DEF Flag
<1>5. k \in JobRow /\ k.state = "queued"
  BY NewJobFacts
<1>6. /\ series' \in Series
      /\ \A v \in Docs : v # x => (series'.current = v <=> series.current = v)
  <2>1. CASE Present = {}
    <3>1. series' = [series EXCEPT !.current = x]
      BY <2>1 DEF Upload, Bound
    <3>2. \A v \in Docs : series.current # v
      BY <2>1, Zenon DEF Present, IInv, DocInv
    <3> QED
      BY <1>1, <3>1, <3>2 DEF Series
  <2>2. CASE Present # {}
    <3>1. series' = [series EXCEPT !.current = series.current]
      BY <2>2 DEF Upload, Bound
    <3> QED
      BY <1>1, <3>1 DEF Series
  <2> QED
    BY <2>1, <2>2
<1>7. TrailStep(receipt[x], t, job[x], k)
  BY <1>5 DEF TrailStep, Flag
<1> HIDE DEF b, k, t
<1>8. job'[x] = k
  BY <1>1, <1>2, Zenon
<1>9. OwnerStep(x) /\ Slots
  BY <1>2, <1>5, <1>8, SameSlots DEF OwnerStep
<1>10. RowStep(x, doc[x], b, series.current, series'.current, job[x], k)
  BY <1>2, <1>3, <1>5 DEF RowStep, Opened
<1> QED
  BY <1>2, <1>3, <1>4, <1>5, <1>6, <1>7, <1>9, <1>10, OneVersion

LEMMA RetryStep ==
  ASSUME IInv, NEW x \in Docs, Retry(x)
  PROVE  StepFacts
<1> DEFINE b == [doc[x] EXCEPT !.status = "processing", !.retry = "no"]
           t == Enqueued(receipt[x], "ingest", "no")
<1>1. /\ doc \in [Docs -> Document] /\ job \in [Docs -> JobRow] /\ doc[x] \in Document
      /\ receipt[x] \in Seq(Receipt) /\ series \in Series
  BY Zenon DEF IInv, Shape
<1>2. PICK slipped \in {FALSE, SlippedIn(x)} :
        job' = [job EXCEPT ![x] = Requeued(x, "ingest", slipped)]
  BY Zenon DEF Retry
<1> DEFINE k == Requeued(x, "ingest", slipped)
<1>3. /\ doc' = [doc EXCEPT ![x] = b] /\ receipt' = [receipt EXCEPT ![x] = t]
      /\ doc[x].status \in {"failed", "processing"} /\ worker' = worker /\ series' = series
  BY <1>1 DEF Retry, Retriable
<1>4. /\ b \in Document /\ b.status = "processing" /\ b.index = doc[x].index
      /\ b.verified = doc[x].verified
  BY <1>1 DEF Document, Flag
<1>5. t \in Seq(Receipt)
  BY <1>1, EnqueuedFacts DEF Flag
<1>6. /\ k \in JobRow /\ k.state \in {"queued", "running"}
      /\ k.state = "running" => /\ job[x].state = "running" /\ k.token = job[x].token
                                /\ k.lease = job[x].lease
  <2>1. slipped => SlippedIn(x)
    OBVIOUS
  <2> QED
    BY <2>1, RequeuedFacts, Zenon
<1>7. TrailStep(receipt[x], t, job[x], k)
  BY <1>6 DEF TrailStep, Flag
<1> HIDE DEF b, k, t
<1>8. job'[x] = k /\ job' = [job EXCEPT ![x] = k]
  BY <1>1, <1>2, Zenon DEF k
<1>9. OwnerStep(x) /\ Slots
  BY <1>3, <1>6, <1>8, SameSlots DEF OwnerStep
<1>10. RowStep(x, doc[x], b, series.current, series'.current, job[x], k)
  BY <1>3, <1>4, <1>6 DEF RowStep, Retried
<1> QED
  BY <1>1, <1>3, <1>4, <1>5, <1>6, <1>7, <1>8, <1>9, <1>10, OneVersion

LEMMA RetireStep ==
  ASSUME IInv, NEW x \in Docs, Retire(x)
  PROVE  StepFacts
<1> DEFINE b == [doc[x] EXCEPT !.status = "deleting", !.index = "retiring"]
           child == IF job[x].kind = "delete" THEN Last(receipt[x]).child ELSE "no"
           t == Enqueued(receipt[x], "delete", child)
<1>1. /\ doc \in [Docs -> Document] /\ job \in [Docs -> JobRow] /\ doc[x] \in Document
      /\ receipt[x] \in Seq(Receipt) /\ series \in Series /\ DocInv(x) /\ QueueInv(x)
  BY Zenon DEF IInv, Shape
<1>2. PICK slipped \in {FALSE, SlippedIn(x)} :
        job' = [job EXCEPT ![x] = Requeued(x, "delete", slipped)]
  BY Zenon DEF Retire
<1> DEFINE k == Requeued(x, "delete", slipped)
<1>3. /\ receipt' = [receipt EXCEPT ![x] = t] /\ worker' = worker
      /\ series' = [series EXCEPT !.current = IF series.current = x THEN NoDoc
                                              ELSE series.current]
  BY Zenon DEF Retire, Withdrawn
<1>4. doc' = [doc EXCEPT ![x] = b]
  BY <1>1 DEF Retire
<1>5. doc[x].status \notin {"absent", "retired"}
  BY <1>1 DEF Retire, Present, DocInv
<1>6. b \in Document /\ b.status = "deleting" /\ b.index = "retiring"
  BY <1>1 DEF Document
<1>7. child \in Flag
  <2>1. receipt[x] # << >>
    BY <1>1, <1>5 DEF DocInv, QueueInv
  <2>2. Len(receipt[x]) \in 1 .. Len(receipt[x])
    BY <1>1, <2>1, EmptySeq
  <2>3. Last(receipt[x]) \in Receipt
    BY <1>1, <2>2, ElementOfSeq DEF Last
  <2> QED
    BY <2>3 DEF Receipt, Flag
<1>8. NoDoc \notin Docs
  BY DocumentAssumption
<1>9. /\ series' \in Series /\ series'.current # x
      /\ \A v \in Docs : v # x => (series'.current = v <=> series.current = v)
  BY <1>1, <1>3, <1>8 DEF Series
<1> HIDE DEF child
<1>10. t \in Seq(Receipt)
  BY <1>1, <1>7, EnqueuedFacts
<1>11. /\ k \in JobRow /\ k.kind = "delete" /\ k.state \in {"queued", "running"}
       /\ k.state = "running" => /\ job[x].state = "running" /\ k.token = job[x].token
                                 /\ k.lease = job[x].lease
  <2>1. slipped => SlippedIn(x)
    OBVIOUS
  <2> QED
    BY <2>1, RequeuedFacts, Zenon
<1>12. TrailStep(receipt[x], t, job[x], k)
  BY <1>7, <1>11 DEF TrailStep
<1> HIDE DEF b, k, t
<1>13. job'[x] = k /\ job' = [job EXCEPT ![x] = k]
  BY <1>1, <1>2, Zenon DEF k
<1>14. OwnerStep(x) /\ Slots
  BY <1>3, <1>11, <1>13, SameSlots DEF OwnerStep
<1>15. RowStep(x, doc[x], b, series.current, series'.current, job[x], k)
  BY <1>5, <1>6, <1>9, <1>11 DEF RowStep, Leaving
<1> QED
  BY <1>3, <1>4, <1>6, <1>9, <1>10, <1>11, <1>12, <1>13, <1>14, <1>15, OneVersion

LEMMA ActivateStep ==
  ASSUME IInv, NEW x \in Docs, NEW expected \in Docs \cup {NoDoc}, Activate(x, expected)
  PROVE  StepFacts
<1>1. /\ doc \in [Docs -> Document] /\ job \in [Docs -> JobRow] /\ series \in Series
  BY Zenon DEF IInv, Shape
<1>2. /\ UNCHANGED <<job, receipt, worker>> /\ series.current = expected
      /\ doc[x].status = "ready" /\ doc[x].verified = "yes"
      /\ doc' = [v \in Docs |->
                   IF v = x THEN [doc[v] EXCEPT !.index = "published"]
                   ELSE IF v = expected THEN [doc[v] EXCEPT !.index = "superseded"]
                   ELSE doc[v]]
  BY Zenon DEF Activate, Publishable, Selectable, Expected
<1>3. series' \in Series /\ series'.current = x
  BY <1>1 DEF Activate, Series
<1>4. Slots
  BY <1>2, SameSlots
<1>5. ASSUME NEW v \in Docs
      PROVE  doc'[v] \in Document /\ DocStep(v)
  <2>1. doc[v] \in Document
    BY <1>1, Zenon
  <2>2. CASE v = x
    <3>1. doc'[v] = [doc[v] EXCEPT !.index = "published"]
      BY <1>2, <2>2, Zenon
    <3>2. /\ doc'[v] \in Document /\ doc'[v].status = doc[v].status
          /\ doc'[v].index = "published" /\ doc'[v].verified = doc[v].verified
      BY <2>1, <3>1 DEF Document
    <3>3. Chosen(v, doc[v], doc'[v], series.current, series'.current, job[v], job'[v])
      BY <1>2, <1>3, <2>2, <3>2 DEF Chosen, JobKept
    <3> QED
      BY <3>2, <3>3 DEF DocStep, RowStep
  <2>3. CASE v # x /\ v = expected
    <3>1. doc'[v] = [doc[v] EXCEPT !.index = "superseded"]
      BY <1>2, <2>3, Zenon
    <3>2. /\ doc'[v] \in Document /\ doc'[v].status = doc[v].status
          /\ doc'[v].index = "superseded" /\ doc'[v].verified = doc[v].verified
      BY <2>1, <3>1 DEF Document
    <3>3. Replaced(v, doc[v], doc'[v], series.current, series'.current, job[v], job'[v])
      BY <1>2, <1>3, <2>3, <3>2 DEF Replaced, JobKept
    <3> QED
      BY <3>2, <3>3 DEF DocStep, RowStep
  <2>4. CASE v # x /\ v # expected
    <3>1. doc'[v] = doc[v]
      BY <1>2, <2>4, Zenon
    <3> QED
      BY <1>2, <1>3, <2>1, <2>4, <3>1, SameRows
  <2> QED
    BY <2>2, <2>3, <2>4
<1>6. doc' \in [Docs -> Document]
  BY <1>2, <1>5, Zenon
<1>7. Shape'
  BY <1>2, <1>3, <1>4, <1>6, Zenon DEF IInv, Shape, Slots
<1>8. \A v \in Docs : QueueStep(v) /\ OwnerStep(v)
  BY <1>2 DEF QueueStep, TrailStep, OwnerStep
<1> QED
  BY <1>4, <1>5, <1>7, <1>8 DEF StepFacts, Slots

LEMMA RetireSeriesStep ==
  ASSUME IInv, RetireSeries
  PROVE  StepFacts
<1> DEFINE pending == {d \in Present : doc[d].status # "retired"}
<1>1. /\ doc \in [Docs -> Document] /\ job \in [Docs -> JobRow]
      /\ receipt \in [Docs -> Seq(Receipt)]
  BY Zenon DEF IInv, Shape
<1>2. PICK slipped \in SUBSET {d \in pending : SlippedIn(d)} :
        job' = [d \in Docs |-> IF d \in pending THEN Requeued(d, "delete", d \in slipped)
                               ELSE job[d]]
  BY Zenon DEF RetireSeries
<1>3. /\ doc' = [d \in Docs |-> IF d \in pending
                                THEN [doc[d] EXCEPT !.status = "deleting", !.index = "retiring"]
                                ELSE doc[d]]
      /\ receipt' = [d \in Docs |-> IF d \in pending THEN Enqueued(receipt[d], "delete", "yes")
                                    ELSE receipt[d]]
  BY Zenon DEF RetireSeries
<1>4. NoDoc \notin Docs
  BY DocumentAssumption
<1>5. series' \in Series /\ series'.current = NoDoc
  <2>1. series' = [current |-> NoDoc, retired |-> "yes"]
    BY Zenon DEF RetireSeries
  <2> QED
    BY <2>1 DEF Series, Flag
<1>6. Slots
  <2>1. worker' = worker
    BY Zenon DEF RetireSeries
  <2> QED
    BY <2>1, SameSlots
<1>7. ASSUME NEW d \in Docs
      PROVE  /\ doc'[d] \in Document /\ job'[d] \in JobRow /\ receipt'[d] \in Seq(Receipt)
             /\ DocStep(d) /\ QueueStep(d) /\ OwnerStep(d)
  <2>1. /\ doc[d] \in Document /\ job[d] \in JobRow /\ receipt[d] \in Seq(Receipt)
        /\ DocInv(d)
    BY <1>1, Zenon DEF IInv
  <2>2. d \in pending <=> doc[d].status \notin {"absent", "retired"}
    BY DEF Present
  <2> HIDE DEF pending
  <2>3. CASE d \in pending
    <3>1. /\ doc'[d] = [doc[d] EXCEPT !.status = "deleting", !.index = "retiring"]
          /\ receipt'[d] = Enqueued(receipt[d], "delete", "yes")
          /\ job'[d] = Requeued(d, "delete", d \in slipped)
      BY <1>2, <1>3, <2>3, Zenon
    <3>2. /\ doc'[d] \in Document
          /\ doc'[d].status = "deleting" /\ doc'[d].index = "retiring"
      BY <2>1, <3>1 DEF Document
    <3>3. receipt'[d] \in Seq(Receipt)
      BY <2>1, <3>1, EnqueuedFacts DEF Flag
    <3>4. /\ job'[d] \in JobRow /\ job'[d].kind = "delete"
          /\ job'[d].state \in {"queued", "running"}
          /\ job'[d].state = "running" =>
               job[d].state = "running" /\ job'[d].token = job[d].token
               /\ job'[d].lease = job[d].lease
      <4> DEFINE claimed == d \in slipped
      <4>1. claimed => SlippedIn(d)
        BY <1>2, Zenon
      <4>2. job'[d] = Requeued(d, "delete", claimed)
        BY <3>1
      <4> HIDE DEF claimed
      <4> DEFINE k == Requeued(d, "delete", claimed)
      <4>3. /\ k \in JobRow /\ k.kind = "delete" /\ k.state \in {"queued", "running"}
            /\ k.state = "running" => /\ job[d].state = "running" /\ k.token = job[d].token
                                      /\ k.lease = job[d].lease
        BY <4>1, RequeuedFacts, Zenon
      <4> QED
        BY <4>2, <4>3, Zenon
    <3>5. Leaving(d, doc[d], doc'[d], series.current, series'.current, job[d], job'[d])
      BY <1>4, <1>5, <2>2, <2>3, <3>2, <3>4 DEF Leaving
    <3>6. DocStep(d)
      BY <3>2, <3>5 DEF DocStep, RowStep
    <3>7. QueueStep(d) /\ OwnerStep(d)
      BY <3>1, <3>4 DEF QueueStep, TrailStep, OwnerStep, Flag
    <3> QED
      BY <3>2, <3>3, <3>4, <3>6, <3>7
  <2>4. CASE d \notin pending
    <3>1. doc'[d] = doc[d] /\ receipt'[d] = receipt[d] /\ job'[d] = job[d]
      BY <1>2, <1>3, <2>4, Zenon
    <3>2. series'.current # d /\ series.current # d
      BY <1>4, <1>5, <2>1, <2>2, <2>4 DEF DocInv
    <3> QED
      BY <2>1, <3>1, <3>2, SameRows
  <2> QED
    BY <2>3, <2>4
<1> HIDE DEF pending
<1>8. /\ doc' \in [Docs -> Document] /\ job' \in [Docs -> JobRow]
      /\ receipt' \in [Docs -> Seq(Receipt)]
  <2>1. doc' \in [Docs -> Document]
    BY <1>3, <1>7, Zenon
  <2>2. job' \in [Docs -> JobRow]
    BY <1>2, <1>7, Zenon
  <2>3. receipt' \in [Docs -> Seq(Receipt)]
    BY <1>3, <1>7, Zenon
  <2> QED
    BY <2>1, <2>2, <2>3
<1>9. Shape'
  BY <1>5, <1>6, <1>8, Zenon DEF Shape, Slots
<1> QED
  BY <1>6, <1>7, <1>9 DEF StepFacts, Slots

-----------------------------------------------------------------------------
(* Every step.                                                             *)

LEMMA NextFacts ==
  ASSUME IInv, [Next]_vars
  PROVE  StepFacts
<1>1. CASE UNCHANGED vars
  BY <1>1, ReaderActions
<1>2. CASE Request
  BY <1>2, UploadStep, RetryStep, RetireStep, ActivateStep, RetireSeriesStep, Zenon DEF Request
<1>3. CASE Reader
  BY <1>3, ReaderActions
<1>4. ASSUME NEW w \in Workers, Step(w) \/ Fails(w) \/ Crash(w) \/ LoseLock(w)
      PROVE  StepFacts
  BY <1>4, QuietActions, ReleaseStep, FinishStep, StartStep, BuildStep, ReadyStep, MarkStep,
     CheckStep, RetiredStep, Zenon DEF Step, Fails
<1>5. ASSUME NEW w \in Workers, LoseLease(w)
      PROVE  StepFacts
  <2> DEFINE d == worker[w].doc
  <2>1. /\ worker[w].pc # "idle" /\ Owned(w)
        /\ job' = [job EXCEPT ![d].lease = "expired"]
        /\ UNCHANGED <<doc, series, receipt, worker>>
    BY <1>5, Zenon DEF LoseLease, At
  <2>2. d \in Docs /\ job[d].state = "running"
    BY <2>1, HeldFacts
  <2> QED
    BY <2>1, <2>2, LeaseSteps, Zenon
<1>6. ASSUME NEW d \in Docs, LeaseEnds(d)
      PROVE  StepFacts
  BY <1>6, LeaseSteps, Zenon DEF LeaseEnds
<1> QED
  BY <1>1, <1>2, <1>3, <1>4, <1>5, <1>6, ClaimStep, Zenon DEF Next

LEMMA InitInv ==
  ASSUME Init
  PROVE  IInv
<1>1. Shape
  <2>1. doc \in [Docs -> Document]
    BY DEF Init, Document, Flag
  <2>2. series \in Series
    BY DEF Init, Series, Flag
  <2>3. job \in [Docs -> JobRow]
    BY DEF Init, JobRow
  <2>4. receipt \in [Docs -> Seq(Receipt)]
    BY EmptySeq DEF Init
  <2>5. worker \in [Workers -> Process]
    BY DEF Init, Idle, Process, Flag
  <2> QED
    BY <2>1, <2>2, <2>3, <2>4, <2>5 DEF Shape
<1>2. \A d \in Docs : DocInv(d) /\ QueueInv(d)
  BY DocumentAssumption DEF Init, DocInv, QueueInv
<1>3. \A w \in Workers : SlotInv(w) /\ GoneInv(w)
  BY DEF Init, Idle, SlotInv, GoneInv
<1> QED
  BY <1>1, <1>2, <1>3 DEF IInv

-----------------------------------------------------------------------------
(* The theorems.                                                           *)

\* The rows of a version, the pointer of its series, the job, its receipts and
\* the workers agree with one another in every reachable state.
THEOREM Invariance == Spec => []IInv
<1>1. Init => IInv
  BY InitInv
<1>2. IInv /\ [Next]_vars => IInv'
  BY NextFacts, InvStep
<1> QED
  BY <1>1, <1>2, PTL DEF Spec

\* A version is published exactly if the series points to it and its index is
\* verified, whatever builds, activations and retirements overlap.
THEOREM PointerCorrect == Spec => []PointerAgrees
<1>1. IInv => PointerAgrees
  BY Zenon DEF IInv, DocInv, PointerAgrees
<1> QED
  BY <1>1, Invariance, PTL

\* A version on its way out only leaves, and one that left stays away: neither
\* a build that is late nor a retry, an activation or a former owner revives it.
THEOREM NoReturn == Spec => LeavesForGood
<1>1. ASSUME IInv, Next, NEW d \in Docs
      PROVE  /\ doc[d].status = "deleting" => doc'[d].status \in {"deleting", "retired"}
             /\ doc[d].status = "retired" => doc'[d].status = "retired"
  <2> DEFINE a == doc[d]  b == doc'[d]  c == series.current  e == series'.current
             j == job[d]  k == job'[d]
  <2>1. RowStep(d, a, b, c, e, j, k) /\ DocInv(d)
    BY <1>1, NextFacts, Zenon DEF StepFacts, DocStep, IInv
  <2> HIDE DEF a, b, c, e, j, k
  <2>2. /\ a.status = "deleting" => b.status \in {"deleting", "retired"}
        /\ a.status = "retired" => b.status = "retired"
    BY <2>1 DEF RowStep, Still, Working, Verified, Gone, Opened, Chosen, Replaced,
                Retried, Leaving
  <2> QED
    BY <2>2 DEF a, b
<1>2. IInv /\ [Next]_vars
        => [\A d \in Docs :
              /\ doc[d].status = "deleting" => doc'[d].status \in {"deleting", "retired"}
              /\ doc[d].status = "retired" => doc'[d].status = "retired"]_vars
  BY <1>1
<1> QED
  BY <1>2, Invariance, PTL DEF Spec, LeavesForGood

LEMMA TrailKept ==
  ASSUME NEW s \in Seq(Receipt), NEW t, NEW j, NEW k, TrailStep(s, t, j, k),
         j.state # "none" => s # << >>,
         j.state \in {"queued", "running"} => Last(s).state \notin Ended,
         NEW i \in DOMAIN s
  PROVE  /\ i \in DOMAIN t
         /\ s[i].state \in Ended => t[i] = s[i]
<1>1. CASE t = s
  BY <1>1
<1>2. CASE /\ j.state \in {"queued", "running"}
           /\ k.state \in {"queued", "running"} \cup Ended
           /\ \E waiting \in Flag : t = Synced(s, k.state, waiting)
  <2>1. PICK waiting \in Flag : t = Synced(s, k.state, waiting)
    BY <1>2
  <2>2. s # << >> /\ k.state \in ReceiptStates /\ s[Len(s)].state \notin Ended
    BY <1>2 DEF ReceiptStates, Last
  <2>3. DOMAIN t = DOMAIN s /\ \A n \in DOMAIN s : n # Len(s) => t[n] = s[n]
    BY <2>1, <2>2, SyncedFacts
  <2> QED
    BY <2>2, <2>3
<1>3. CASE \E kind \in {"ingest", "delete"}, child \in Flag : t = Enqueued(s, kind, child)
  <2>1. PICK kind \in {"ingest", "delete"}, child \in Flag : t = Enqueued(s, kind, child)
    BY <1>3
  <2>2. \A n \in DOMAIN s :
          /\ n \in DOMAIN Enqueued(s, kind, child)
          /\ s[n].state \in Ended => Enqueued(s, kind, child)[n] = s[n]
    BY EnqueuedFacts, ZenonT(60)
  <2> QED
    BY <2>1, <2>2
<1> QED
  BY <1>1, <1>2, <1>3 DEF TrailStep

\* A task that ended keeps its receipt: later attempts, retries, retirements
\* and late owners write to receipts of their own.
THEOREM HistoryKept == Spec => ReceiptsFinal
<1>1. ASSUME IInv, Next, NEW d \in Docs, NEW i \in DOMAIN receipt[d]
      PROVE  /\ i \in DOMAIN receipt'[d]
             /\ receipt[d][i].state \in Ended => receipt'[d][i] = receipt[d][i]
  <2>1. /\ TrailStep(receipt[d], receipt'[d], job[d], job'[d])
        /\ receipt[d] \in Seq(Receipt) /\ QueueInv(d)
    BY <1>1, NextFacts, Zenon DEF StepFacts, QueueStep, IInv, Shape
  <2> QED
    BY <1>1, <2>1, TrailKept, ZenonT(60) DEF QueueInv
<1>2. IInv /\ [Next]_vars
        => [\A d \in Docs : \A i \in DOMAIN receipt[d] :
              /\ i \in DOMAIN receipt'[d]
              /\ receipt[d][i].state \in Ended => receipt'[d][i] = receipt[d][i]]_vars
  BY <1>1
<1> QED
  BY <1>2, Invariance, PTL DEF Spec, ReceiptsFinal

-----------------------------------------------------------------------------
(* What is stored of a version: the invariant.                             *)

\* The places of a build and of a removal that have begun to change a version.
Building == {"build", "wipe", "write", "verify", "ready", "failwipe", "mark"}
Removing == {"purge", "unlink", "retired"}

\* What the holder of the lock knows at the place pc: a is the row of its version
\* and c what is stored of it.  The stored part holds unless the version was hit
\* by a worker that had lost the lock.
Fit(pc, a, c, hit) ==
  /\ pc \in Building => a.status \in {"processing", "deleting"}
  /\ pc \in Removing => a.status = "deleting"
  /\ ~hit =>
       /\ pc = "ready" => c.chunks = Batches
       /\ pc \in {"unlink", "retired"} => c.chunks = {}
       /\ pc = "retired" => c.file = "gone"

\* What the row of a version that was not hit says of what is stored.
Kept(a, c) ==
  /\ a.status \in {"processing", "failed", "ready"} => c.file = "present"
  /\ a.status = "ready" => c.chunks = Batches
  /\ a.status = "retired" => c.chunks = {} /\ c.file = "gone"

\* A lock has one holder, which is at work on what it locked.
LockInv(w) ==
  worker[w].lock = "yes" =>
    /\ worker[w].pc \notin {"idle", "enter"}
    /\ \A v \in Workers : worker[v].lock = "yes" /\ worker[v].doc = worker[w].doc => v = w
    /\ Fit(worker[w].pc, doc[worker[w].doc], stored[worker[w].doc], worker[w].doc \in late)

BatchInv(w) == worker[w].pc = "write" => worker[w].batch \in Batches

StoreInv ==
  /\ stored \in [Docs -> Stored]
  /\ \A d \in Docs \ late : Kept(doc[d], stored[d])
  /\ \A w \in Workers : LockInv(w) /\ BatchInv(w)

StoreStep == StoreInv' /\ late \subseteq late'

-----------------------------------------------------------------------------
(* A step of one worker on its version, and steps of others.               *)

\* The worker w at the version x becomes p, the row of the version b, what is
\* stored of it c.
Acts(w, p, x, b, c) ==
  /\ worker' = [worker EXCEPT ![w] = p] /\ worker[w].doc = x
  /\ doc' = [doc EXCEPT ![x] = b] /\ stored' = [stored EXCEPT ![x] = c]
  /\ late \subseteq late' /\ late' \subseteq late \cup {x}
  /\ p.pc = "write" => p.batch \in Batches
  /\ \/ worker[w].lock = "yes"
     \/ b.status = doc[x].status /\ (c = stored[x] \/ x \in late')
  /\ p.lock = "yes" => /\ p.doc = x /\ p.pc \notin {"idle", "enter"}
                       /\ worker[w].lock = "yes" \/ LockFree(x)
                       /\ Fit(p.pc, b, c, x \in late')
  /\ x \notin late' => Kept(b, c)

LEMMA ActorStep ==
  ASSUME IInv, StoreInv, NEW w \in Workers, NEW p \in Process, NEW x \in Docs,
         NEW b \in Document, NEW c \in Stored, Acts(w, p, x, b, c)
  PROVE  StoreStep
<1> USE DEF Acts
<1>1. /\ worker \in [Workers -> Process] /\ doc \in [Docs -> Document]
      /\ stored \in [Docs -> Stored]
  BY Zenon DEF IInv, Shape, StoreInv
<1>2. /\ worker'[w] = p /\ doc'[x] = b /\ stored'[x] = c
      /\ \A v \in Workers : v # w => worker'[v] = worker[v]
      /\ \A d \in Docs : d # x => doc'[d] = doc[d] /\ stored'[d] = stored[d]
  BY <1>1, Zenon
<1>3. stored' \in [Docs -> Stored]
  BY <1>1, Zenon
<1>4. ASSUME NEW d \in Docs \ late'
      PROVE  Kept(doc'[d], stored'[d])
  <2>1. CASE d = x
    BY <1>2, <2>1, Zenon
  <2>2. CASE d # x
    BY <1>2, <2>2, Zenon DEF StoreInv
  <2> QED
    BY <2>1, <2>2
<1>5. ASSUME NEW v \in Workers, v # w, worker[v].lock = "yes", worker[v].doc = x
      PROVE  worker[w].lock # "yes" /\ ~LockFree(x)
  BY <1>5, Zenon DEF StoreInv, LockInv, LockFree
<1>6. ASSUME NEW v \in Workers
      PROVE  LockInv(v)'
  <2> DEFINE y == worker'[v].doc
  <2> SUFFICES ASSUME worker'[v].lock = "yes"
               PROVE  /\ worker'[v].pc \notin {"idle", "enter"}
                      /\ \A u \in Workers : worker'[u].lock = "yes" /\ worker'[u].doc = y => u = v
                      /\ Fit(worker'[v].pc, doc'[y], stored'[y], y \in late')
    BY Zenon DEF LockInv
  <2>1. CASE v = w
    <3>1. y = x /\ p.lock = "yes" /\ worker'[v] = p
      BY <1>2, <2>1, Zenon
    <3>2. ASSUME NEW u \in Workers, worker'[u].lock = "yes", worker'[u].doc = y, u # v
          PROVE  FALSE
      BY <1>2, <1>5, <2>1, <3>1, <3>2, Zenon
    <3> QED
      BY <1>2, <3>1, <3>2, Zenon
  <2>2. CASE v # w
    <3>1. worker'[v] = worker[v] /\ worker[v].lock = "yes" /\ LockInv(v) /\ SlotInv(v)
      BY <1>2, <2>2, Zenon DEF StoreInv, IInv
    <3>2. /\ worker[v].pc \notin {"idle", "enter"} /\ y = worker[v].doc /\ y \in Docs
          /\ \A u \in Workers : worker[u].lock = "yes" /\ worker[u].doc = y => u = v
          /\ Fit(worker[v].pc, doc[y], stored[y], y \in late)
      BY <3>1, Zenon DEF LockInv, SlotInv
    <3>3. ASSUME NEW u \in Workers, worker'[u].lock = "yes", worker'[u].doc = y, u # v
          PROVE  FALSE
      <4>1. u = w
        BY <1>2, <3>2, <3>3, Zenon
      <4>2. p.lock = "yes" /\ y = x
        BY <1>2, <3>3, <4>1, Zenon
      <4> QED
        BY <1>5, <2>2, <3>1, <3>2, <4>2, Zenon
    <3>4. CASE y # x
      <4>1. doc'[y] = doc[y] /\ stored'[y] = stored[y] /\ (y \in late' <=> y \in late)
        BY <1>2, <3>2, <3>4
      <4> QED
        BY <3>1, <3>2, <3>3, <4>1 DEF Fit
    <3>5. CASE y = x
      <4>1. b.status = doc[x].status /\ (c = stored[x] \/ x \in late')
        BY <1>5, <2>2, <3>1, <3>2, <3>5, Zenon
      <4>2. Fit(worker[v].pc, b, c, x \in late')
        BY <3>2, <3>5, <4>1 DEF Fit
      <4> QED
        BY <1>2, <3>1, <3>2, <3>3, <3>5, <4>2, Zenon
    <3> QED
      BY <3>4, <3>5
  <2> QED
    BY <2>1, <2>2
<1>7. ASSUME NEW v \in Workers
      PROVE  BatchInv(v)'
  BY <1>2, Zenon DEF StoreInv, BatchInv
<1> QED
  BY <1>3, <1>4, <1>6, <1>7, Zenon DEF StoreInv, StoreStep

\* The worker holds the lock, and only the row of the version changes.
Moves(w, pc) ==
  \E p \in Process : /\ worker' = [worker EXCEPT ![w] = p] /\ p.pc = pc
                     /\ p.doc = worker[w].doc /\ p.lock = worker[w].lock

\* The holder w of the lock of x goes on to pc and makes b the row of x.
Works(w, pc, x, b) ==
  /\ worker[w].lock = "yes" /\ Moves(w, pc) /\ pc \notin {"idle", "enter", "write"}
  /\ worker[w].doc = x /\ doc' = [doc EXCEPT ![x] = b]
  /\ stored' = stored /\ late' = late
  /\ Fit(pc, b, stored[x], x \in late)
  /\ x \notin late => Kept(b, stored[x])

LEMMA LockedStep ==
  ASSUME IInv, StoreInv, NEW w \in Workers, NEW pc, NEW x \in Docs, NEW b \in Document,
         Works(w, pc, x, b)
  PROVE  StoreStep
<1>1. PICK p \in Process : /\ worker' = [worker EXCEPT ![w] = p] /\ p.pc = pc
                           /\ p.doc = worker[w].doc /\ p.lock = worker[w].lock
  BY Zenon DEF Works, Moves
<1>2. stored \in [Docs -> Stored]
  BY Zenon DEF StoreInv
<1>3. stored[x] \in Stored /\ stored' = [stored EXCEPT ![x] = stored[x]]
  BY <1>2, Zenon DEF Works
<1>4. Acts(w, p, x, b, stored[x])
  BY <1>1, <1>3 DEF Acts, Works
<1> QED
  BY <1>1, <1>3, <1>4, ActorStep

\* A worker without a lock, or that gives it up, changes nothing.
LEMMA ReleasedStep ==
  ASSUME IInv, StoreInv, NEW w \in Workers, NEW p \in Process,
         worker' = [worker EXCEPT ![w] = p], p.lock = "no",
         p.pc = "write" => p.batch \in Batches, UNCHANGED <<doc, stored, late>>
  PROVE  StoreStep
<1>1. worker \in [Workers -> Process]
  BY Zenon DEF IInv, Shape
<1>2. worker'[w] = p /\ \A v \in Workers : v # w => worker'[v] = worker[v]
  BY <1>1, Zenon
<1>3. ASSUME NEW v \in Workers
      PROVE  LockInv(v)' /\ BatchInv(v)'
  <2>1. CASE v = w
    BY <1>2, <2>1 DEF LockInv, BatchInv
  <2>2. CASE v # w
    <3>1. worker'[v] = worker[v] /\ LockInv(v) /\ BatchInv(v)
      BY <1>2, <2>2, Zenon DEF StoreInv
    <3>2. \A u \in Workers : worker'[u].lock = "yes" => worker'[u] = worker[u]
      BY <1>2
    <3> QED
      BY <3>1, <3>2, Zenon DEF LockInv, BatchInv
  <2> QED
    BY <2>1, <2>2
<1>4. doc' = doc /\ stored' = stored /\ late' = late
  OBVIOUS
<1> QED
  BY <1>3, <1>4 DEF StoreInv, StoreStep

\* A request of an owner, on the version d, while no worker moves.
PassiveStep(d) ==
  \/ doc'[d].status \in {doc[d].status, "deleting"} /\ stored'[d] = stored[d]
  \/ /\ doc[d].status = "absent" \/ LockFree(d)
     /\ doc'[d].status = "processing" /\ stored'[d].file = "present"

LEMMA RequestStep ==
  ASSUME IInv, StoreInv, UNCHANGED <<worker, late>>, stored' \in [Docs -> Stored],
         \A d \in Docs : PassiveStep(d)
  PROVE  StoreStep
<1>1. ASSUME NEW d \in Docs \ late
      PROVE  Kept(doc'[d], stored'[d])
  BY <1>1 DEF StoreInv, Kept, PassiveStep
<1>2. ASSUME NEW v \in Workers
      PROVE  LockInv(v)'
  <2> DEFINE y == worker[v].doc
  <2> SUFFICES ASSUME worker[v].lock = "yes"
               PROVE  Fit(worker[v].pc, doc'[y], stored'[y], y \in late)
    BY Zenon DEF LockInv, StoreInv
  <2>1. LockInv(v) /\ SlotInv(v)
    BY Zenon DEF StoreInv, IInv
  <2>2. y \in Docs /\ Fit(worker[v].pc, doc[y], stored[y], y \in late) /\ ~LockFree(y)
    BY <2>1 DEF LockInv, SlotInv, LockFree
  <2> HIDE DEF y
  <2>3. PassiveStep(y)
    BY <2>2
  <2> QED
    BY <2>2, <2>3 DEF PassiveStep, Fit, Building, Removing
<1>3. \A v \in Workers : BatchInv(v)'
  BY Zenon DEF StoreInv, BatchInv
<1> QED
  BY <1>1, <1>2, <1>3, Zenon DEF StoreInv, StoreStep

LEMMA IdleStep ==
  ASSUME IInv, StoreInv, UNCHANGED <<worker, doc, stored, late>>
  PROVE  StoreStep
<1>1. ASSUME NEW d \in Docs
      PROVE  PassiveStep(d)
  BY DEF PassiveStep
<1> QED
  BY <1>1, RequestStep DEF StoreInv

-----------------------------------------------------------------------------
(* Where a step takes a worker.                                            *)

Places == Outside \cup {"enter", "start", "build", "verify", "ready", "mark", "check",
                        "retired", "finish"}

Leaves(w) ==
  \E p \in Process : /\ worker' = [worker EXCEPT ![w] = p] /\ p.lock = "no"
                     /\ p.pc \in {"idle", "enter"}

LEMMA GotoMoves ==
  ASSUME IInv, NEW w \in Workers, NEW pc \in Places, Goto(w, pc)
  PROVE  Moves(w, pc)
<1> DEFINE p == [worker[w] EXCEPT !.pc = pc]
<1>1. worker[w] \in Process
  BY Zenon DEF IInv, Shape
<1>2. p \in Process /\ p.pc = pc /\ p.doc = worker[w].doc /\ p.lock = worker[w].lock
  BY <1>1 DEF Process, Places
<1>3. worker' = [worker EXCEPT ![w] = p]
  BY DEF Goto
<1> HIDE DEF p
<1> QED
  BY <1>2, <1>3, Zenon DEF Moves

LEMMA StopMoves ==
  ASSUME IInv, NEW w \in Workers, NEW e \in {"none", "retryable", "final", "pinned"},
         Stop(w, e)
  PROVE  Moves(w, "finish")
<1> DEFINE p == [worker[w] EXCEPT !.pc = "finish", !.error = e]
<1>1. worker[w] \in Process /\ worker \in [Workers -> Process]
  BY Zenon DEF IInv, Shape
<1>2. p \in Process /\ p.pc = "finish" /\ p.doc = worker[w].doc /\ p.lock = worker[w].lock
  BY <1>1 DEF Process
<1>3. worker' = [worker EXCEPT ![w] = p]
  BY <1>1 DEF Stop
<1> HIDE DEF p
<1> QED
  BY <1>2, <1>3, Zenon DEF Moves

\* A build that fails removes what it wrote only while its version is being built.
LEMMA FailingMoves ==
  ASSUME IInv, NEW w \in Workers, NEW e \in {"retryable", "final"}, Failing(w, e)
  PROVE  \/ Moves(w, "finish")
         \/ doc[worker[w].doc].status = "processing" /\ (Moves(w, "mark") \/ Moves(w, "failwipe"))
<1> DEFINE x == worker[w].doc
           pc == IF doc[x].status # "processing" THEN "finish"
                 ELSE IF doc[x].index \in Immutable THEN "mark" ELSE "failwipe"
           p == [worker[w] EXCEPT !.pc = pc, !.error = e]
<1>1. worker[w] \in Process /\ worker \in [Workers -> Process]
  BY Zenon DEF IInv, Shape
<1>2. pc = "finish" \/ (doc[x].status = "processing" /\ pc \in {"mark", "failwipe"})
  OBVIOUS
<1>3. worker' = [worker EXCEPT ![w] = p]
  BY <1>1 DEF Failing
<1> HIDE DEF pc
<1>4. p \in Process /\ p.pc = pc /\ p.doc = worker[w].doc /\ p.lock = worker[w].lock
  BY <1>1, <1>2 DEF Process, Outside
<1> HIDE DEF p
<1>5. Moves(w, pc)
  BY <1>3, <1>4, Zenon DEF Moves
<1> QED
  BY <1>2, <1>5

LEMMA LeaveLeaves ==
  ASSUME NEW w \in Workers, Leave(w)
  PROVE  Leaves(w)
<1>1. Idle \in Process /\ Idle.pc = "idle" /\ Idle.lock = "no"
  BY DEF Idle, Process, Flag
<1>2. worker' = [worker EXCEPT ![w] = Idle]
  BY DEF Leave
<1> HIDE DEF Idle
<1> QED
  BY <1>1, <1>2 DEF Leaves

LEMMA LeftStep ==
  ASSUME IInv, StoreInv, NEW w \in Workers, Leaves(w), UNCHANGED <<doc, stored, late>>
  PROVE  StoreStep
<1>1. PICK p \in Process : /\ worker' = [worker EXCEPT ![w] = p] /\ p.lock = "no"
                           /\ p.pc \in {"idle", "enter"}
  BY DEF Leaves
<1>2. p.pc = "write" => p.batch \in Batches
  BY <1>1
<1> QED
  BY <1>1, <1>2, ReleasedStep

-----------------------------------------------------------------------------
(* Steps that change nothing that is stored.                               *)

\* The place of a worker that passes its guard, and what it knows there.
LEMMA HeldPlace ==
  ASSUME IInv, StoreInv, NEW w \in Workers, worker[w].pc # "idle", Held(w)
  PROVE  LET x == worker[w].doc
         IN  /\ x \in Docs /\ doc[x] \in Document /\ worker[w].lock = "yes" /\ Owned(w)
             /\ Fit(worker[w].pc, doc[x], stored[x], x \in late)
             /\ x \notin late => Kept(doc[x], stored[x])
<1>1. worker[w].lock = "yes" /\ Owned(w) /\ LockInv(w)
  BY Zenon DEF Held, StoreInv
<1>2. worker[w].doc \in Docs /\ doc[worker[w].doc] \in Document
  BY <1>1, HeldFacts
<1> QED
  BY <1>1, <1>2, Zenon DEF LockInv, StoreInv

\* A worker with the lock goes on and leaves the row of its version as it is.
LEMMA WalkStep ==
  ASSUME IInv, StoreInv, NEW w \in Workers, worker[w].pc # "idle", Held(w),
         NEW pc, Moves(w, pc), pc \notin {"idle", "enter", "write"},
         UNCHANGED <<doc, stored, late>>,
         Fit(pc, doc[worker[w].doc], stored[worker[w].doc], worker[w].doc \in late)
  PROVE  StoreStep
<1> DEFINE x == worker[w].doc
<1>1. /\ x \in Docs /\ doc[x] \in Document /\ worker[w].lock = "yes"
      /\ x \notin late => Kept(doc[x], stored[x])
  BY HeldPlace
<1>2. doc' = [doc EXCEPT ![x] = doc[x]]
  <2>1. doc \in [Docs -> Document] /\ doc' = doc
    BY Zenon DEF IInv, Shape
  <2> QED
    BY <1>1, <2>1, Zenon
<1>3. Works(w, pc, x, doc[x])
  BY <1>1, <1>2 DEF Works
<1> QED
  BY <1>1, <1>3, LockedStep, Zenon

\* "finish", "check" and "start" promise nothing; the others only a status.
LEMMA PlainFit ==
  ASSUME NEW a, NEW c, NEW hit, NEW pc
  PROVE  /\ pc \in {"start", "check", "finish"} => Fit(pc, a, c, hit)
         /\ pc \in {"build", "wipe", "verify", "failwipe", "mark"}
              /\ a.status \in {"processing", "deleting"} => Fit(pc, a, c, hit)
         /\ pc = "purge" /\ a.status = "deleting" => Fit(pc, a, c, hit)
BY DEF Fit, Building, Removing

LEMMA FailingStep ==
  ASSUME IInv, StoreInv, NEW w \in Workers, worker[w].pc # "idle", Held(w),
         NEW e \in {"retryable", "final"}, Failing(w, e), UNCHANGED <<doc, stored, late>>
  PROVE  StoreStep
<1> DEFINE x == worker[w].doc
<1>1. CASE Moves(w, "finish")
  BY <1>1, WalkStep, PlainFit, Zenon
<1>2. ASSUME doc[x].status = "processing", NEW pc \in {"mark", "failwipe"}, Moves(w, pc)
      PROVE  StoreStep
  <2> HIDE DEF x
  <2>0. x = worker[w].doc
    BY DEF x
  <2>1. Fit(pc, doc[x], stored[x], x \in late) /\ pc \notin {"idle", "enter", "write"}
    BY <1>2, PlainFit
  <2> QED
    BY <1>2, <2>0, <2>1, WalkStep, Zenon
<1>3. \/ Moves(w, "finish")
      \/ doc[x].status = "processing" /\ (Moves(w, "mark") \/ Moves(w, "failwipe"))
  BY FailingMoves
<1> HIDE DEF x
<1> QED
  BY <1>1, <1>2, <1>3

\* Workers that stop, lose their lock, or begin.
LEMMA IdleActions ==
  ASSUME IInv, StoreInv, NEW w \in Workers,
         \/ ReleaseBusy(w) \/ Abandon(w) \/ Crash(w) \/ LoseLock(w) \/ LoseLease(w)
         \/ \E d \in Docs : Claim(w, d)
  PROVE  StoreStep
<1>1. worker \in [Workers -> Process] /\ worker[w] \in Process /\ BatchInv(w)
  BY Zenon DEF IInv, Shape, StoreInv
<1>2. CASE ReleaseBusy(w) \/ Abandon(w) \/ Crash(w)
  <2>1. Leave(w) /\ doc' = doc /\ stored' = stored /\ late' = late
    BY <1>2, Zenon DEF ReleaseBusy, Abandon, Crash, data
  <2> QED
    BY <2>1, LeaveLeaves, LeftStep, Zenon
<1>3. CASE LoseLock(w)
  <2> DEFINE p == [worker[w] EXCEPT !.lock = "no"]
  <2>1. worker' = [worker EXCEPT ![w] = p] /\ doc' = doc /\ stored' = stored /\ late' = late
    BY <1>3, Zenon DEF LoseLock, data
  <2>2. /\ p \in Process /\ p.lock = "no"
        /\ p.pc = worker[w].pc /\ p.batch = worker[w].batch
    BY <1>1 DEF Process, Flag
  <2> HIDE DEF p
  <2>3. p.pc = "write" => p.batch \in Batches
    BY <1>1, <2>2 DEF BatchInv
  <2> QED
    BY <2>1, <2>2, <2>3, ReleasedStep
<1>4. CASE LoseLease(w)
  BY <1>4, IdleStep, Zenon DEF LoseLease
<1>5. ASSUME NEW d \in Docs, Claim(w, d)
      PROVE  StoreStep
  <2> DEFINE p == [Idle EXCEPT !.doc = d, !.kind = job[d].kind, !.pc = "enter",
                               !.fresh = IF job[d].state = "queued" THEN "yes" ELSE "no",
                               !.exhausted = IF Exhausted(d) THEN "yes" ELSE "no"]
  <2>1. job[d] \in JobRow
    BY Zenon DEF IInv, Shape
  <2>2. p \in Process /\ p.pc = "enter" /\ p.lock = "no"
    BY <2>1 DEF Process, Idle, Flag, JobRow
  <2>3. worker' = [worker EXCEPT ![w] = p] /\ doc' = doc /\ stored' = stored /\ late' = late
    BY <1>5, Zenon DEF Claim
  <2> HIDE DEF p
  <2>4. Leaves(w)
    BY <2>2, <2>3 DEF Leaves
  <2> QED
    BY <2>3, <2>4, LeftStep, Zenon
<1> QED
  BY <1>2, <1>3, <1>4, <1>5

LEMMA EnterStore ==
  ASSUME IInv, StoreInv, NEW w \in Workers, Enter(w)
  PROVE  StoreStep
<1> DEFINE x == worker[w].doc
           first == IF worker[w].exhausted = "yes" THEN "finish"
                    ELSE IF worker[w].kind = "delete" THEN "check" ELSE "start"
           p == [worker[w] EXCEPT !.pc = first, !.lock = "yes", !.fresh = "no"]
<1>1. /\ worker \in [Workers -> Process] /\ worker[w] \in Process /\ doc \in [Docs -> Document]
      /\ stored \in [Docs -> Stored] /\ SlotInv(w)
  BY Zenon DEF IInv, Shape, StoreInv
<1>2. /\ worker[w].pc = "enter" /\ LockFree(x) /\ doc' = doc /\ stored' = stored /\ late' = late
  BY Zenon DEF Enter, At, data
<1>3. CASE Owned(w)
  <2>1. worker' = [worker EXCEPT ![w] = p]
    BY <1>1, <1>3 DEF Enter
  <2>2. first \in {"finish", "check", "start"}
    OBVIOUS
  <2> HIDE DEF first
  <2>3. p \in Process /\ p.pc = first /\ p.doc = x /\ p.lock = "yes"
    BY <1>1, <2>2, ZenonT(60) DEF Process, Flag
  <2> HIDE DEF p
  <2>4. x \in Docs /\ x = worker[w].doc
    BY <1>1, <1>2 DEF SlotInv
  <2> HIDE DEF x
  <2>5. doc[x] \in Document /\ stored[x] \in Stored
        /\ doc' = [doc EXCEPT ![x] = doc[x]] /\ stored' = [stored EXCEPT ![x] = stored[x]]
    BY <1>1, <1>2, <2>4, Zenon
  <2>6. Fit(p.pc, doc[x], stored[x], x \in late') /\ p.pc \notin {"idle", "enter", "write"}
    BY <2>2, <2>3, PlainFit
  <2>7. x \notin late => Kept(doc[x], stored[x])
    BY <2>4, Zenon DEF StoreInv
  <2>8. Acts(w, p, x, doc[x], stored[x])
    BY <1>2, <2>1, <2>3, <2>4, <2>5, <2>6, <2>7 DEF Acts
  <2> QED
    BY <2>3, <2>4, <2>5, <2>8, ActorStep
<1>4. CASE ~Owned(w)
  BY <1>2, <1>4, LeaveLeaves, LeftStep, Zenon DEF Enter
<1> QED
  BY <1>3, <1>4

\* Steps with the lock that only look, or fail.
LEMMA LookActions ==
  ASSUME IInv, StoreInv, NEW w \in Workers,
         \/ Verify(w) \/ Check(w)
         \/ \E e \in {"retryable", "final"} : BuildFails(w, e) \/ StepFails(w, e)
  PROVE  StoreStep
<1> DEFINE x == worker[w].doc
<1>1. worker[w].pc # "idle" /\ Held(w) /\ doc' = doc /\ stored' = stored /\ late' = late
  BY DEF Verify, Check, BuildFails, StepFails, At, data
<1>2. /\ doc[x] \in Document /\ Fit(worker[w].pc, doc[x], stored[x], x \in late)
      /\ UNCHANGED <<doc, stored, late>>
  BY <1>1, HeldPlace
<1>3. CASE Verify(w)
  <2>1. CASE Whole(x)
    <3>1. Moves(w, "ready")
      BY <1>3, <2>1, GotoMoves DEF Verify, Places
    <3>2. Fit("ready", doc[x], stored[x], x \in late)
      BY <1>2, <1>3, <2>1 DEF Fit, Verify, At, Whole, Building, Removing
    <3> QED
      BY <1>1, <1>2, <3>1, <3>2, WalkStep, Zenon
  <2>2. CASE ~Whole(x)
    <3>1. Failing(w, "final")
      BY <1>3, <2>2, Zenon DEF Verify
    <3> QED
      BY <1>1, <1>2, <3>1, FailingStep
  <2> QED
    BY <2>1, <2>2
<1>4. CASE Check(w)
  <2>1. CASE Goto(w, "finish") \/ Stop(w, "pinned")
    <3>1. Moves(w, "finish")
      BY <2>1, GotoMoves, StopMoves DEF Places
    <3> QED
      BY <1>1, <1>2, <3>1, PlainFit, WalkStep, Zenon
  <2>2. CASE Goto(w, "purge") /\ doc[x].status = "deleting"
    <3>1. Moves(w, "purge")
      BY <2>2, GotoMoves DEF Places, Outside
    <3>2. Fit("purge", doc[x], stored[x], x \in late)
      BY <2>2, PlainFit
    <3> QED
      BY <1>1, <1>2, <3>1, <3>2, WalkStep, Zenon
  <2> QED
    BY <1>4, <2>1, <2>2, Zenon DEF Check
<1>5. ASSUME NEW e \in {"retryable", "final"}, BuildFails(w, e)
      PROVE  StoreStep
  BY <1>1, <1>2, <1>5, FailingStep, Zenon DEF BuildFails
<1>6. ASSUME NEW e \in {"retryable", "final"}, StepFails(w, e)
      PROVE  StoreStep
  <2>1. Moves(w, "finish")
    BY <1>6, StopMoves DEF StepFails
  <2> QED
    BY <1>1, <1>2, <2>1, PlainFit, WalkStep, Zenon
<1> QED
  BY <1>3, <1>4, <1>5, <1>6

-----------------------------------------------------------------------------
(* Steps with the lock that write to the row of the version.               *)

\* A worker with the lock goes on to pc and gives its version the row b.
LEMMA RowStore ==
  ASSUME IInv, StoreInv, NEW w \in Workers, worker[w].pc # "idle", Held(w),
         NEW pc, Moves(w, pc), pc \notin {"idle", "enter", "write"},
         NEW b \in Document, doc' = [doc EXCEPT ![worker[w].doc] = b],
         stored' = stored, late' = late,
         Fit(pc, b, stored[worker[w].doc], worker[w].doc \in late),
         worker[w].doc \notin late => Kept(b, stored[worker[w].doc])
  PROVE  StoreStep
<1> DEFINE x == worker[w].doc
<1>1. x \in Docs /\ worker[w].lock = "yes"
  BY HeldPlace
<1>2. Works(w, pc, x, b)
  BY <1>1 DEF Works
<1> QED
  BY <1>1, <1>2, LockedStep, Zenon

LEMMA StartStore ==
  ASSUME IInv, StoreInv, NEW w \in Workers, Start(w)
  PROVE  StoreStep
<1> DEFINE x == worker[w].doc
           b == [doc[x] EXCEPT !.status = "processing", !.retry = "no"]
<1>1. worker[w].pc # "idle" /\ Held(w) /\ stored' = stored /\ late' = late
  BY DEF Start, At
<1>2. /\ doc[x] \in Document /\ Fit(worker[w].pc, doc[x], stored[x], x \in late)
      /\ x \notin late => Kept(doc[x], stored[x])
  BY <1>1, HeldPlace
<1>3. CASE doc' = doc /\ (Stop(w, "final") \/ Goto(w, "finish"))
  <2>1. Moves(w, "finish")
    BY <1>3, StopMoves, GotoMoves DEF Places
  <2> QED
    BY <1>1, <1>3, <2>1, PlainFit, WalkStep, Zenon
<1>4. CASE doc' = doc /\ Goto(w, "build") /\ doc[x].status = "processing"
  <2>1. Moves(w, "build")
    BY <1>4, GotoMoves DEF Places
  <2>2. Fit("build", doc[x], stored[x], x \in late)
    BY <1>4, PlainFit
  <2> QED
    BY <1>1, <1>4, <2>1, <2>2, WalkStep, Zenon
<1>5. CASE /\ doc[x].status = "failed" /\ Goto(w, "build")
           /\ doc' = [doc EXCEPT ![x].status = "processing", ![x].retry = "no"]
  <2>1. Moves(w, "build")
    BY <1>5, GotoMoves DEF Places
  <2>2. doc' = [doc EXCEPT ![x] = b]
    <3>1. doc \in [Docs -> Document]
      BY Zenon DEF IInv, Shape
    <3> QED
      BY <1>5, <3>1
  <2>3. b \in Document /\ b.status = "processing"
    BY <1>2 DEF Document, Flag
  <2> HIDE DEF b
  <2>4. Fit("build", b, stored[x], x \in late)
    BY <2>3, PlainFit
  <2>5. x \notin late => Kept(b, stored[x])
    BY <1>2, <1>5, <2>3 DEF Kept
  <2> QED
    BY <1>1, <2>1, <2>2, <2>3, <2>4, <2>5, RowStore, Zenon
<1> QED
  BY <1>3, <1>4, <1>5, Zenon DEF Start

LEMMA BuildStore ==
  ASSUME IInv, StoreInv, NEW w \in Workers, Build(w)
  PROVE  StoreStep
<1> DEFINE x == worker[w].doc
           b == [doc[x] EXCEPT !.index = "building"]
<1>1. /\ worker[w].pc = "build" /\ worker[w].pc # "idle" /\ Held(w)
      /\ stored' = stored /\ late' = late
  BY DEF Build, At
<1>2. /\ doc[x] \in Document /\ Fit(worker[w].pc, doc[x], stored[x], x \in late)
      /\ x \notin late => Kept(doc[x], stored[x])
  BY <1>1, HeldPlace
<1>3. CASE Failing(w, "final") /\ doc' = doc
  BY <1>1, <1>3, FailingStep
<1>4. CASE Goto(w, "wipe") /\ doc' = [doc EXCEPT ![x].index = "building"]
  <2>1. Moves(w, "wipe")
    BY <1>4, GotoMoves DEF Places, Outside
  <2>2. doc' = [doc EXCEPT ![x] = b]
    BY <1>4, Zenon
  <2>3. b \in Document /\ b.status = doc[x].status /\ doc[x].status \in {"processing", "deleting"}
    BY <1>1, <1>2 DEF Document, Fit, Building
  <2> HIDE DEF b
  <2>4. Fit("wipe", b, stored[x], x \in late)
    BY <2>3, PlainFit
  <2>5. x \notin late => Kept(b, stored[x])
    BY <1>2, <2>3 DEF Kept
  <2> QED
    BY <1>1, <2>1, <2>2, <2>3, <2>4, <2>5, RowStore, Zenon
<1> QED
  BY <1>3, <1>4, Zenon DEF Build

\* Only what was verified under the lock becomes ready.
LEMMA ReadyStore ==
  ASSUME IInv, StoreInv, NEW w \in Workers, Ready(w)
  PROVE  StoreStep
<1> DEFINE x == worker[w].doc
           index == IF series.current = x THEN "published" ELSE "verified"
           b == [doc[x] EXCEPT !.status = "ready", !.verified = "yes", !.index = index]
<1>1. /\ worker[w].pc = "ready" /\ worker[w].pc # "idle" /\ Held(w)
      /\ stored' = stored /\ late' = late
  BY DEF Ready, At
<1>2. /\ doc[x] \in Document /\ Fit(worker[w].pc, doc[x], stored[x], x \in late)
      /\ x \notin late => Kept(doc[x], stored[x])
  BY <1>1, HeldPlace
<1>3. Moves(w, "finish")
  BY GotoMoves DEF Ready, Places
<1>4. CASE doc' = doc
  BY <1>1, <1>3, <1>4, PlainFit, WalkStep, Zenon
<1>5. CASE doc' # doc
  <2>1. doc \in [Docs -> Document]
    BY Zenon DEF IInv, Shape
  <2>2. doc[x].status = "processing" /\ doc' = [doc EXCEPT ![x] = b]
    BY <1>5, <2>1 DEF Ready
  <2>3. b \in Document /\ b.status = "ready"
    BY <1>2 DEF Document, Flag
  <2> HIDE DEF b
  <2>4. x \notin late => Kept(b, stored[x])
    BY <1>1, <1>2, <2>2, <2>3 DEF Kept, Fit
  <2> QED
    BY <1>1, <1>3, <2>2, <2>3, <2>4, PlainFit, RowStore, Zenon
<1> QED
  BY <1>4, <1>5

LEMMA MarkStore ==
  ASSUME IInv, StoreInv, NEW w \in Workers, Mark(w)
  PROVE  StoreStep
<1> DEFINE x == worker[w].doc
           retry == IF worker[w].error = "retryable" THEN "yes" ELSE "no"
           index == IF doc[x].index \in Immutable THEN doc[x].index ELSE "failed"
           b == [doc[x] EXCEPT !.status = "failed", !.retry = retry, !.index = index]
<1>1. worker[w].pc # "idle" /\ Held(w) /\ stored' = stored /\ late' = late
  BY DEF Mark, At
<1>2. /\ doc[x] \in Document
      /\ x \notin late => Kept(doc[x], stored[x])
  BY <1>1, HeldPlace
<1>3. Moves(w, "finish")
  BY GotoMoves DEF Mark, Places
<1>4. CASE doc' = doc
  BY <1>1, <1>3, <1>4, PlainFit, WalkStep, Zenon
<1>5. CASE doc' # doc
  <2>1. doc \in [Docs -> Document]
    BY Zenon DEF IInv, Shape
  <2>2. doc[x].status = "processing" /\ doc' = [doc EXCEPT ![x] = b]
    BY <1>5, <2>1 DEF Mark
  <2>3. retry \in Flag /\ (index = doc[x].index \/ index = "failed")
    BY DEF Flag
  <2> HIDE DEF retry, index
  <2>4. b \in Document /\ b.status = "failed"
    BY <1>2, <2>3 DEF Document, Flag
  <2> HIDE DEF b
  <2>5. x \notin late => Kept(b, stored[x])
    BY <1>2, <2>2, <2>4 DEF Kept
  <2> QED
    BY <1>1, <1>3, <2>2, <2>4, <2>5, PlainFit, RowStore, Zenon
<1> QED
  BY <1>4, <1>5

LEMMA RetiredStore ==
  ASSUME IInv, StoreInv, NEW w \in Workers, Retired(w)
  PROVE  StoreStep
<1> DEFINE x == worker[w].doc
           b == [doc[x] EXCEPT !.status = "retired", !.index = "cleaned"]
<1>1. /\ worker[w].pc = "retired" /\ worker[w].pc # "idle" /\ Held(w)
      /\ stored' = stored /\ late' = late
  BY DEF Retired, At
<1>2. /\ doc[x] \in Document /\ Fit(worker[w].pc, doc[x], stored[x], x \in late)
  BY <1>1, HeldPlace
<1>3. Moves(w, "finish")
  BY GotoMoves DEF Retired, Places
<1>4. doc' = [doc EXCEPT ![x] = b]
  <2>1. doc \in [Docs -> Document]
    BY Zenon DEF IInv, Shape
  <2> QED
    BY <2>1 DEF Retired
<1>5. b \in Document /\ b.status = "retired"
  BY <1>2 DEF Document
<1> HIDE DEF b
<1>6. x \notin late => Kept(b, stored[x])
  BY <1>1, <1>2, <1>5 DEF Kept, Fit
<1> QED
  BY <1>1, <1>3, <1>4, <1>5, <1>6, PlainFit, RowStore, Zenon

\* Settling a job makes at most a version in processing of a failed one, or back.
LEMMA FinishStore ==
  ASSUME IInv, StoreInv, NEW w \in Workers, Finish(w)
  PROVE  StoreStep
<1> DEFINE x == worker[w].doc
<1>1. worker[w].pc # "idle" /\ Held(w) /\ Owned(w) /\ Leave(w) /\ stored' = stored /\ late' = late
  BY DEF Finish, At, Held
<1>2. /\ x \in Docs /\ worker[w].lock = "yes"
      /\ x \notin late => Kept(doc[x], stored[x])
  BY <1>1, HeldPlace
<1>3. StepFacts
  BY FinishStep
<1>4. doc \in [Docs -> Document] /\ doc' \in [Docs -> Document] /\ stored \in [Docs -> Stored]
  BY <1>3, Zenon DEF IInv, Shape, StepFacts, StoreInv
<1> DEFINE b == doc'[x]
<1>5. b \in Document /\ doc' = [doc EXCEPT ![x] = b]
  <2>1. \A d \in Docs : d # x => doc'[d] = doc[d]
    BY <1>2, <1>4 DEF Finish
  <2> QED
    BY <1>2, <1>4, <2>1
<1>6. \/ b.status = doc[x].status
      \/ b.status \in {"processing", "failed"} /\ doc[x].status \in {"processing", "failed"}
  <2>1. CASE doc' = doc
    BY <2>1
  <2>2. CASE doc' # doc
    <3>1. worker[w].kind # "delete" /\ Verdict(w) \notin {"succeeded", "cancelled"}
      BY <2>2, Zenon DEF Finish
    <3>2. doc[x].status \notin {"ready", "deleting"}
      BY <3>1, Zenon DEF Verdict
    <3>3. doc[x].status # "retired"
      BY <1>1, <3>1, Zenon DEF IInv, GoneInv
    <3>4. doc[x].status # "absent" /\ doc[x] \in Document
      BY <1>1, HeldFacts
    <3>5. b.status \in {"processing", "failed"}
      BY <1>2, <1>4, <3>1 DEF Finish
    <3> QED
      BY <3>2, <3>3, <3>4, <3>5 DEF Document
  <2> QED
    BY <2>1, <2>2
<1>7. x \notin late => Kept(b, stored[x])
  BY <1>2, <1>6 DEF Kept
<1>8. stored[x] \in Stored /\ stored' = [stored EXCEPT ![x] = stored[x]]
  BY <1>1, <1>2, <1>4, Zenon
<1>9. PICK p \in Process : /\ worker' = [worker EXCEPT ![w] = p] /\ p.lock = "no"
                           /\ p.pc \in {"idle", "enter"}
  BY <1>1, LeaveLeaves, Zenon DEF Leaves
<1>10. Acts(w, p, x, b, stored[x])
  <2> HIDE DEF b
  <2> QED
    BY <1>1, <1>2, <1>5, <1>7, <1>8, <1>9 DEF Acts
<1> QED
  BY <1>2, <1>5, <1>8, <1>9, <1>10, ActorStep, Zenon

-----------------------------------------------------------------------------
(* Calls to the vector store and the file system, which nothing guards.    *)

\* Such a call with the lock is noted at the next place; without it the version
\* is marked as hit, and the guard after the call ends the work.
LEMMA OutsideStep ==
  ASSUME IInv, StoreInv, NEW w \in Workers, worker[w].pc # "idle",
         NEW c \in Stored, doc' = doc, stored' = [stored EXCEPT ![worker[w].doc] = c],
         Touch(w),
         NEW p \in Process, worker' = [worker EXCEPT ![w] = p],
         p.pc = "write" => p.batch \in Batches,
         \/ p.lock = "no"
         \/ /\ Held(w) /\ p.doc = worker[w].doc /\ p.pc \notin {"idle", "enter"}
            /\ Fit(p.pc, doc[worker[w].doc], c, worker[w].doc \in late),
         worker[w].lock = "yes" /\ worker[w].doc \notin late => Kept(doc[worker[w].doc], c)
  PROVE  StoreStep
<1> DEFINE x == worker[w].doc
<1>1. /\ x \in Docs /\ doc \in [Docs -> Document] /\ worker[w] \in Process
      /\ LockInv(w) /\ stored \in [Docs -> Stored]
  BY Zenon DEF IInv, SlotInv, Shape, StoreInv
<1>2. doc[x] \in Document /\ doc' = [doc EXCEPT ![x] = doc[x]] /\ x = worker[w].doc
  BY <1>1, Zenon
<1>3. p \in Process /\ worker' = [worker EXCEPT ![w] = p]
  OBVIOUS
<1> HIDE DEF x
<1>4. CASE worker[w].lock = "yes"
  <2>1. late' = late
    BY <1>4 DEF Touch
  <2>2. x \notin late => Kept(doc[x], c)
    BY <1>2, <1>4, Zenon
  <2>3. p.lock = "yes" => /\ p.doc = x /\ p.pc \notin {"idle", "enter"}
                          /\ Fit(p.pc, doc[x], c, x \in late)
    BY <1>2
  <2>4. Acts(w, p, x, doc[x], c)
    BY <1>2, <1>3, <1>4, <2>1, <2>2, <2>3 DEF Acts
  <2> QED
    BY <1>1, <1>2, <1>3, <2>4, ActorStep
<1>5. CASE worker[w].lock # "yes"
  <2>1. late' = late \cup {x}
    BY <1>2, <1>5 DEF Touch
  <2>2. p.lock # "yes"
    BY <1>5 DEF Held
  <2>3. Acts(w, p, x, doc[x], c)
    BY <1>2, <1>3, <1>5, <2>1, <2>2 DEF Acts
  <2> QED
    BY <1>1, <1>2, <1>3, <2>3, ActorStep
<1> QED
  BY <1>4, <1>5

\* The same with the operators of the actions: the worker goes on to pc or leaves.
LEMMA CallStep ==
  ASSUME IInv, StoreInv, NEW w \in Workers, worker[w].pc # "idle",
         NEW c \in Stored, doc' = doc, stored' = [stored EXCEPT ![worker[w].doc] = c],
         Touch(w), NEW pc \in Places \ {"enter", "write"}, Afterwards(w, pc),
         Held(w) => Fit(pc, doc[worker[w].doc], c, worker[w].doc \in late),
         worker[w].lock = "yes" /\ worker[w].doc \notin late => Kept(doc[worker[w].doc], c)
  PROVE  StoreStep
<1>1. CASE Held(w)
  <2>1. Goto(w, pc)
    BY <1>1, Zenon DEF Afterwards
  <2>2. PICK p \in Process : /\ worker' = [worker EXCEPT ![w] = p] /\ p.pc = pc
                             /\ p.doc = worker[w].doc /\ p.lock = worker[w].lock
    BY <2>1, GotoMoves DEF Moves
  <2>3. /\ Held(w) /\ p.doc = worker[w].doc /\ p.pc \notin {"idle", "enter"}
        /\ Fit(p.pc, doc[worker[w].doc], c, worker[w].doc \in late)
        /\ p.pc # "write"
    BY <1>1, <2>2 DEF Places, Outside
  <2> QED
    BY <2>2, <2>3, OutsideStep, ZenonT(30)
<1>2. CASE ~Held(w)
  <2>1. Leaves(w)
    BY <1>2, LeaveLeaves, Zenon DEF Afterwards
  <2>2. PICK p \in Process : /\ worker' = [worker EXCEPT ![w] = p] /\ p.lock = "no"
                             /\ p.pc \in {"idle", "enter"}
    BY <2>1 DEF Leaves
  <2>3. p.pc # "write"
    BY <2>2
  <2> QED
    BY <2>2, <2>3, OutsideStep, ZenonT(30)
<1> QED
  BY <1>1, <1>2

\* What the holder of the lock knows before such a call.
LEMMA LockedPlace ==
  ASSUME IInv, StoreInv, NEW w \in Workers, worker[w].pc # "idle"
  PROVE  LET x == worker[w].doc
         IN  /\ x \in Docs /\ stored[x] \in Stored /\ doc[x] \in Document
             /\ Held(w) => worker[w].lock = "yes"
             /\ worker[w].lock = "yes" =>
                  /\ Fit(worker[w].pc, doc[x], stored[x], x \in late)
                  /\ x \notin late => Kept(doc[x], stored[x])
<1>1. worker[w].doc \in Docs
  BY Zenon DEF IInv, SlotInv
<1>2. stored[worker[w].doc] \in Stored /\ doc[worker[w].doc] \in Document
  BY <1>1, Zenon DEF IInv, Shape, StoreInv
<1>3. Held(w) => worker[w].lock = "yes"
  BY DEF Held
<1> QED
  BY <1>1, <1>2, <1>3, Zenon DEF StoreInv, LockInv

LEMMA WipeStore ==
  ASSUME IInv, StoreInv, NEW w \in Workers, Wipe(w)
  PROVE  StoreStep
<1> DEFINE x == worker[w].doc
           c == [stored[x] EXCEPT !.chunks = {}]
<1>1. /\ worker[w].pc = "wipe" /\ worker[w].pc # "idle" /\ doc' = doc /\ Touch(w)
  BY DEF Wipe, At
<1>3. /\ stored[x] \in Stored
      /\ worker[w].lock = "yes" => doc[x].status \in {"processing", "deleting"}
      /\ worker[w].lock = "yes" /\ x \notin late => Kept(doc[x], stored[x])
  BY <1>1, LockedPlace DEF Fit, Building
<1>4. c \in Stored /\ c.file = stored[x].file /\ stored' = [stored EXCEPT ![x] = c]
  BY <1>3, Zenon DEF Stored, Wipe
<1> HIDE DEF c
<1>5. worker[w].lock = "yes" /\ x \notin late => Kept(doc[x], c)
  BY <1>3, <1>4 DEF Kept
<1>6. CASE Held(w)
  <2> DEFINE p == [worker[w] EXCEPT !.pc = "write", !.batch = 1]
  <2>1. worker[w] \in Process /\ 1 \in Batches
    BY DocumentAssumption DEF IInv, Shape, Batches
  <2>2. worker' = [worker EXCEPT ![w] = p]
    BY <1>6, <2>1 DEF Wipe, IInv, Shape
  <2>3. /\ p \in Process /\ p.pc = "write" /\ p.batch = 1 /\ p.doc = x
    BY <2>1 DEF Process, Outside
  <2> HIDE DEF p
  <2>4. Fit(p.pc, doc[x], c, x \in late) /\ p.pc \notin {"idle", "enter"}
    BY <1>3, <1>6, <2>3 DEF Fit, Building, Removing, Held
  <2>5. p.pc = "write" => p.batch \in Batches
    BY <2>1, <2>3
  <2> QED
    BY <1>1, <1>4, <1>5, <1>6, <2>2, <2>3, <2>4, <2>5, OutsideStep, ZenonT(30)
<1>7. CASE ~Held(w)
  <2>1. Leaves(w)
    BY <1>7, LeaveLeaves, Zenon DEF Wipe
  <2>2. PICK p \in Process : /\ worker' = [worker EXCEPT ![w] = p] /\ p.lock = "no"
                             /\ p.pc \in {"idle", "enter"}
    BY <2>1 DEF Leaves
  <2>3. p.pc = "write" => p.batch \in Batches
    BY <2>2
  <2> QED
    BY <1>1, <1>4, <1>5, <2>2, <2>3, OutsideStep, ZenonT(30)
<1> QED
  BY <1>6, <1>7

LEMMA WriteStore ==
  ASSUME IInv, StoreInv, NEW w \in Workers, Write(w)
  PROVE  StoreStep
<1> DEFINE x == worker[w].doc
           n == worker[w].batch
           c == [stored[x] EXCEPT !.chunks = stored[x].chunks \cup {n}]
<1>1. /\ worker[w].pc = "write" /\ worker[w].pc # "idle" /\ doc' = doc /\ Touch(w)
  BY DEF Write, At
<1>2. /\ stored[x] \in Stored
      /\ worker[w].lock = "yes" => doc[x].status \in {"processing", "deleting"}
      /\ worker[w].lock = "yes" /\ x \notin late => Kept(doc[x], stored[x])
  BY <1>1, LockedPlace DEF Fit, Building
<1>3. n \in Batches /\ worker[w] \in Process
  BY <1>1 DEF StoreInv, BatchInv, IInv, Shape
<1>4. c \in Stored /\ c.file = stored[x].file /\ stored' = [stored EXCEPT ![x] = c]
  <2>1. stored' = [stored EXCEPT ![x].chunks = @ \cup {n}]
    BY Zenon DEF Write
  <2>2. stored' = [stored EXCEPT ![x] = c]
    BY <2>1
  <2>3. c \in Stored /\ c.file = stored[x].file
    BY <1>2, <1>3 DEF Stored
  <2> QED
    BY <2>2, <2>3
<1> HIDE DEF c
<1>5. worker[w].lock = "yes" /\ x \notin late => Kept(doc[x], c)
  BY <1>2, <1>4 DEF Kept
<1>6. ASSUME Held(w), NEW p \in Process, worker' = [worker EXCEPT ![w] = p],
             p.pc \in {"write", "verify"}, p.pc = "write" => p.batch \in Batches, p.doc = x
      PROVE  StoreStep
  <2>1. Fit(p.pc, doc[x], c, x \in late) /\ p.pc \notin {"idle", "enter"}
    BY <1>2, <1>6 DEF Fit, Building, Removing, Held
  <2> QED
    BY <1>1, <1>4, <1>5, <1>6, <2>1, OutsideStep, ZenonT(30)
<1>7. CASE Held(w) /\ n + 1 \in Batches
  <2> DEFINE p == [worker[w] EXCEPT !.batch = n + 1]
  <2>1. worker' = [worker EXCEPT ![w] = p]
    BY <1>3, <1>7 DEF Write
  <2>2. p \in Process /\ p.pc = "write" /\ p.batch = n + 1 /\ p.doc = x
    BY <1>1, <1>3, <1>7 DEF Process, Outside, Batches
  <2> HIDE DEF p
  <2> QED
    BY <1>6, <1>7, <2>1, <2>2
<1>8. CASE Held(w) /\ n + 1 \notin Batches
  <2>1. Moves(w, "verify")
    BY <1>8, GotoMoves DEF Write, Places
  <2>2. PICK p \in Process : /\ worker' = [worker EXCEPT ![w] = p] /\ p.pc = "verify"
                             /\ p.doc = x
    BY <2>1, Zenon DEF Moves
  <2> HIDE DEF x
  <2> QED
    BY <1>6, <1>8, <2>2
<1>9. CASE ~Held(w)
  <2>1. Leaves(w)
    BY <1>9, LeaveLeaves, Zenon DEF Write
  <2>2. PICK p \in Process : /\ worker' = [worker EXCEPT ![w] = p] /\ p.lock = "no"
                             /\ p.pc \in {"idle", "enter"}
    BY <2>1 DEF Leaves
  <2>3. p.pc = "write" => p.batch \in Batches
    BY <2>2
  <2> QED
    BY <1>1, <1>4, <1>5, <2>2, <2>3, OutsideStep, ZenonT(30)
<1> QED
  BY <1>7, <1>8, <1>9

LEMMA FailWipeStore ==
  ASSUME IInv, StoreInv, NEW w \in Workers, FailWipe(w)
  PROVE  StoreStep
<1> DEFINE x == worker[w].doc
           wiped == [stored[x] EXCEPT !.chunks = {}]
<1>1. /\ worker[w].pc = "failwipe" /\ worker[w].pc # "idle" /\ doc' = doc
      /\ Afterwards(w, "mark")
  BY DEF FailWipe, At
<1>2. /\ x \in Docs /\ stored[x] \in Stored
      /\ worker[w].lock = "yes" => doc[x].status \in {"processing", "deleting"}
      /\ worker[w].lock = "yes" /\ x \notin late => Kept(doc[x], stored[x])
  BY <1>1, LockedPlace DEF Fit, Building
<1>3. CASE stored' = [stored EXCEPT ![x].chunks = {}] /\ Touch(w)
  <2> DEFINE c == wiped
  <2>1. c \in Stored /\ c.file = stored[x].file /\ stored' = [stored EXCEPT ![x] = c]
    BY <1>2, <1>3 DEF Stored
  <2> HIDE DEF wiped
  <2>2. worker[w].lock = "yes" /\ x \notin late => Kept(doc[x], c)
    BY <1>2, <2>1 DEF Kept
  <2>3. Held(w) => Fit("mark", doc[x], c, x \in late)
    BY <1>2, PlainFit DEF Held
  <2>4. "mark" \in Places \ {"enter", "write"}
    BY DEF Places
  <2> QED
    BY <1>1, <1>3, <2>1, <2>2, <2>3, <2>4, CallStep, ZenonT(30)
<1>4. CASE stored' = stored /\ late' = late
  <2>1. CASE Held(w)
    <3>1. Moves(w, "mark")
      BY <1>1, <2>1, GotoMoves DEF Afterwards, Places
    <3>2. Fit("mark", doc[x], stored[x], x \in late)
      BY <1>2, <2>1, PlainFit DEF Held
    <3> QED
      BY <1>1, <1>4, <2>1, <3>1, <3>2, WalkStep, Zenon
  <2>2. CASE ~Held(w)
    BY <1>1, <1>4, <2>2, LeaveLeaves, LeftStep, Zenon DEF Afterwards
  <2> QED
    BY <2>1, <2>2
<1> QED
  BY <1>3, <1>4, Zenon DEF FailWipe

LEMMA PurgeStore ==
  ASSUME IInv, StoreInv, NEW w \in Workers, Purge(w)
  PROVE  StoreStep
<1> DEFINE x == worker[w].doc
           c == [stored[x] EXCEPT !.chunks = {}]
<1>1. /\ worker[w].pc = "purge" /\ worker[w].pc # "idle" /\ doc' = doc /\ Touch(w)
      /\ Afterwards(w, "unlink") /\ stored' = [stored EXCEPT ![x].chunks = {}]
  BY Zenon DEF Purge, At
<1>2. /\ x \in Docs /\ stored[x] \in Stored
      /\ worker[w].lock = "yes" => doc[x].status = "deleting"
  BY <1>1, LockedPlace DEF Fit, Removing
<1>3. c \in Stored /\ c.chunks = {} /\ stored' = [stored EXCEPT ![x] = c]
  BY <1>1, <1>2 DEF Stored
<1> HIDE DEF c
<1>4. worker[w].lock = "yes" /\ x \notin late => Kept(doc[x], c)
  BY <1>2 DEF Kept
<1>5. Held(w) => Fit("unlink", doc[x], c, x \in late)
  BY <1>2, <1>3 DEF Fit, Building, Removing, Held
<1>6. "unlink" \in Places \ {"enter", "write"}
  BY DEF Places, Outside
<1> QED
  BY <1>1, <1>3, <1>4, <1>5, <1>6, CallStep, ZenonT(30)

LEMMA UnlinkStore ==
  ASSUME IInv, StoreInv, NEW w \in Workers, Unlink(w)
  PROVE  StoreStep
<1> DEFINE x == worker[w].doc
           c == [stored[x] EXCEPT !.file = "gone"]
<1>1. /\ worker[w].pc = "unlink" /\ worker[w].pc # "idle" /\ doc' = doc /\ Touch(w)
      /\ Afterwards(w, "retired") /\ stored' = [stored EXCEPT ![x].file = "gone"]
  BY Zenon DEF Unlink, At
<1>2. /\ x \in Docs /\ stored[x] \in Stored
      /\ worker[w].lock = "yes" =>
           /\ doc[x].status = "deleting"
           /\ x \notin late => stored[x].chunks = {}
  BY <1>1, LockedPlace DEF Fit, Removing
<1>3. c \in Stored /\ c.chunks = stored[x].chunks /\ c.file = "gone"
      /\ stored' = [stored EXCEPT ![x] = c]
  BY <1>1, <1>2 DEF Stored
<1> HIDE DEF c
<1>4. worker[w].lock = "yes" /\ x \notin late => Kept(doc[x], c)
  BY <1>2 DEF Kept
<1>5. Held(w) => Fit("retired", doc[x], c, x \in late)
  BY <1>2, <1>3 DEF Fit, Building, Removing, Held
<1>6. "retired" \in Places \ {"enter", "write"}
  BY DEF Places
<1> QED
  BY <1>1, <1>3, <1>4, <1>5, <1>6, CallStep, ZenonT(30)

-----------------------------------------------------------------------------
(* The requests of the owner, and every step.                              *)

LEMMA RequestStores ==
  ASSUME IInv, StoreInv, Request
  PROVE  StoreStep
<1>1. /\ doc \in [Docs -> Document] /\ stored \in [Docs -> Stored]
  BY Zenon DEF IInv, Shape, StoreInv
<1>2. worker' = worker /\ late' = late
  BY Zenon DEF Request, Upload, Retry, Retire, Activate, RetireSeries
<1>3. ASSUME NEW x \in Docs, Upload(x)
      PROVE  StoreStep
  <2>1. stored' \in [Docs -> Stored] /\ stored'[x].file = "present"
    BY <1>1, <1>3 DEF Upload, Stored
  <2>2. ASSUME NEW d \in Docs PROVE PassiveStep(d)
    BY <1>1, <1>3, <2>1 DEF Upload, PassiveStep
  <2> QED
    BY <1>2, <2>1, <2>2, RequestStep
<1>4. ASSUME NEW x \in Docs, Retry(x)
      PROVE  StoreStep
  <2>1. stored' = stored /\ stored[x].file = "present" /\ LockFree(x)
    BY <1>4, Zenon DEF Retry
  <2>2. ASSUME NEW d \in Docs PROVE PassiveStep(d)
    BY <1>1, <1>4, <2>1 DEF Retry, PassiveStep
  <2> QED
    BY <1>1, <1>2, <2>1, <2>2, RequestStep
<1>5. ASSUME NEW x \in Docs, Retire(x)
      PROVE  StoreStep
  <2>1. stored' = stored /\ doc' = [doc EXCEPT ![x].status = "deleting", ![x].index = "retiring"]
    BY <1>5, Zenon DEF Retire
  <2>2. ASSUME NEW d \in Docs PROVE PassiveStep(d)
    BY <1>1, <2>1 DEF PassiveStep
  <2> QED
    BY <1>1, <1>2, <2>1, <2>2, RequestStep
<1>6. ASSUME NEW x \in Docs, NEW expected \in Docs \cup {NoDoc}, Activate(x, expected)
      PROVE  StoreStep
  <2>1. /\ stored' = stored
        /\ doc' = [v \in Docs |->
                     IF v = x THEN [doc[v] EXCEPT !.index = "published"]
                     ELSE IF v = expected THEN [doc[v] EXCEPT !.index = "superseded"]
                     ELSE doc[v]]
    BY <1>6, Zenon DEF Activate
  <2>2. ASSUME NEW d \in Docs PROVE PassiveStep(d)
    <3>1. doc[d] \in Document
      BY <1>1
    <3>2. \/ doc'[d] = doc[d] \/ doc'[d] = [doc[d] EXCEPT !.index = "published"]
          \/ doc'[d] = [doc[d] EXCEPT !.index = "superseded"]
      BY <2>1, Zenon
    <3>3. doc'[d].status = doc[d].status
      BY <3>1, <3>2 DEF Document
    <3> QED
      BY <2>1, <3>3 DEF PassiveStep
  <2> QED
    BY <1>1, <1>2, <2>1, <2>2, RequestStep
<1>7. CASE RetireSeries
  <2> DEFINE pending == {d \in Present : doc[d].status # "retired"}
  <2>1. /\ stored' = stored
        /\ doc' = [d \in Docs |-> IF d \in pending
                                THEN [doc[d] EXCEPT !.status = "deleting", !.index = "retiring"]
                                ELSE doc[d]]
    BY <1>7, Zenon DEF RetireSeries
  <2> HIDE DEF pending
  <2>2. ASSUME NEW d \in Docs PROVE PassiveStep(d)
    <3>1. doc[d] \in Document
      BY <1>1
    <3>2. \/ doc'[d] = doc[d]
          \/ doc'[d] = [doc[d] EXCEPT !.status = "deleting", !.index = "retiring"]
      BY <2>1, Zenon
    <3>3. doc'[d].status \in {doc[d].status, "deleting"}
      BY <3>1, <3>2 DEF Document
    <3> QED
      BY <2>1, <3>3 DEF PassiveStep
  <2> QED
    BY <1>1, <1>2, <2>1, <2>2, RequestStep
<1> QED
  BY <1>3, <1>4, <1>5, <1>6, <1>7, Zenon DEF Request

LEMMA NextStore ==
  ASSUME IInv, StoreInv, [Next]_vars
  PROVE  StoreStep
<1>1. CASE UNCHANGED vars
  BY <1>1, IdleStep, Zenon DEF vars
<1>2. CASE Reader
  <2>1. UNCHANGED <<worker, doc, stored, late>>
    BY <1>2, Zenon DEF Reader, Pin, Lapse, ClaimRun, Validate, Search, Answer, EndRun, data
  <2> QED
    BY <2>1, IdleStep
<1>3. ASSUME NEW w \in Workers, Step(w)
      PROVE  StoreStep
  BY <1>3, IdleActions, EnterStore, LookActions, StartStore, BuildStore, ReadyStore, MarkStore,
     RetiredStore, FinishStore, WipeStore, WriteStore, FailWipeStore, PurgeStore, UnlinkStore,
     Zenon DEF Step
<1>4. ASSUME NEW w \in Workers,
             \/ Fails(w) \/ Crash(w) \/ LoseLock(w) \/ LoseLease(w)
             \/ \E d \in Docs : Claim(w, d)
      PROVE  StoreStep
  BY <1>4, IdleActions, LookActions, Zenon DEF Fails
<1>5. ASSUME NEW d \in Docs, LeaseEnds(d)
      PROVE  StoreStep
  BY <1>5, IdleStep, Zenon DEF LeaseEnds
<1> QED
  BY <1>1, <1>2, <1>3, <1>4, <1>5, RequestStores, Zenon DEF Next

LEMMA InitStore ==
  ASSUME Init
  PROVE  StoreInv
<1>1. stored \in [Docs -> Stored]
  BY DEF Init, Stored
<1>2. \A d \in Docs : Kept(doc[d], stored[d])
  BY DEF Init, Kept
<1>3. \A w \in Workers : LockInv(w) /\ BatchInv(w)
  BY DEF Init, Idle, LockInv, BatchInv
<1> QED
  BY <1>1, <1>2, <1>3 DEF StoreInv

-----------------------------------------------------------------------------
(* The Run that reads.                                                     *)

Left == {"deleting", "retired"}

\* What a Run pinned was ready, and if it found something torn, a version was
\* hit or had left before, which the check in the transaction of its answer sees.
RunInv ==
  /\ run \in Run
  /\ run.state = "none" => run.read = "none"
  /\ \A d \in run.pins : doc[d].status \in {"ready"} \cup Left
  /\ run.read = "torn" => \E d \in run.pins : d \in late \/ doc[d].status \in Left
  /\ run.state = "answered" => run.read = "whole" \/ run.pins \cap late # {}

\* A version that is ready can only leave, and what left stays away.
LEMMA StatusSteps ==
  ASSUME IInv, [Next]_vars, NEW d \in Docs
  PROVE  /\ doc[d].status \in {"ready"} \cup Left => doc'[d].status \in {"ready"} \cup Left
         /\ doc[d].status \in Left => doc'[d].status \in Left
         /\ doc[d].status = "retired" => doc'[d].status = "retired"
<1> DEFINE a == doc[d]  b == doc'[d]  c == series.current  e == series'.current
           j == job[d]  k == job'[d]
<1>1. RowStep(d, a, b, c, e, j, k)
  BY NextFacts, Zenon DEF StepFacts, DocStep
<1> HIDE DEF a, b, c, e, j, k
<1>2. /\ a.status \in {"ready"} \cup Left => b.status \in {"ready"} \cup Left
      /\ a.status \in Left => b.status \in Left
      /\ a.status = "retired" => b.status = "retired"
  BY <1>1 DEF RowStep, Still, Working, Verified, Gone, Opened, Chosen, Replaced,
              Retried, Leaving, Left
<1> QED
  BY <1>2 DEF a, b

LEMMA RunStays ==
  ASSUME IInv, RunInv, [Next]_vars, run' = run, late \subseteq late'
  PROVE  RunInv'
<1>1. run.pins \subseteq Docs
  BY DEF RunInv, Run
<1>2. \A d \in run.pins : doc'[d].status \in {"ready"} \cup Left
  BY <1>1, StatusSteps, Zenon DEF RunInv
<1>3. run.read = "torn" => \E d \in run.pins : d \in late' \/ doc'[d].status \in Left
  BY <1>1, StatusSteps, Zenon DEF RunInv
<1>4. run.state = "answered" => run.read = "whole" \/ run.pins \cap late' # {}
  BY DEF RunInv
<1> QED
  BY <1>2, <1>3, <1>4, Zenon DEF RunInv

\* What the Run does itself.  A search that finds a pinned version incomplete
\* finds one that was hit, or that is not ready any more.
LEMMA RunMoves ==
  ASSUME IInv, StoreInv, RunInv, Reader
  PROVE  RunInv'
<1>1. doc' = doc /\ late' = late
  BY Zenon DEF Reader, Pin, Lapse, ClaimRun, Validate, Search, Answer, EndRun, data
<1>2. /\ run \in Run /\ run.pins \subseteq Docs
      /\ run.read \in {"none", "whole", "torn"}
  BY DEF RunInv, Run
<1>3. ASSUME NEW D \in SUBSET Docs, Pin(D)
      PROVE  RunInv'
  <2>1. /\ run' = [run EXCEPT !.state = "queued", !.pins = D]
        /\ run.read = "none" /\ \A d \in D : doc[d].status = "ready"
    BY <1>3, Zenon DEF Pin, Readable, RunInv
  <2>2. /\ run' \in Run /\ run'.state = "queued" /\ run'.pins = D /\ run'.read = "none"
    BY <1>2, <2>1 DEF Run, ActiveRun
  <2> QED
    BY <1>1, <2>1, <2>2 DEF RunInv
<1>4. ASSUME run' \in Run, run'.pins = run.pins, run'.read = run.read,
             run.state # "none", run'.state \notin {"none", "answered"}
      PROVE  RunInv'
  BY <1>1, <1>4 DEF RunInv
<1>5. CASE Lapse
  <2>1. run' = [run EXCEPT !.expires = "past"] /\ run.state \in ActiveRun
    BY <1>5 DEF Lapse
  <2>2. /\ run' \in Run /\ run'.state = run.state /\ run'.pins = run.pins /\ run'.read = run.read
    BY <1>2, <2>1 DEF Run
  <2> QED
    BY <1>4, <2>1, <2>2 DEF ActiveRun
<1>6. CASE ClaimRun
  <2>1. /\ run' = [run EXCEPT !.state = "running", !.expires = "ahead", !.claims = run.claims + 1]
        /\ run.state \in ActiveRun /\ run.claims < MaxClaims
    BY <1>2, <1>6 DEF ClaimRun, Run
  <2>2. run.claims + 1 \in 0 .. MaxClaims
    BY <1>2, <2>1, DocumentAssumption DEF Run
  <2>3. /\ run' \in Run /\ run'.state = "running" /\ run'.pins = run.pins
        /\ run'.read = run.read
    BY <1>2, <2>1, <2>2 DEF Run, ActiveRun
  <2> QED
    BY <1>4, <2>1, <2>3 DEF ActiveRun
<1>7. CASE Validate
  <2>1. run' = [run EXCEPT !.state = "reading"] /\ run.state = "running"
    BY <1>7 DEF Validate
  <2>2. /\ run' \in Run /\ run'.state = "reading" /\ run'.pins = run.pins /\ run'.read = run.read
    BY <1>2, <2>1 DEF Run, ActiveRun
  <2> QED
    BY <1>4, <2>1, <2>2
<1>8. CASE Search
  <2> DEFINE found == IF run.read # "torn" /\ \A d \in run.pins : Whole(d) THEN "whole" ELSE "torn"
  <2>1. run' = [run EXCEPT !.state = "running", !.read = found] /\ run.state = "reading"
    BY <1>2, <1>8 DEF Search, Run
  <2>2. found \in {"whole", "torn"}
    OBVIOUS
  <2>3. found = "torn" => \E d \in run.pins : d \in late \/ doc[d].status \in Left
    <3>1. CASE run.read = "torn"
      BY <3>1, Zenon DEF RunInv
    <3>2. ASSUME NEW d \in run.pins, ~Whole(d)
          PROVE  d \in late \/ doc[d].status \in Left
      <4>1. d \in Docs /\ doc[d].status \in {"ready"} \cup Left
        BY <1>2, <3>2, Zenon DEF RunInv
      <4>2. d \notin late => Kept(doc[d], stored[d])
        BY <4>1, Zenon DEF StoreInv
      <4> QED
        BY <3>2, <4>1, <4>2 DEF Kept, Whole
    <3> QED
      BY <3>1, <3>2, Zenon
  <2> HIDE DEF found
  <2>4. /\ run' \in Run /\ run'.state = "running" /\ run'.pins = run.pins /\ run'.read = found
    BY <1>2, <2>1, <2>2 DEF Run, ActiveRun
  <2> QED
    BY <1>1, <2>3, <2>4 DEF RunInv
<1>9. CASE Answer
  <2>1. /\ run' = [run EXCEPT !.state = "answered"] /\ run.state = "running" /\ run.read # "none"
        /\ \A d \in run.pins : doc[d].status = "ready"
    BY <1>9, Zenon DEF Answer, MayAnswer, Readable
  <2>2. /\ run' \in Run /\ run'.state = "answered" /\ run'.pins = run.pins
        /\ run'.read = run.read
    BY <1>2, <2>1 DEF Run
  <2>3. run.read = "torn" => run.pins \cap late # {}
    BY <2>1 DEF RunInv, Left
  <2> QED
    BY <1>1, <1>2, <2>1, <2>2, <2>3 DEF RunInv
<1>10. CASE EndRun
  <2>1. run' = [run EXCEPT !.state = "ended"] /\ run.state \in ActiveRun
    BY <1>10 DEF EndRun
  <2>2. /\ run' \in Run /\ run'.state = "ended" /\ run'.pins = run.pins /\ run'.read = run.read
    BY <1>2, <2>1 DEF Run
  <2> QED
    BY <1>4, <2>1, <2>2 DEF ActiveRun
<1> QED
  BY <1>3, <1>5, <1>6, <1>7, <1>8, <1>9, <1>10, Zenon DEF Reader

LEMMA NextRun ==
  ASSUME IInv, StoreInv, RunInv, [Next]_vars
  PROVE  RunInv'
<1>1. late \subseteq late'
  BY NextStore DEF StoreStep
<1>2. CASE Reader
  BY <1>2, RunMoves
<1>3. CASE run' = run
  BY <1>1, <1>3, RunStays
<1>4. CASE UNCHANGED vars
  BY <1>3, <1>4, Zenon DEF vars
<1>5. CASE Request
  BY <1>3, <1>5, Zenon DEF Request, Upload, Retry, Retire, Activate, RetireSeries
<1>6. ASSUME NEW w \in Workers, Step(w)
      PROVE  RunInv'
  BY <1>3, <1>6, Zenon DEF Step, Enter, ReleaseBusy, Finish, Abandon, Start, Build, Wipe,
     Write, Verify, Ready, FailWipe, Mark, Check, Purge, Unlink, Retired
<1>7. ASSUME NEW w \in Workers,
             \/ Fails(w) \/ Crash(w) \/ LoseLock(w) \/ LoseLease(w)
             \/ \E d \in Docs : Claim(w, d)
      PROVE  RunInv'
  BY <1>3, <1>7, Zenon DEF Fails, BuildFails, StepFails, Crash, LoseLock, LoseLease, Claim
<1>8. ASSUME NEW d \in Docs, LeaseEnds(d)
      PROVE  RunInv'
  BY <1>3, <1>8, Zenon DEF LeaseEnds
<1> QED
  BY <1>2, <1>4, <1>5, <1>6, <1>7, <1>8, Zenon DEF Next

LEMMA InitRun ==
  ASSUME Init
  PROVE  RunInv
<1>1. run \in Run
  BY DocumentAssumption DEF Init, Run
<1> QED
  BY <1>1 DEF Init, RunInv

\* What the store keeps of a version agrees with its row, with the places of the
\* lock's holder, and with what a Run has read, in every reachable state.
THEOREM StoreInvariance == Spec => [](StoreInv /\ RunInv)
<1>1. Init => StoreInv /\ RunInv
  BY InitStore, InitRun
<1>2. IInv /\ StoreInv /\ RunInv /\ [Next]_vars => StoreInv' /\ RunInv'
  BY NextStore, NextRun DEF StoreStep
<1> QED
  BY <1>1, <1>2, Invariance, PTL DEF Spec

\* Whatever can be read is complete and its source is there, unless a worker that
\* had lost its lock wrote to it: whichever process built it, was taken over from,
\* or cleans up after a failure.
THEOREM ReadableIsWhole == Spec => []ReadableWhole
<1>1. StoreInv => ReadableWhole
  BY DEF StoreInv, Kept, ReadableWhole, Readable, Whole
<1> QED
  BY <1>1, StoreInvariance, PTL

\* A version called retired has neither fragments nor a file, with that exception.
THEOREM RetiredIsClean == Spec => []RetiredClean
<1>1. StoreInv => RetiredClean
  BY DEF StoreInv, Kept, RetiredClean
<1> QED
  BY <1>1, StoreInvariance, PTL

\* No answer rests on a version that was being removed or rebuilt when it was read.
THEOREM AnswersFromWhole == Spec => []AnswerFromWhole
<1>1. RunInv => AnswerFromWhole
  BY DEF RunInv, AnswerFromWhole
<1> QED
  BY <1>1, StoreInvariance, PTL

-----------------------------------------------------------------------------
(* The task of a series and its parts.                                     *)

\* The versions whose current task is part of it, and those of them that it
\* counts, in the receipts R; the versions there are in the rows D.
Kids(R) == {d \in Docs : R[d] # << >> /\ Last(R[d]).child = "yes"}
Done(R) == {d \in Kids(R) : Last(R[d]).state \in {"succeeded"}}
There(D) == {d \in Docs : D[d].status # "absent"}

\* The parts are on their way out or gone, the other versions were gone before, and
\* the parent P has counted both.
Adds(D, R, P) ==
  /\ \A d \in Kids(R) : /\ D[d].status \in Left
                        /\ Last(R[d]).state = "succeeded" => D[d].status = "retired"
  /\ P.state = "none" => Kids(R) = {}
  /\ P.state # "none" => /\ There(D) # {}
                         /\ \A d \in There(D) \ Kids(R) : D[d].status = "retired"
                         /\ P.total = Cardinality(There(D))
                         /\ P.already = Cardinality(There(D) \ Kids(R))

ParentInv ==
  /\ parent \in Parent /\ (parent.state # "none" <=> series.retired = "yes")
  /\ Adds(doc, receipt, parent)
  /\ ParentTruth

\* If those that were gone before and those that are counted make all, the latter
\* are all the others.
LEMMA AllCounted ==
  ASSUME NEW V, IsFiniteSet(V), NEW K \in SUBSET V, NEW S \in SUBSET K,
         Cardinality(V \ K) + Cardinality(S) = Cardinality(V)
  PROVE  S = K
<1>1. IsFiniteSet(K) /\ V \cap K = K
  BY FS_Subset
<1>2. Cardinality(V \ K) = Cardinality(V) - Cardinality(K)
  BY <1>1, FS_Difference
<1>3. IsFiniteSet(S) /\ IsFiniteSet(V \ K)
  BY <1>1, FS_Subset
<1>4. Cardinality(V) \in Nat /\ Cardinality(K) \in Nat /\ Cardinality(S) \in Nat
  BY <1>1, <1>3, FS_CardinalityType
<1>5. Cardinality(S) = Cardinality(K)
  BY <1>2, <1>4
<1> QED
  BY <1>1, <1>5, FS_Subset

\* What sync_parent makes of the parent.
LEMMA SummaryFacts ==
  ASSUME NEW D, NEW R, NEW P \in Parent, Adds(D, R, P)
  PROVE  /\ Summary(R, P) \in Parent
         /\ Summary(R, P).state = "none" <=> P.state = "none"
         /\ Adds(D, R, Summary(R, P))
         /\ Summary(R, P).state = "succeeded" => \A d \in There(D) : D[d].status = "retired"
<1> DEFINE state ==
             IF P.already + Cardinality(Done(R)) = P.total THEN "succeeded"
             ELSE IF {d \in Kids(R) : Last(R[d]).state \in {"failed", "cancelled"}} # {}
                  THEN "failed"
             ELSE IF \E d \in Kids(R) : Last(R[d]).waiting = "yes" THEN "queued"
             ELSE "running"
           q == [P EXCEPT !.state = state]
<1>1. CASE P.state = "none"
  <2>1. Summary(R, P) = P
    BY <1>1 DEF Summary
  <2> QED
    BY <1>1, <2>1
<1>2. CASE P.state # "none"
  <2>1. Summary(R, P) = q
    BY <1>2 DEF Summary, Kids, Done
  <2>2. state \in {"succeeded", "failed", "queued", "running"}
    OBVIOUS
  <2>3. state = "succeeded" => P.already + Cardinality(Done(R)) = P.total
    OBVIOUS
  <2> HIDE DEF state
  <2>4. q \in Parent /\ q.state = state /\ q.total = P.total /\ q.already = P.already
    BY <2>2 DEF Parent
  <2> HIDE DEF q
  <2>5. Adds(D, R, q)
    BY <1>2, <2>2, <2>4 DEF Adds
  <2>6. ASSUME state = "succeeded", NEW d \in There(D)
        PROVE  D[d].status = "retired"
    <3>1. Kids(R) \in SUBSET There(D) /\ Done(R) \in SUBSET Kids(R)
      BY DEF Adds, Kids, Done, There, Left
    <3>2. Cardinality(There(D) \ Kids(R)) + Cardinality(Done(R)) = Cardinality(There(D))
      BY <1>2, <2>3, <2>6 DEF Adds
    <3>3. IsFiniteSet(There(D))
      BY DocumentAssumption, FS_Subset DEF There
    <3>4. Done(R) = Kids(R)
      BY <3>1, <3>2, <3>3, AllCounted
    <3>5. CASE d \in Kids(R)
      BY <3>4, <3>5 DEF Done, Adds
    <3>6. CASE d \notin Kids(R)
      BY <1>2, <2>6, <3>6 DEF Adds
    <3> QED
      BY <3>5, <3>6
  <2> QED
    BY <1>2, <2>1, <2>2, <2>4, <2>5, <2>6
<1> QED
  BY <1>1, <1>2

LEMMA SummedUp ==
  ASSUME ParentInv, Adds(doc', receipt', parent), parent' = Summary(receipt', parent),
         series'.retired = series.retired
  PROVE  ParentInv'
<1> DEFINE q == Summary(receipt', parent)
<1>1. parent \in Parent
  BY DEF ParentInv
<1>2. /\ q \in Parent /\ (q.state = "none" <=> parent.state = "none")
      /\ Adds(doc', receipt', q)
      /\ q.state = "succeeded" => \A d \in There(doc') : doc'[d].status = "retired"
  BY <1>1, SummaryFacts
<1>3. parent' = q
  OBVIOUS
<1> HIDE DEF q
<1> QED
  BY <1>2, <1>3 DEF ParentInv, ParentTruth, Present, There

-----------------------------------------------------------------------------
(* Steps in which no version gets a new task.                              *)

LEMMA Longer ==
  ASSUME NEW s \in Seq(Receipt), NEW kind \in {"ingest", "delete"}, NEW child \in Flag
  PROVE  DOMAIN Enqueued(s, kind, child) # DOMAIN s
<1> DEFINE t == Enqueued(s, kind, child)
<1>1. t \in Seq(Receipt) /\ Len(t) = Len(s) + 1
  BY EnqueuedFacts
<1> HIDE DEF t
<1>2. /\ DOMAIN t = 1 .. Len(t) /\ DOMAIN s = 1 .. Len(s)
      /\ Len(s) \in Nat /\ Len(t) \in Nat
  BY <1>1, LenProperties
<1>3. Len(t) \in DOMAIN t /\ Len(t) \notin DOMAIN s
  BY <1>1, <1>2
<1> QED
  BY <1>3 DEF t

\* A version appears with its first task.
LEMMA NoNewVersion ==
  ASSUME IInv, [Next]_vars, NEW d \in Docs, DOMAIN receipt'[d] = DOMAIN receipt[d]
  PROVE  doc'[d].status = "absent" <=> doc[d].status = "absent"
<1>1. StepFacts /\ IInv'
  BY NextFacts, InvStep
<1>2. DocInv(d) /\ DocInv(d)'
  BY <1>1, Zenon DEF IInv
<1>3. /\ doc[d].status = "absent" <=> job[d].state = "none"
      /\ doc'[d].status = "absent" <=> job'[d].state = "none"
  BY <1>2, Zenon DEF DocInv
<1>4. TrailStep(receipt[d], receipt'[d], job[d], job'[d])
  BY <1>1, Zenon DEF StepFacts, QueueStep
<1>5. receipt[d] \in Seq(Receipt)
  BY Zenon DEF IInv, Shape
<1>6. ASSUME NEW kind \in {"ingest", "delete"}, NEW child \in Flag,
             receipt'[d] = Enqueued(receipt[d], kind, child)
      PROVE  FALSE
  BY <1>5, <1>6, Longer, Zenon
<1>7. \/ job'[d].state = job[d].state
      \/ job[d].state \in {"queued", "running"} /\ job'[d].state \in {"queued", "running"} \cup Ended
  BY <1>4, <1>6, Zenon DEF TrailStep
<1> QED
  BY <1>3, <1>7 DEF Ended

LEMMA AddsStay ==
  ASSUME IInv, ParentInv, [Next]_vars,
         \A d \in Docs : DOMAIN receipt'[d] = DOMAIN receipt[d],
         \A d \in Docs : receipt[d] # << >> => /\ receipt'[d] # << >>
                                               /\ Last(receipt'[d]).child = Last(receipt[d]).child,
         \A d \in Docs : receipt[d] = << >> => receipt'[d] = << >>,
         \A d \in Kids(receipt) :
           Last(receipt'[d]).state = "succeeded" => doc'[d].status = "retired"
  PROVE  /\ Adds(doc', receipt', parent)
         /\ parent.state = "succeeded" => \A d \in There(doc') : doc'[d].status = "retired"
<1>1. Kids(receipt') = Kids(receipt)
  BY Zenon DEF Kids
<1>2. There(doc') = There(doc)
  BY NoNewVersion, Zenon DEF There
<1>3. \A d \in Docs : /\ doc[d].status \in Left => doc'[d].status \in Left
                      /\ doc[d].status = "retired" => doc'[d].status = "retired"
  BY StatusSteps, Zenon
<1>4. Kids(receipt) \subseteq Docs /\ There(doc) \subseteq Docs
  BY DEF Kids, There
<1>5. Adds(doc, receipt, parent)
  BY DEF ParentInv
<1>6. Adds(doc', receipt', parent)
  <2>1. ASSUME NEW d \in Kids(receipt')
        PROVE  /\ doc'[d].status \in Left
               /\ Last(receipt'[d]).state = "succeeded" => doc'[d].status = "retired"
    BY <1>1, <1>3, <1>4, <1>5, <2>1, Zenon DEF Adds
  <2>2. parent.state = "none" => Kids(receipt') = {}
    BY <1>1, <1>5, Zenon DEF Adds
  <2>3. parent.state # "none" =>
          /\ There(doc') # {}
          /\ \A d \in There(doc') \ Kids(receipt') : doc'[d].status = "retired"
          /\ parent.total = Cardinality(There(doc'))
          /\ parent.already = Cardinality(There(doc') \ Kids(receipt'))
    <3>1. ASSUME parent.state # "none", NEW d \in There(doc') \ Kids(receipt')
          PROVE  doc'[d].status = "retired"
      BY <1>1, <1>2, <1>3, <1>4, <1>5, <3>1, Zenon DEF Adds
    <3> QED
      BY <1>1, <1>2, <1>5, <3>1, Zenon DEF Adds
  <2> QED
    BY <2>1, <2>2, <2>3, Zenon DEF Adds
<1>7. ASSUME parent.state = "succeeded", NEW d \in There(doc')
      PROVE  doc'[d].status = "retired"
  BY <1>2, <1>3, <1>4, <1>7 DEF ParentInv, ParentTruth, Present, There
<1> QED
  BY <1>6, <1>7

\* Nothing happens to tasks and the parent.
LEMMA ParentStays ==
  ASSUME IInv, ParentInv, [Next]_vars, receipt' = receipt, parent' = parent,
         series'.retired = series.retired
  PROVE  ParentInv'
<1>1. \A d \in Kids(receipt) :
        Last(receipt'[d]).state = "succeeded" => doc'[d].status = "retired"
  BY StatusSteps, Zenon DEF ParentInv, Adds, Kids
<1>2. /\ Adds(doc', receipt', parent)
      /\ parent.state = "succeeded" => \A d \in There(doc') : doc'[d].status = "retired"
  BY <1>1, AddsStay
<1> QED
  BY <1>2 DEF ParentInv, ParentTruth, Present, There

\* The current task of x follows its job, and the parent is summed up.
LEMMA ParentSync ==
  ASSUME IInv, ParentInv, [Next]_vars, NEW x \in Docs, job[x].state \in {"queued", "running"},
         NEW state \in ReceiptStates, NEW waiting \in Flag, Sync(x, state, waiting),
         series' = series,
         state = "succeeded" /\ Last(receipt[x]).child = "yes" => doc'[x].status = "retired"
  PROVE  ParentInv'
<1> DEFINE t == Synced(receipt[x], state, waiting)
<1>1. receipt \in [Docs -> Seq(Receipt)] /\ receipt[x] \in Seq(Receipt) /\ receipt[x] # << >>
  BY Zenon DEF IInv, Shape, QueueInv
<1>2. /\ t # << >> /\ Last(t).state = state /\ Last(t).child = Last(receipt[x]).child
      /\ DOMAIN t = DOMAIN receipt[x]
  BY <1>1, SyncedFacts
<1>3. receipt' = [receipt EXCEPT ![x] = t] /\ parent' = Summary(receipt', parent)
  BY DEF Sync
<1> HIDE DEF t
<1>4. /\ receipt'[x] = t
      /\ \A d \in Docs : d # x => receipt'[d] = receipt[d]
  BY <1>1, <1>3, Zenon
<1>5. \A d \in Docs : DOMAIN receipt'[d] = DOMAIN receipt[d]
  BY <1>2, <1>4, Zenon
<1>6. \A d \in Docs : receipt[d] # << >> => /\ receipt'[d] # << >>
                                            /\ Last(receipt'[d]).child = Last(receipt[d]).child
  BY <1>2, <1>4, Zenon
<1>7. \A d \in Docs : receipt[d] = << >> => receipt'[d] = << >>
  BY <1>1, <1>4, Zenon
<1>8. ASSUME NEW d \in Kids(receipt), Last(receipt'[d]).state = "succeeded"
      PROVE  doc'[d].status = "retired"
  <2>1. d \in Docs /\ Last(receipt[d]).child = "yes"
    BY DEF Kids
  <2>2. CASE d = x
    BY <1>2, <1>4, <1>8, <2>1, <2>2, Zenon
  <2>3. CASE d # x
    BY <1>4, <1>8, <2>1, <2>3, StatusSteps, Zenon DEF ParentInv, Adds
  <2> QED
    BY <2>2, <2>3
<1>9. Adds(doc', receipt', parent)
  BY <1>5, <1>6, <1>7, <1>8, AddsStay, Zenon
<1> QED
  BY <1>3, <1>9, SummedUp, Zenon

LEMMA QueueParent ==
  ASSUME IInv, ParentInv, NEW w \in Workers,
         ReleaseBusy(w) \/ Check(w) \/ \E d \in Docs : Claim(w, d)
  PROVE  ParentInv'
<1>1. Next
  BY Zenon DEF Next, Step
<1>2. ASSUME receipt' = receipt, parent' = parent, series' = series
      PROVE  ParentInv'
  BY <1>1, <1>2, ParentStays
<1>3. ASSUME NEW x \in Docs, job[x].state \in {"queued", "running"}, series' = series,
             NEW state \in {"queued", "running"}, NEW waiting \in Flag, Sync(x, state, waiting)
      PROVE  ParentInv'
  BY <1>1, <1>3, ParentSync DEF ReceiptStates
<1>4. CASE ReleaseBusy(w)
  <2>1. CASE UNCHANGED <<job, receipt, parent>>
    BY <1>2, <1>4, <2>1 DEF ReleaseBusy
  <2>2. CASE ~UNCHANGED <<job, receipt, parent>>
    <3>1. Owned(w) /\ Sync(worker[w].doc, "queued", "no") /\ series' = series
          /\ worker[w].pc # "idle"
      BY <1>4, <2>2 DEF ReleaseBusy, At
    <3>2. worker[w].doc \in Docs /\ job[worker[w].doc].state = "running"
      BY <3>1, HeldFacts
    <3> QED
      BY <1>3, <3>1, <3>2 DEF Flag
  <2> QED
    BY <2>1, <2>2
<1>5. CASE Check(w)
  <2>1. worker[w].pc # "idle" /\ Owned(w) /\ series' = series
    BY <1>5 DEF Check, At, Held
  <2>2. worker[w].doc \in Docs /\ job[worker[w].doc].state = "running"
    BY <2>1, HeldFacts
  <2>3. CASE UNCHANGED <<receipt, parent>>
    BY <1>2, <2>1, <2>3
  <2>4. CASE Sync(worker[w].doc, "running", "no")
    BY <1>3, <2>1, <2>2, <2>4 DEF Flag
  <2> QED
    BY <1>5, <2>3, <2>4, Zenon DEF Check
<1>6. ASSUME NEW x \in Docs, Claim(w, x)
      PROVE  ParentInv'
  <2> DEFINE waiting == IF job[x].kind = "delete" THEN Last(receipt[x]).waiting ELSE "no"
  <2>1. job[x].state \in {"queued", "running"} /\ series' = series
    BY <1>6 DEF Claim
  <2>2. Sync(x, "running", waiting)
    BY <1>6, Zenon DEF Claim
  <2>3. waiting \in Flag
    <3>1. receipt[x] # << >> /\ receipt[x] \in Seq(Receipt)
      BY <2>1, Zenon DEF IInv, QueueInv, Shape
    <3>2. Len(receipt[x]) \in 1 .. Len(receipt[x])
      BY <3>1, EmptySeq
    <3>3. Last(receipt[x]) \in Receipt
      BY <3>1, <3>2, ElementOfSeq DEF Last
    <3> QED
      BY <3>3 DEF Receipt, Flag
  <2> HIDE DEF waiting
  <2> QED
    BY <1>3, <2>1, <2>2, <2>3
<1> QED
  BY <1>4, <1>5, <1>6

\* A part counts as done only if its version is gone: an ingestion that still owns
\* the job of a version on its way out reports that it was cancelled.
LEMMA FinishParent ==
  ASSUME IInv, ParentInv, NEW w \in Workers, Finish(w)
  PROVE  ParentInv'
<1> DEFINE x == worker[w].doc
           v == Verdict(w)
           state == IF v = "waiting" THEN "queued" ELSE v
           waiting == IF v = "waiting" THEN "yes" ELSE "no"
<1>1. Next
  BY Zenon DEF Next, Step
<1>2. worker[w].pc # "idle" /\ Owned(w) /\ series' = series /\ Sync(x, state, waiting)
  BY Zenon DEF Finish, At, Held
<1>3. x \in Docs /\ job[x].state = "running"
  BY <1>2, HeldFacts
<1>4. v \in {"succeeded", "waiting", "queued", "failed", "cancelled"}
  BY DEF Verdict
<1>5. state \in ReceiptStates /\ waiting \in Flag /\ (state = "succeeded" => v = "succeeded")
  BY <1>4 DEF ReceiptStates, Ended, Flag
<1>6. ASSUME state = "succeeded", Last(receipt[x]).child = "yes"
      PROVE  doc'[x].status = "retired"
  <2>1. v = "succeeded"
    BY <1>5, <1>6
  <2>2. receipt[x] # << >>
    BY <1>3, Zenon DEF IInv, QueueInv
  <2>3. doc[x].status \in Left
    BY <1>3, <1>6, <2>2 DEF ParentInv, Adds, Kids
  <2>4. doc[x].status = "retired"
    BY <2>1, <2>3 DEF Verdict, Left
  <2> QED
    BY <1>1, <1>3, <2>4, StatusSteps, Zenon
<1> HIDE DEF state, waiting, x
<1> QED
  BY <1>1, <1>2, <1>3, <1>5, <1>6, ParentSync

-----------------------------------------------------------------------------
(* Requests: versions get new tasks.                                       *)

\* As long as the series is open its task does not exist, and no version is a part.
LEMMA OpenParent ==
  ASSUME ParentInv, series'.retired = series.retired, parent' = parent,
         parent.state = "none", Kids(receipt') = {}
  PROVE  ParentInv'
BY DEF ParentInv, Adds, ParentTruth

LEMMA UploadParent ==
  ASSUME IInv, ParentInv, NEW x \in Docs, Upload(x)
  PROVE  ParentInv'
<1> DEFINE t == Enqueued(receipt[x], "ingest", "no")
<1>1. /\ receipt \in [Docs -> Seq(Receipt)] /\ receipt[x] \in Seq(Receipt) /\ series \in Series
  BY Zenon DEF IInv, Shape
<1>2. receipt' = [receipt EXCEPT ![x] = t] /\ parent' = parent
  BY <1>1 DEF Upload
<1>3. Last(t).child = "no"
  BY <1>1, EnqueuedFacts DEF Flag
<1> HIDE DEF t
<1>4. parent.state = "none"
  BY DEF Upload, Bindable, Present, There, ParentInv, Adds
<1>5. Kids(receipt') = {}
  <2>1. Kids(receipt) = {}
    BY <1>4 DEF ParentInv, Adds
  <2> QED
    BY <1>1, <1>2, <1>3, <2>1 DEF Kids
<1>6. series'.retired = series.retired
  BY <1>1 DEF Upload, Bound, Series
<1> QED
  BY <1>2, <1>4, <1>5, <1>6, OpenParent

\* What can be retried is neither on its way out nor gone: its series is open.
LEMMA RetryParent ==
  ASSUME IInv, ParentInv, NEW x \in Docs, Retry(x)
  PROVE  ParentInv'
<1> DEFINE t == Enqueued(receipt[x], "ingest", "no")
<1>1. /\ receipt \in [Docs -> Seq(Receipt)] /\ receipt[x] \in Seq(Receipt)
  BY Zenon DEF IInv, Shape
<1>2. receipt' = [receipt EXCEPT ![x] = t] /\ parent' = parent /\ series' = series
  BY <1>1 DEF Retry
<1>3. Last(t).child = "no"
  BY <1>1, EnqueuedFacts DEF Flag
<1> HIDE DEF t
<1>4. parent.state = "none"
  <2>1. doc[x].status \in {"failed", "processing"}
    BY DEF Retry, Retriable
  <2>2. x \in There(doc) /\ doc[x].status \notin Left /\ doc[x].status # "retired"
    BY <2>1 DEF There, Left
  <2> QED
    BY <2>2, Zenon DEF ParentInv, Adds
<1>5. Kids(receipt') = {}
  <2>1. Kids(receipt) = {}
    BY <1>4 DEF ParentInv, Adds
  <2> QED
    BY <1>1, <1>2, <1>3, <2>1 DEF Kids
<1> QED
  BY <1>2, <1>4, <1>5, OpenParent

\* A part whose retirement is tried again stays a part.
LEMMA RetireParent ==
  ASSUME IInv, ParentInv, NEW x \in Docs, Retire(x)
  PROVE  ParentInv'
<1> DEFINE child == IF job[x].kind = "delete" THEN Last(receipt[x]).child ELSE "no"
           t == Enqueued(receipt[x], "delete", child)
<1>1. /\ receipt \in [Docs -> Seq(Receipt)] /\ receipt[x] \in Seq(Receipt)
      /\ doc \in [Docs -> Document] /\ DocInv(x) /\ QueueInv(x) /\ series \in Series
  BY Zenon DEF IInv, Shape
<1>2. /\ receipt' = [receipt EXCEPT ![x] = t]
      /\ parent' = IF child = "yes" THEN Summary(receipt', parent) ELSE parent
      /\ x \in Present /\ (job[x].kind = "delete" => doc[x].status # "retired")
  BY DEF Retire
<1>3. doc' = [doc EXCEPT ![x].status = "deleting", ![x].index = "retiring"]
  BY DEF Retire
<1>4. /\ doc[x].status \notin {"absent", "retired"} /\ receipt[x] # << >>
      /\ doc[x].status = "deleting" => job[x].kind = "delete"
  BY <1>1, <1>2 DEF Present, DocInv, QueueInv
<1>5. child \in Flag
  <2>1. Len(receipt[x]) \in 1 .. Len(receipt[x])
    BY <1>1, <1>4, EmptySeq
  <2>2. Last(receipt[x]) \in Receipt
    BY <1>1, <2>1, ElementOfSeq DEF Last
  <2> QED
    BY <2>2 DEF Receipt, Flag
<1>6. child = "yes" => Last(receipt[x]).child = "yes"
  OBVIOUS
<1>7. job[x].kind = "delete" => child = Last(receipt[x]).child
  OBVIOUS
<1> HIDE DEF child
<1>8. t # << >> /\ Last(t).child = child /\ Last(t).state = "queued"
  BY <1>1, <1>5, EnqueuedFacts
<1> HIDE DEF t
<1>9. series'.retired = series.retired
  BY <1>1 DEF Retire, Withdrawn, Series
<1>10. /\ receipt'[x] = t /\ doc'[x].status = "deleting"
       /\ \A d \in Docs : d # x => receipt'[d] = receipt[d] /\ doc'[d] = doc[d]
  BY <1>1, <1>2, <1>3
<1>11. CASE parent.state = "none"
  <2>1. Kids(receipt) = {}
    BY <1>11 DEF ParentInv, Adds
  <2>2. child # "yes"
    BY <1>4, <1>6, <2>1 DEF Kids
  <2>3. Kids(receipt') = {}
    BY <1>8, <1>10, <2>1, <2>2 DEF Kids
  <2> QED
    BY <1>2, <1>9, <1>11, <2>2, <2>3, OpenParent
<1>12. CASE parent.state # "none"
  <2>1. x \in Kids(receipt) /\ doc[x].status = "deleting"
    <3>1. x \in There(doc)
      BY <1>4 DEF There
    <3>2. x \in Kids(receipt)
      BY <1>4, <1>12, <3>1, Zenon DEF ParentInv, Adds
    <3>3. doc[x].status \in Left
      BY <3>2, Zenon DEF ParentInv, Adds
    <3> QED
      BY <1>4, <3>2, <3>3 DEF Left
  <2>2. child = "yes"
    BY <1>4, <1>7, <2>1 DEF Kids
  <2>3. Kids(receipt') = Kids(receipt)
    BY <1>8, <1>10, <2>1, <2>2 DEF Kids
  <2>4. There(doc') = There(doc) /\ \A d \in Docs : doc'[d].status = doc[d].status
    BY <1>10, <2>1 DEF There
  <2>5. \A d \in Kids(receipt) : Last(receipt'[d]).state = "succeeded" =>
                                   Last(receipt[d]).state = "succeeded"
    BY <1>8, <1>10 DEF Kids
  <2>6. Adds(doc', receipt', parent)
    <3>1. Adds(doc, receipt, parent) /\ Kids(receipt) \subseteq Docs /\ There(doc) \subseteq Docs
      BY DEF ParentInv, Kids, There
    <3> QED
      BY <2>3, <2>4, <2>5, <3>1 DEF Adds
  <2> QED
    BY <1>2, <1>9, <2>2, <2>6, SummedUp
<1> QED
  BY <1>11, <1>12

LEMMA SeriesParent ==
  ASSUME IInv, ParentInv, RetireSeries
  PROVE  ParentInv'
<1> DEFINE pending == {d \in Present : doc[d].status # "retired"}
           p == [state |-> "queued", total |-> Cardinality(Present),
                 already |-> Cardinality(Present \ pending)]
<1>1. /\ receipt \in [Docs -> Seq(Receipt)] /\ doc \in [Docs -> Document]
  BY Zenon DEF IInv, Shape
<1>2. /\ receipt' = [d \in Docs |-> IF d \in pending THEN Enqueued(receipt[d], "delete", "yes")
                                    ELSE receipt[d]]
      /\ doc' = [d \in Docs |-> IF d \in pending
                                THEN [doc[d] EXCEPT !.status = "deleting", !.index = "retiring"]
                                ELSE doc[d]]
      /\ parent' = Summary(receipt', p)
      /\ Present # {} /\ series.retired = "no"
  BY DEF RetireSeries
<1>3. series'.retired = "yes"
  <2>1. series' = [current |-> NoDoc, retired |-> "yes"]
    BY Zenon DEF RetireSeries
  <2> QED
    BY <2>1
<1>4. Kids(receipt) = {}
  BY <1>2 DEF ParentInv, Adds
<1>5. ASSUME NEW d \in Docs, d \in pending
      PROVE  /\ receipt'[d] # << >> /\ Last(receipt'[d]).child = "yes"
             /\ Last(receipt'[d]).state = "queued" /\ doc'[d].status = "deleting"
  <2>1. receipt'[d] = Enqueued(receipt[d], "delete", "yes") /\ receipt[d] \in Seq(Receipt)
    BY <1>1, <1>2, <1>5, Zenon
  <2>2. doc'[d] = [doc[d] EXCEPT !.status = "deleting", !.index = "retiring"] /\ doc[d] \in Document
    BY <1>1, <1>2, <1>5, Zenon
  <2>3. doc'[d].status = "deleting"
    BY <2>2 DEF Document
  <2> DEFINE t == Enqueued(receipt[d], "delete", "yes")
  <2>4. t # << >> /\ Last(t).child = "yes" /\ Last(t).state = "queued"
    BY <2>1, EnqueuedFacts DEF Flag
  <2>5. receipt'[d] = t
    BY <2>1
  <2> HIDE DEF t
  <2> QED
    BY <2>3, <2>4, <2>5
<1>6. ASSUME NEW d \in Docs, d \notin pending
      PROVE  receipt'[d] = receipt[d] /\ doc'[d] = doc[d]
  BY <1>2, <1>6, Zenon
<1>7. Kids(receipt') = pending
  BY <1>4, <1>5, <1>6 DEF Kids, Present
<1>8. There(doc') = Present
  BY <1>5, <1>6 DEF There, Present
<1>9. IsFiniteSet(Present) /\ IsFiniteSet(Present \ pending)
  BY DocumentAssumption, FS_Subset DEF Present
<1>10. p \in Parent /\ p.state = "queued" /\ p.total = Cardinality(Present)
       /\ p.already = Cardinality(Present \ pending)
  BY <1>9, FS_CardinalityType DEF Parent
<1>11. \A d \in Present \ pending : doc'[d].status = "retired"
  BY <1>6 DEF Present
<1> HIDE DEF p, pending
<1>12. pending \subseteq Docs
  BY DEF pending, Present
<1>13. Adds(doc', receipt', p)
  <2>1. \A d \in Kids(receipt') : /\ doc'[d].status \in Left
                                  /\ Last(receipt'[d]).state # "succeeded"
    BY <1>5, <1>7, <1>12 DEF Left
  <2> QED
    BY <1>2, <1>7, <1>8, <1>10, <1>11, <2>1 DEF Adds
<1> DEFINE q == Summary(receipt', p)
<1>14. /\ q \in Parent /\ (q.state = "none" <=> p.state = "none")
       /\ Adds(doc', receipt', q)
       /\ q.state = "succeeded" => \A d \in There(doc') : doc'[d].status = "retired"
  BY <1>10, <1>13, SummaryFacts
<1>15. parent' = q
  BY <1>2
<1> HIDE DEF q
<1> QED
  BY <1>3, <1>10, <1>14, <1>15 DEF ParentInv, ParentTruth, Present, There

-----------------------------------------------------------------------------

LEMMA NextParent ==
  ASSUME IInv, ParentInv, [Next]_vars
  PROVE  ParentInv'
<1>1. ASSUME receipt' = receipt, parent' = parent, series'.retired = series.retired
      PROVE  ParentInv'
  BY <1>1, ParentStays
<1>2. CASE UNCHANGED vars
  BY <1>1, <1>2, Zenon DEF vars
<1>3. CASE Reader
  BY <1>1, <1>3, Zenon DEF Reader, Pin, Lapse, ClaimRun, Validate, Search, Answer, EndRun, data
<1>4. CASE \E d \in Docs, expected \in Docs \cup {NoDoc} : Activate(d, expected)
  <2>1. series \in Series
    BY Zenon DEF IInv, Shape
  <2>2. /\ receipt' = receipt /\ parent' = parent
        /\ \E d \in Docs : series' = [series EXCEPT !.current = d]
    BY <1>4, Zenon DEF Activate
  <2> QED
    BY <1>1, <2>1, <2>2 DEF Series
<1>5. CASE Request
  BY <1>4, <1>5, UploadParent, RetryParent, RetireParent, SeriesParent, Zenon DEF Request
<1>6. ASSUME NEW w \in Workers, Step(w)
      PROVE  ParentInv'
  <2>1. CASE ReleaseBusy(w) \/ Check(w)
    BY <2>1, QueueParent
  <2>2. CASE Finish(w)
    BY <2>2, FinishParent
  <2>3. CASE \/ Enter(w) \/ Abandon(w) \/ Start(w) \/ Build(w) \/ Wipe(w) \/ Write(w)
             \/ Verify(w) \/ Ready(w) \/ FailWipe(w) \/ Mark(w) \/ Purge(w) \/ Unlink(w)
             \/ Retired(w)
    BY <1>1, <2>3, Zenon DEF Enter, Abandon, Start, Build, Wipe, Write, Verify, Ready,
       FailWipe, Mark, Purge, Unlink, Retired, data
  <2> QED
    BY <1>6, <2>1, <2>2, <2>3, Zenon DEF Step
<1>7. ASSUME NEW w \in Workers,
             Fails(w) \/ Crash(w) \/ LoseLock(w) \/ LoseLease(w)
      PROVE  ParentInv'
  BY <1>1, <1>7, Zenon DEF Fails, BuildFails, StepFails, Crash, LoseLock, LoseLease, data
<1>8. ASSUME NEW w \in Workers, NEW d \in Docs, Claim(w, d)
      PROVE  ParentInv'
  BY <1>8, QueueParent
<1>9. ASSUME NEW d \in Docs, LeaseEnds(d)
      PROVE  ParentInv'
  BY <1>1, <1>9, Zenon DEF LeaseEnds
<1> QED
  BY <1>2, <1>3, <1>5, <1>6, <1>7, <1>8, <1>9, Zenon DEF Next

LEMMA InitParent ==
  ASSUME Init
  PROVE  ParentInv
<1>1. parent \in Parent /\ parent.state = "none" /\ series.retired = "no"
  BY DEF Init, Parent
<1>2. Kids(receipt) = {}
  BY DEF Init, Kids
<1> QED
  BY <1>1, <1>2 DEF ParentInv, Adds, ParentTruth

\* What the task that retires a series knows of its parts is true in every state.
THEOREM ParentInvariance == Spec => []ParentInv
<1>1. Init => ParentInv
  BY InitParent
<1>2. IInv /\ ParentInv /\ [Next]_vars => ParentInv'
  BY NextParent
<1> QED
  BY <1>1, <1>2, Invariance, PTL DEF Spec

\* The task that retires a series reports success only when every version is gone:
\* retries of single versions, attempts that are left over and versions that had
\* gone before are counted neither twice nor too early.
THEOREM ParentsAreTrue == Spec => []ParentTruth
<1>1. ParentInv => ParentTruth
  BY DEF ParentInv
<1> QED
  BY <1>1, ParentInvariance, PTL

-----------------------------------------------------------------------------
(* The limits: attempts are neither overdrawn nor given back below zero.   *)

Bounds ==
  /\ \A d \in Docs : job[d].attempts \in 0 .. MaxAttempts
  /\ \A d \in Docs : Len(receipt[d]) <= MaxReceipts
  /\ \A d \in Docs : job[d].state = "none" => receipt[d] = << >>
  /\ late \subseteq Docs /\ faults \in 0 .. MaxFaults

\* The job of x becomes k.
LEMMA AttemptsKept ==
  ASSUME IInv, Bounds, NEW x \in Docs, NEW k, job' = [job EXCEPT ![x] = k],
         k.attempts \in 0 .. MaxAttempts
  PROVE  \A d \in Docs : job'[d].attempts \in 0 .. MaxAttempts
<1>1. job \in [Docs -> JobRow]
  BY Zenon DEF IInv, Shape
<1>2. job'[x] = k /\ \A d \in Docs : d # x => job'[d] = job[d]
  BY <1>1
<1> QED
  BY <1>2, Zenon DEF Bounds

LEMMA ClaimAttempts ==
  ASSUME IInv, Bounds, NEW w \in Workers, NEW x \in Docs, Claim(w, x)
  PROVE  \A d \in Docs : job'[d].attempts \in 0 .. MaxAttempts
<1> DEFINE n == job[x].attempts
           a == IF Exhausted(x) THEN n ELSE n + 1
           k == [job[x] EXCEPT !.state = "running", !.token = w, !.lease = "live",
                               !.attempts = a]
<1>1. job \in [Docs -> JobRow] /\ job[x] \in JobRow
  BY Zenon DEF IInv, Shape
<1>2. job' = [job EXCEPT ![x] = k]
  BY <1>1 DEF Claim
<1>3. n \in 0 .. MaxAttempts /\ MaxAttempts \in Nat
  BY DocumentAssumption DEF Bounds
<1>4. a \in 0 .. MaxAttempts
  BY <1>3 DEF Exhausted
<1>5. k.attempts = a
  BY <1>1 DEF JobRow
<1> HIDE DEF k, a
<1> QED
  BY <1>2, <1>4, <1>5, AttemptsKept

\* Attempts are given back by a release and by a wait for Runs.
LEMMA ReleaseAttempts ==
  ASSUME IInv, Bounds, NEW w \in Workers, ReleaseBusy(w) \/ Finish(w)
  PROVE  \A d \in Docs : job'[d].attempts \in 0 .. MaxAttempts
<1> DEFINE x == worker[w].doc  n == job[x].attempts
<1>1. CASE job' = job
  BY <1>1 DEF Bounds
<1>2. CASE job' # job
  <2>1. worker[w].pc # "idle" /\ Owned(w)
    BY <1>2, Zenon DEF ReleaseBusy, Finish, At, Held
  <2>2. x \in Docs
    BY <2>1, HeldFacts
  <2>3. job \in [Docs -> JobRow] /\ job[x] \in JobRow
    BY <2>2, Zenon DEF IInv, Shape
  <2>4. n \in 0 .. MaxAttempts /\ MaxAttempts \in Nat
    BY <2>2, DocumentAssumption DEF Bounds
  <2>5. CASE ReleaseBusy(w)
    <3> DEFINE a == IF worker[w].exhausted = "yes" THEN n ELSE n - 1
               k == [job[x] EXCEPT !.state = "queued", !.token = NoDoc, !.lease = "none",
                                   !.attempts = a]
    <3>1. job' = [job EXCEPT ![x] = k] /\ (worker[w].exhausted = "yes" \/ n > 0)
      BY <1>2, <2>3, <2>5 DEF ReleaseBusy
    <3>2. a \in 0 .. MaxAttempts
      BY <2>4, <3>1
    <3>3. k.attempts = a
      BY <2>3 DEF JobRow
    <3> HIDE DEF k, a, x
    <3> QED
      BY <2>2, <3>1, <3>2, <3>3, AttemptsKept
  <2>6. CASE Finish(w)
    <3> DEFINE v == Verdict(w)
               a == IF v = "waiting" /\ n > 0 THEN n - 1 ELSE n
               k == [job[x] EXCEPT !.state = IF v = "waiting" THEN "queued" ELSE v,
                                   !.token = NoDoc, !.lease = "none", !.attempts = a]
    <3>1. job' = [job EXCEPT ![x] = k]
      BY <2>2, <2>3, <2>6 DEF Finish
    <3>2. a \in 0 .. MaxAttempts
      BY <2>4
    <3>3. k.attempts = a
      BY <2>3 DEF JobRow
    <3> HIDE DEF k, a, x
    <3> QED
      BY <2>2, <3>1, <3>2, <3>3, AttemptsKept
  <2> QED
    BY <2>5, <2>6
<1> QED
  BY <1>1, <1>2

\* A request starts to count anew, or leaves the count to the claim that slipped in.
LEMMA RequeuedAttempts ==
  ASSUME IInv, Bounds, NEW d \in Docs, NEW kind, NEW slipped
  PROVE  Requeued(d, kind, slipped).attempts \in 0 .. MaxAttempts
<1> DEFINE j == job[d]
           before == IF worker[j.token].exhausted = "yes" THEN j.attempts ELSE j.attempts - 1
           a == IF before = 0 THEN j.attempts ELSE 0
<1>1. j \in JobRow
  BY Zenon DEF IInv, Shape
<1>2. j.attempts \in 0 .. MaxAttempts /\ 0 \in 0 .. MaxAttempts
  BY DocumentAssumption DEF Bounds
<1>3. a \in 0 .. MaxAttempts
  BY <1>2
<1>4. CASE slipped
  <2>1. Requeued(d, kind, slipped) = [j EXCEPT !.kind = kind, !.attempts = a]
    BY <1>4, Zenon DEF Requeued
  <2> QED
    BY <1>1, <1>3, <2>1 DEF JobRow
<1>5. CASE ~slipped
  <2>1. Requeued(d, kind, slipped) = NewJob(kind)
    BY <1>5, Zenon DEF Requeued
  <2> QED
    BY <1>2, <2>1 DEF NewJob
<1> QED
  BY <1>4, <1>5

LEMMA RequestAttempts ==
  ASSUME IInv, Bounds, Request
  PROVE  \A d \in Docs : job'[d].attempts \in 0 .. MaxAttempts
<1>1. ASSUME NEW d \in Docs, Upload(d)
      PROVE  \A e \in Docs : job'[e].attempts \in 0 .. MaxAttempts
  <2>1. job' = [job EXCEPT ![d] = NewJob("ingest")]
    BY <1>1, Zenon DEF Upload
  <2>2. NewJob("ingest").attempts \in 0 .. MaxAttempts
    BY DocumentAssumption DEF NewJob
  <2> QED
    BY <2>1, <2>2, AttemptsKept
<1>2. ASSUME NEW d \in Docs, Retry(d) \/ Retire(d)
      PROVE  \A e \in Docs : job'[e].attempts \in 0 .. MaxAttempts
  <2>1. \E kind \in {"ingest", "delete"}, slipped \in {FALSE, SlippedIn(d)} :
          job' = [job EXCEPT ![d] = Requeued(d, kind, slipped)]
    BY <1>2, Zenon DEF Retry, Retire
  <2>2. PICK kind \in {"ingest", "delete"}, slipped \in {FALSE, SlippedIn(d)} :
          job' = [job EXCEPT ![d] = Requeued(d, kind, slipped)]
    BY <2>1
  <2>3. Requeued(d, kind, slipped).attempts \in 0 .. MaxAttempts
    BY RequeuedAttempts
  <2> QED
    BY <2>2, <2>3, AttemptsKept
<1>3. ASSUME NEW d \in Docs, NEW expected \in Docs \cup {NoDoc}, Activate(d, expected)
      PROVE  \A e \in Docs : job'[e].attempts \in 0 .. MaxAttempts
  BY <1>3 DEF Activate, Bounds
<1>4. CASE RetireSeries
  <2> DEFINE pending == {d \in Present : doc[d].status # "retired"}
  <2>1. PICK slipped :
          job' = [d \in Docs |-> IF d \in pending THEN Requeued(d, "delete", d \in slipped)
                                 ELSE job[d]]
    BY <1>4, Zenon DEF RetireSeries
  <2> HIDE DEF pending
  <2>2. ASSUME NEW e \in Docs
        PROVE  job'[e].attempts \in 0 .. MaxAttempts
    <3>1. Requeued(e, "delete", e \in slipped).attempts \in 0 .. MaxAttempts
      BY RequeuedAttempts
    <3>2. job'[e] = IF e \in pending THEN Requeued(e, "delete", e \in slipped) ELSE job[e]
      BY <2>1
    <3> QED
      BY <3>1, <3>2 DEF Bounds
  <2> QED
    BY <2>2
<1> QED
  BY <1>1, <1>2, <1>3, <1>4, Zenon DEF Request

LEMMA LeaseAttempts ==
  ASSUME IInv, Bounds, NEW x \in Docs, job' = [job EXCEPT ![x].lease = "expired"]
  PROVE  \A d \in Docs : job'[d].attempts \in 0 .. MaxAttempts
<1> DEFINE k == [job[x] EXCEPT !.lease = "expired"]
<1>1. job \in [Docs -> JobRow] /\ job[x] \in JobRow
  BY Zenon DEF IInv, Shape
<1>2. job' = [job EXCEPT ![x] = k]
  BY <1>1
<1>3. k.attempts = job[x].attempts
  BY <1>1 DEF JobRow
<1>4. k.attempts \in 0 .. MaxAttempts
  BY <1>3 DEF Bounds
<1> HIDE DEF k
<1> QED
  BY <1>2, <1>4, AttemptsKept

LEMMA NextAttempts ==
  ASSUME IInv, Bounds, [Next]_vars
  PROVE  \A d \in Docs : job'[d].attempts \in 0 .. MaxAttempts
<1>1. CASE job' = job
  BY <1>1 DEF Bounds
<1>2. CASE UNCHANGED vars \/ Reader
  BY <1>1, <1>2, Zenon DEF vars, Reader, Pin, Lapse, ClaimRun, Validate, Search, Answer, EndRun,
     data
<1>3. ASSUME NEW w \in Workers, Step(w)
      PROVE  \A d \in Docs : job'[d].attempts \in 0 .. MaxAttempts
  <2>1. CASE ReleaseBusy(w) \/ Finish(w)
    BY <2>1, ReleaseAttempts
  <2>2. CASE \/ Enter(w) \/ Abandon(w) \/ Start(w) \/ Build(w) \/ Wipe(w) \/ Write(w)
             \/ Verify(w) \/ Ready(w) \/ FailWipe(w) \/ Mark(w) \/ Check(w) \/ Purge(w)
             \/ Unlink(w) \/ Retired(w)
    BY <1>1, <2>2, Zenon DEF Enter, Abandon, Start, Build, Wipe, Write, Verify, Ready,
       FailWipe, Mark, Check, Purge, Unlink, Retired, data
  <2> QED
    BY <1>3, <2>1, <2>2, Zenon DEF Step
<1>4. ASSUME NEW w \in Workers, Fails(w) \/ Crash(w) \/ LoseLock(w) \/ LoseLease(w)
      PROVE  \A d \in Docs : job'[d].attempts \in 0 .. MaxAttempts
  <2>1. CASE LoseLease(w)
    <3>1. /\ worker[w].pc # "idle" /\ Owned(w)
          /\ job' = [job EXCEPT ![worker[w].doc].lease = "expired"]
      BY <2>1, Zenon DEF LoseLease, At
    <3>2. worker[w].doc \in Docs
      BY <3>1, HeldFacts
    <3> QED
      BY <3>1, <3>2, LeaseAttempts
  <2>2. CASE Fails(w) \/ Crash(w) \/ LoseLock(w)
    BY <1>1, <2>2, Zenon DEF Fails, BuildFails, StepFails, Crash, LoseLock, data
  <2> QED
    BY <1>4, <2>1, <2>2
<1>5. ASSUME NEW d \in Docs, LeaseEnds(d)
      PROVE  \A e \in Docs : job'[e].attempts \in 0 .. MaxAttempts
  <2>1. job' = [job EXCEPT ![d].lease = "expired"]
    BY <1>5, Zenon DEF LeaseEnds
  <2> QED
    BY <2>1, LeaseAttempts
<1>6. CASE Request
  BY <1>6, RequestAttempts
<1> QED
  BY <1>2, <1>3, <1>4, <1>5, <1>6, ClaimAttempts, Zenon DEF Next

-----------------------------------------------------------------------------
(* A step writes to the last receipt, or adds one if there is room.        *)

LEMMA ReceiptsKept ==
  ASSUME IInv, Bounds, NEW x \in Docs, NEW t, receipt' = [receipt EXCEPT ![x] = t],
         Len(t) <= MaxReceipts
  PROVE  \A d \in Docs : Len(receipt'[d]) <= MaxReceipts
<1>1. receipt \in [Docs -> Seq(Receipt)]
  BY Zenon DEF IInv, Shape
<1>2. receipt'[x] = t /\ \A d \in Docs : d # x => receipt'[d] = receipt[d]
  BY <1>1
<1> QED
  BY <1>2, Zenon DEF Bounds

LEMMA SyncLength ==
  ASSUME IInv, Bounds, NEW x \in Docs, job[x].state \in {"queued", "running"},
         NEW state \in ReceiptStates, NEW waiting \in Flag, Sync(x, state, waiting)
  PROVE  \A d \in Docs : Len(receipt'[d]) <= MaxReceipts
<1> DEFINE s == receipt[x]
           t == Synced(s, state, waiting)
<1>1. receipt \in [Docs -> Seq(Receipt)] /\ s \in Seq(Receipt) /\ s # << >>
  BY Zenon DEF IInv, Shape, QueueInv
<1>2. t \in Seq(Receipt) /\ DOMAIN t = DOMAIN s
  BY <1>1, SyncedFacts
<1>3. receipt' = [receipt EXCEPT ![x] = t]
  BY DEF Sync
<1> HIDE DEF t
<1>4. Len(t) = Len(s)
  BY <1>1, <1>2, LenProperties
<1>5. Len(t) <= MaxReceipts
  BY <1>4 DEF Bounds
<1> QED
  BY <1>3, <1>5, ReceiptsKept

LEMMA EnqueueLength ==
  ASSUME IInv, Bounds, NEW x \in Docs, Len(receipt[x]) < MaxReceipts,
         NEW kind \in {"ingest", "delete"}, NEW child \in Flag
  PROVE  Len(Enqueued(receipt[x], kind, child)) <= MaxReceipts
<1>1. receipt[x] \in Seq(Receipt)
  BY Zenon DEF IInv, Shape
<1>2. Len(Enqueued(receipt[x], kind, child)) = Len(receipt[x]) + 1
  BY <1>1, EnqueuedFacts
<1>3. Len(receipt[x]) \in Nat /\ MaxReceipts \in Nat
  BY <1>1, LenProperties, DocumentAssumption
<1> QED
  BY <1>2, <1>3

LEMMA RequestReceipts ==
  ASSUME IInv, Bounds, Request
  PROVE  \A d \in Docs : Len(receipt'[d]) <= MaxReceipts
<1>1. ASSUME NEW x \in Docs, Upload(x)
      PROVE  \A d \in Docs : Len(receipt'[d]) <= MaxReceipts
  <2>1. receipt' = [receipt EXCEPT ![x] = Enqueued(receipt[x], "ingest", "no")]
    BY <1>1 DEF Upload
  <2>2. job[x].state = "none"
    BY <1>1, Zenon DEF Upload, IInv, DocInv
  <2>3. receipt[x] = << >>
    BY <2>2, Zenon DEF Bounds
  <2>4. Len(receipt[x]) < MaxReceipts
    BY <2>3, DocumentAssumption
  <2> QED
    BY <2>1, <2>4, EnqueueLength, ReceiptsKept DEF Flag
<1>2. ASSUME NEW x \in Docs, Retry(x)
      PROVE  \A d \in Docs : Len(receipt'[d]) <= MaxReceipts
  <2>1. receipt' = [receipt EXCEPT ![x] = Enqueued(receipt[x], "ingest", "no")]
        /\ Len(receipt[x]) < MaxReceipts
    BY <1>2 DEF Retry
  <2> QED
    BY <2>1, EnqueueLength, ReceiptsKept DEF Flag
<1>3. ASSUME NEW x \in Docs, Retire(x)
      PROVE  \A d \in Docs : Len(receipt'[d]) <= MaxReceipts
  <2> DEFINE child == IF job[x].kind = "delete" THEN Last(receipt[x]).child ELSE "no"
  <2>1. receipt' = [receipt EXCEPT ![x] = Enqueued(receipt[x], "delete", child)]
        /\ Len(receipt[x]) < MaxReceipts /\ doc[x].status # "absent"
    BY <1>3 DEF Retire, Present
  <2>2. child \in Flag
    <3>1. receipt[x] # << >> /\ receipt[x] \in Seq(Receipt)
      BY <2>1, Zenon DEF IInv, QueueInv, DocInv, Shape
    <3>2. Len(receipt[x]) \in 1 .. Len(receipt[x])
      BY <3>1, EmptySeq
    <3>3. Last(receipt[x]) \in Receipt
      BY <3>1, <3>2, ElementOfSeq DEF Last
    <3> QED
      BY <3>3 DEF Receipt, Flag
  <2> HIDE DEF child
  <2> QED
    BY <2>1, <2>2, EnqueueLength, ReceiptsKept
<1>4. CASE RetireSeries
  <2> DEFINE pending == {d \in Present : doc[d].status # "retired"}
  <2>1. /\ receipt' = [d \in Docs |-> IF d \in pending
                                      THEN Enqueued(receipt[d], "delete", "yes")
                                      ELSE receipt[d]]
        /\ \A d \in pending : Len(receipt[d]) < MaxReceipts
    BY <1>4, Zenon DEF RetireSeries
  <2> HIDE DEF pending
  <2>2. ASSUME NEW d \in Docs
        PROVE  Len(receipt'[d]) <= MaxReceipts
    <3>1. receipt'[d] = IF d \in pending THEN Enqueued(receipt[d], "delete", "yes")
                        ELSE receipt[d]
      BY <2>1
    <3> QED
      BY <2>1, <3>1, EnqueueLength DEF Bounds, Flag
  <2> QED
    BY <2>2
<1>5. ASSUME NEW x \in Docs, NEW expected \in Docs \cup {NoDoc}, Activate(x, expected)
      PROVE  \A d \in Docs : Len(receipt'[d]) <= MaxReceipts
  BY <1>5 DEF Activate, Bounds
<1> QED
  BY <1>1, <1>2, <1>3, <1>4, <1>5, Zenon DEF Request

LEMMA NextReceipts ==
  ASSUME IInv, Bounds, [Next]_vars
  PROVE  \A d \in Docs : Len(receipt'[d]) <= MaxReceipts
<1>1. CASE receipt' = receipt
  BY <1>1 DEF Bounds
<1>2. CASE UNCHANGED vars \/ Reader
  BY <1>1, <1>2, Zenon DEF vars, Reader, Pin, Lapse, ClaimRun, Validate, Search, Answer, EndRun,
     data
<1>3. ASSUME NEW d \in Docs, NEW w \in Workers, Claim(w, d)
      PROVE  \A e \in Docs : Len(receipt'[e]) <= MaxReceipts
  <2> DEFINE waiting == IF job[d].kind = "delete" THEN Last(receipt[d]).waiting ELSE "no"
  <2>1. job[d].state \in {"queued", "running"} /\ Sync(d, "running", waiting)
    BY <1>3, Zenon DEF Claim
  <2>2. waiting \in Flag
    <3>1. receipt[d] # << >> /\ receipt[d] \in Seq(Receipt)
      BY <2>1, Zenon DEF IInv, QueueInv, Shape
    <3>2. Len(receipt[d]) \in 1 .. Len(receipt[d])
      BY <3>1, EmptySeq
    <3>3. Last(receipt[d]) \in Receipt
      BY <3>1, <3>2, ElementOfSeq DEF Last
    <3> QED
      BY <3>3 DEF Receipt, Flag
  <2> HIDE DEF waiting
  <2> QED
    BY <2>1, <2>2, SyncLength DEF ReceiptStates
<1>4. ASSUME NEW w \in Workers, Step(w)
      PROVE  \A d \in Docs : Len(receipt'[d]) <= MaxReceipts
  <2>1. CASE ReleaseBusy(w) \/ Finish(w) \/ Check(w)
    <3>1. CASE receipt' = receipt
      BY <1>1, <3>1
    <3>2. CASE receipt' # receipt
      <4>1. worker[w].pc # "idle" /\ Owned(w)
        BY <2>1, <3>2, Zenon DEF ReleaseBusy, Finish, Check, At, Held
      <4>2. worker[w].doc \in Docs /\ job[worker[w].doc].state \in {"queued", "running"}
        BY <4>1, HeldFacts
      <4>3. ASSUME NEW state \in ReceiptStates, NEW waiting \in Flag,
                   Sync(worker[w].doc, state, waiting)
            PROVE  \A d \in Docs : Len(receipt'[d]) <= MaxReceipts
        BY <4>2, <4>3, SyncLength
      <4>4. "queued" \in ReceiptStates /\ "running" \in ReceiptStates /\ "no" \in Flag
            /\ "yes" \in Flag
        BY DEF ReceiptStates, Flag
      <4>5. CASE ReleaseBusy(w)
        BY <3>2, <4>3, <4>4, <4>5, Zenon DEF ReleaseBusy
      <4>6. CASE Check(w)
        BY <3>2, <4>3, <4>4, <4>6, Zenon DEF Check
      <4>7. CASE Finish(w)
        <5> DEFINE v == Verdict(w)
                   state == IF v = "waiting" THEN "queued" ELSE v
                   waiting == IF v = "waiting" THEN "yes" ELSE "no"
        <5>1. Sync(worker[w].doc, state, waiting)
          BY <4>7, Zenon DEF Finish
        <5>2. v \in {"succeeded", "waiting", "queued", "failed", "cancelled"}
          BY DEF Verdict
        <5>3. state \in ReceiptStates /\ waiting \in Flag
          BY <5>2 DEF ReceiptStates, Ended, Flag
        <5> HIDE DEF state, waiting
        <5> QED
          BY <4>3, <5>1, <5>3
      <4> QED
        BY <2>1, <4>5, <4>6, <4>7
    <3> QED
      BY <3>1, <3>2
  <2>2. CASE \/ Enter(w) \/ Abandon(w) \/ Start(w) \/ Build(w) \/ Wipe(w) \/ Write(w)
             \/ Verify(w) \/ Ready(w) \/ FailWipe(w) \/ Mark(w) \/ Purge(w) \/ Unlink(w)
             \/ Retired(w)
    BY <1>1, <2>2, Zenon DEF Enter, Abandon, Start, Build, Wipe, Write, Verify, Ready,
       FailWipe, Mark, Purge, Unlink, Retired, data
  <2> QED
    BY <1>4, <2>1, <2>2, Zenon DEF Step
<1>5. ASSUME NEW w \in Workers, Fails(w) \/ Crash(w) \/ LoseLock(w) \/ LoseLease(w)
      PROVE  \A d \in Docs : Len(receipt'[d]) <= MaxReceipts
  BY <1>1, <1>5, Zenon DEF Fails, BuildFails, StepFails, Crash, LoseLock, LoseLease, data
<1>6. ASSUME NEW d \in Docs, LeaseEnds(d)
      PROVE  \A e \in Docs : Len(receipt'[e]) <= MaxReceipts
  BY <1>1, <1>6, Zenon DEF LeaseEnds
<1> QED
  BY <1>2, <1>3, <1>4, <1>5, <1>6, RequestReceipts, Zenon DEF Next

LEMMA NextFaults ==
  ASSUME IInv, Bounds, [Next]_vars
  PROVE  late' \subseteq Docs /\ faults' \in 0 .. MaxFaults
<1>1. CASE faults' = faults /\ late' = late
  BY <1>1 DEF Bounds
<1>2. CASE UNCHANGED vars \/ Request \/ Reader
  BY <1>1, <1>2, Zenon DEF vars, Request, Upload, Retry, Retire, Activate, RetireSeries, Reader,
     Pin, Lapse, ClaimRun, Validate, Search, Answer, EndRun
<1>3. ASSUME NEW w \in Workers, worker[w].pc # "idle", faults' = faults,
             late' = late \/ Touch(w)
      PROVE  late' \subseteq Docs /\ faults' \in 0 .. MaxFaults
  <2>1. worker[w].doc \in Docs
    BY <1>3, Zenon DEF IInv, SlotInv
  <2> QED
    BY <1>3, <2>1 DEF Touch, Bounds
<1>4. ASSUME NEW w \in Workers, Step(w)
      PROVE  late' \subseteq Docs /\ faults' \in 0 .. MaxFaults
  <2>1. CASE Wipe(w) \/ Write(w) \/ FailWipe(w) \/ Purge(w) \/ Unlink(w)
    BY <1>3, <2>1, Zenon DEF Wipe, Write, FailWipe, Purge, Unlink, At
  <2>2. CASE \/ Enter(w) \/ ReleaseBusy(w) \/ Finish(w) \/ Abandon(w) \/ Start(w) \/ Build(w)
             \/ Verify(w) \/ Ready(w) \/ Mark(w) \/ Check(w) \/ Retired(w)
    BY <1>1, <2>2, Zenon DEF Enter, ReleaseBusy, Finish, Abandon, Start, Build, Verify, Ready,
       Mark, Check, Retired
  <2> QED
    BY <1>4, <2>1, <2>2, Zenon DEF Step
<1>5. CASE late' = late /\ Fault
  BY <1>5, DocumentAssumption DEF Fault, Bounds
<1>6. ASSUME NEW w \in Workers,
             \/ Fails(w) \/ Crash(w) \/ LoseLock(w) \/ LoseLease(w)
             \/ \E d \in Docs : Claim(w, d)
      PROVE  late' \subseteq Docs /\ faults' \in 0 .. MaxFaults
  BY <1>1, <1>5, <1>6, Zenon DEF Fails, BuildFails, StepFails, Crash, LoseLock, LoseLease, Claim
<1>7. ASSUME NEW d \in Docs, LeaseEnds(d)
      PROVE  late' \subseteq Docs /\ faults' \in 0 .. MaxFaults
  BY <1>1, <1>7, Zenon DEF LeaseEnds
<1> QED
  BY <1>2, <1>4, <1>6, <1>7, Zenon DEF Next

LEMMA InitBounds ==
  ASSUME Init
  PROVE  Bounds
BY DocumentAssumption DEF Init, Bounds

\* The queue never grants more than MaxAttempts attempts to one request, nor gives back
\* more than were taken, whoever claims, releases, waits or slips in; and all
\* variables keep their types.
THEOREM TypesHold == Spec => []TypeOK
<1>1. Init => Bounds
  BY InitBounds
<1>2. IInv /\ Bounds /\ [Next]_vars => Bounds'
  <2> SUFFICES ASSUME IInv, Bounds, [Next]_vars
               PROVE  Bounds'
    OBVIOUS
  <2>1. ASSUME NEW d \in Docs, job'[d].state = "none"
        PROVE  receipt'[d] = << >>
    <3>1. QueueStep(d)
      BY NextFacts, Zenon DEF StepFacts
    <3>2. receipt'[d] = receipt[d] /\ job[d].state = "none"
      BY <2>1, <3>1, Zenon DEF QueueStep, TrailStep, Ended
    <3> QED
      BY <3>2 DEF Bounds
  <2> QED
    BY <2>1, NextAttempts, NextReceipts, NextFaults, Zenon DEF Bounds
<1>3. IInv /\ StoreInv /\ RunInv /\ ParentInv /\ Bounds => TypeOK
  <2> SUFFICES ASSUME IInv, StoreInv, RunInv, ParentInv, Bounds
               PROVE  TypeOK
    OBVIOUS
  <2>1. job \in [Docs -> JobRow] /\ \A d \in Docs : job[d].attempts \in 0 .. MaxAttempts
    BY Zenon DEF IInv, Shape, Bounds
  <2>2. job \in [Docs -> Job]
    BY <2>1 DEF JobRow, Job
  <2> QED
    BY <2>2, Zenon DEF TypeOK, IInv, Shape, StoreInv, RunInv, ParentInv, Bounds
<1> QED
  BY <1>1, <1>2, <1>3, Invariance, StoreInvariance, ParentInvariance, PTL DEF Spec

=============================================================================
