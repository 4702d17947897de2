-------------------------- MODULE EvaluationJobsProofs --------------------------
(***************************************************************************)
(* Proofs about EvaluationJobs, for any number of jobs, cases, processes,  *)
(* attempts and faults: the report of a job rests on what the Runs and the *)
(* reviewer of its cases said, and a confirmed review is never paid again. *)
(*                                                                         *)
(* A process keeps what it read while its job may be taken over, cancelled *)
(* or ended.  The invariant therefore says two things of a process: what   *)
(* stays true of a Run whoever holds the job (WorkerOK), and what is true  *)
(* of the cases as long as the process holds the job (HolderOK).           *)
(***************************************************************************)
EXTENDS EvaluationJobs, WellFoundedInduction, TLAPS

-----------------------------------------------------------------------------
(* The inductive invariant.                                                *)

\* A job that is cancelled or has ended never runs again.
Over(j) == job[j].state \in {"cancelling"} \cup Terminal

Reviewing == {"judge", "ask", "confirm"}
Known == {"drop", "save"} \cup Reviewing   \* the process knows its verdict
Following == {"read", "take", "generate", "commit", "busy", "fail", "stopRun", "endRun",
              "reread", "result"} \cup Known
AtCase == {"case", "create"} \cup Following
Working == {"next", "finish"} \cup AtCase
FailedRun == {"failed", "cancelled", "interrupted"}
\* What the Run of a case may have become and said when its answer is saved.
Endings == {<<"succeeded", "answer">>, <<"waiting", "question">>} \cup ({"succeeded", "waiting"} \X {"malformed"})

\* The message of a Run agrees with its state.
RunTrue(r) ==
  /\ r.state = "succeeded" => r.said \in {"answer", "malformed"}
  /\ r.state = "waiting" => r.said \in {"question", "malformed"}
  /\ r.said = "answer" => r.state = "succeeded"
  /\ r.said = "question" => r.state \in {"waiting", "cancelled", "interrupted"}
  /\ r.said = "malformed" => r.state \in {"succeeded", "waiting", "cancelled", "interrupted"}

RunOK(c) == RunTrue(run[c]) /\ (run[c].state = "cancelling" => Over(c[1]))

\* Where a process is and what it remembers of its case.
Placed(w) ==
  /\ worker[w].at \in {"defer", "deferLost", "handler", "start"} \cup Working => Mine(w) \in Jobs
  /\ worker[w].at \in AtCase => worker[w].todo # {}
  /\ worker[w].at = "finish" => worker[w].todo = {}

Seen(w) ==
  \/ worker[w].saw = "succeeded" /\ run[At(w)].said \in {"answer", "malformed"}
  \/ worker[w].saw = "waiting" /\ run[At(w)].said \in {"question", "malformed"}
  \/ worker[w].saw \in FailedRun /\ run[At(w)].state = worker[w].saw
  \/ worker[w].saw = "cancelling" /\ Over(Mine(w))

Rests(w) ==
  /\ worker[w].verdict # "none"
  /\ worker[w].verdict \in {"answer", "question", "malformed"} => run[At(w)].said = worker[w].verdict
  /\ worker[w].verdict = "generation" => run[At(w)].state \in FailedRun

WorkerOK(w) ==
  /\ Placed(w)
  /\ \A c \in worker[w].stale : Over(c[1])
  /\ worker[w].at = "stopRun" => Over(Mine(w))
  /\ worker[w].at \in Following => run[At(w)].state # "none"
  /\ worker[w].at = "reread" => run[At(w)].state \in FailedRun \cup {"succeeded", "waiting"}
  /\ worker[w].at = "result" => Seen(w)
  /\ worker[w].at = "drop" => worker[w].verdict = "question"
  /\ worker[w].at \in Reviewing => worker[w].verdict \in {"answer", "question"}
  /\ worker[w].at \in Known => Rests(w)

\* What the holder of a job may rely on: nobody else touches its cases.
Reliable(w) ==
  /\ \A i \in 1..NumCases :
       i \notin worker[w].todo => case[<<Mine(w), i>>].state \notin {"queued", "running"}
  /\ worker[w].at = "ask" =>
       case[At(w)].receipt = "started" /\ asked[At(w)] < case[At(w)].tries
  /\ worker[w].at = "save" /\ worker[w].verdict \in {"answer", "question"} =>
       case[At(w)].receipt = "succeeded"

HolderOK(w) == worker[w].at \in Working /\ Holds(w) => Reliable(w)

\* ReportTruth of one case, and what is asked and known before the job ends.
Reported(c) ==
  /\ job[c[1]].state \in Terminal => case[c].state \notin {"queued", "running"}
  /\ job[c[1]].state = "succeeded" => case[c].verdict # "none"
  /\ case[c].verdict \in {"answer", "question"} =>
       case[c].receipt = "succeeded" /\ run[c].said = case[c].verdict
  /\ case[c].verdict = "malformed" => run[c].said = "malformed" /\ case[c].receipt = "none"
  /\ case[c].verdict = "generation" => run[c].state \in FailedRun /\ run[c].said # "answer"

\* A review is opened only of a valid message.
CaseOK(c) ==
  /\ asked[c] <= case[c].tries
  /\ case[c].receipt # "none" => run[c].said \in {"answer", "question"}
  /\ \/ case[c].state \in {"queued", "running"}
     \/ case[c].verdict # "none"
     \/ job[c[1]].state \in Terminal
  /\ Reported(c)

IInv ==
  /\ TypeOK
  /\ \A c \in stops : Over(c[1])
  /\ \A c \in Cases : RunOK(c)
  /\ \A w \in Workers : WorkerOK(w)
  /\ \A w \in Workers : HolderOK(w)
  /\ \A c \in Cases : CaseOK(c)

-----------------------------------------------------------------------------
(* What a step keeps, seen from those who do not take it.                  *)

\* A Run that has said something or ended stays so.
GoesOn(r, s) ==
  /\ r.said # "none" => s.said = r.said
  /\ r.state # "none" => s.state # "none"
  /\ r.state \in FailedRun \cup {"succeeded"} => s.state = r.state
  /\ r.state = "waiting" => s.state \in {"waiting", "cancelled", "interrupted"}

RunsGoOn == \A c \in Cases : RunOK(c)' /\ GoesOn(run[c], run'[c])

JobsGoOn ==
  \A j \in Jobs : /\ Over(j) => Over(j)'
                  /\ job[j].state \in Terminal => job'[j].state = job[j].state

WorkerKept(u) == worker'[u] = worker[u]

HolderKept(u) ==
  /\ WorkerKept(u)
  /\ worker[u].at \in Working /\ Holds(u)' =>
       /\ Holds(u)
       /\ \A i \in 1..NumCases : /\ case'[<<Mine(u), i>>] = case[<<Mine(u), i>>]
                                 /\ asked'[<<Mine(u), i>>] = asked[<<Mine(u), i>>]

CaseKept(c) ==
  /\ case'[c] = case[c] /\ asked'[c] = asked[c]
  /\ job'[c[1]].state \in Terminal => job'[c[1]].state = job[c[1]].state

\* The least of some numbers.
LEMMA Least ==
  ASSUME NEW T \in SUBSET Nat, T # {}
  PROVE  Min(T) \in T /\ \A x \in T : Min(T) <= x
<1> DEFINE R == {ss \in Nat \X Nat : ss[1] < ss[2]}
<1>1. IsWellFoundedOn(R, Nat)
  BY NatLessThanWellFounded DEF OpToRel
<1>2. PICK x \in T : \A y \in T : ~(<<y, x>> \in R)
  <2> HIDE DEF R
  <2> QED
    BY <1>1, WFMin
<1>3. \A y \in T : ~(y < x)
  BY <1>2
<1>4. \E z \in T : \A y \in T : z <= y
  BY <1>3
<1> QED
  BY <1>4, Zenon DEF Min

\* The case under way is one of the job's, and on the list.
LEMMA CaseUnderWay ==
  ASSUME TypeOK, NEW w \in Workers, Placed(w), worker[w].at \in AtCase
  PROVE  /\ At(w) \in Cases /\ At(w)[1] = Mine(w) /\ At(w)[2] = Min(worker[w].todo)
         /\ Min(worker[w].todo) \in worker[w].todo /\ Min(worker[w].todo) \in 1..NumCases
         /\ Mine(w) \in Jobs
<1>1. worker[w].todo \in SUBSET (1..NumCases) /\ worker[w].todo # {}
  BY DEF TypeOK, Worker, Placed
<1>2. worker[w].todo \in SUBSET Nat
  BY <1>1, EvaluationAssumption
<1>3. Min(worker[w].todo) \in worker[w].todo
  BY <1>1, <1>2, Least
<1>4. Mine(w) \in Jobs
  BY DEF Placed, Working
<1> QED
  BY <1>1, <1>3, <1>4 DEF At, Cases

LEMMA WorkerCarried ==
  ASSUME IInv, RunsGoOn, JobsGoOn, NEW u \in Workers, WorkerKept(u)
  PROVE  WorkerOK(u)'
<1>1. WorkerOK(u) /\ Mine(u)' = Mine(u) /\ At(u)' = At(u)
  BY DEF IInv, WorkerKept, Mine, At
<1>2. Placed(u)'
  BY <1>1 DEF WorkerOK, Placed, WorkerKept
<1>3. \A c \in worker'[u].stale : Over(c[1])'
  <2>1. worker[u].stale \subseteq Cases
    BY DEF IInv, TypeOK, Worker
  <2> QED
    BY <1>1, <2>1 DEF WorkerOK, WorkerKept, JobsGoOn, Cases
<1>4. ASSUME worker[u].at \in AtCase
      PROVE  /\ At(u) \in Cases /\ Mine(u) \in Jobs
             /\ RunOK(At(u))' /\ GoesOn(run[At(u)], run'[At(u)])
             /\ Over(Mine(u)) => Over(Mine(u))'
  <2>1. At(u) \in Cases /\ Mine(u) \in Jobs
    BY <1>1, <1>4, CaseUnderWay DEF IInv, WorkerOK
  <2>2. RunOK(At(u))' /\ GoesOn(run[At(u)], run'[At(u)])
    <3> DEFINE c == At(u)
    <3>1. ASSUME NEW d \in Cases PROVE RunOK(d)' /\ GoesOn(run[d], run'[d])
      BY DEF RunsGoOn
    <3>2. \A d \in Cases : RunTrue(run'[d]) /\ (run'[d].state = "cancelling" => Over(d[1])')
      BY <3>1 DEF RunOK
    <3> QED
      BY <1>1, <2>1, <3>1, <3>2 DEF RunOK, Over
  <2>3. Over(Mine(u)) => Over(Mine(u))'
    BY <1>1, <2>1 DEF JobsGoOn, Over
  <2> QED
    BY <2>1, <2>2, <2>3
<1>5. worker[u].at = "stopRun" => Over(Mine(u))'
  BY <1>1, <1>4 DEF WorkerOK, AtCase, Following
<1>6. worker[u].at \in Following => run'[At(u)].state # "none"
  BY <1>1, <1>4 DEF WorkerOK, AtCase, GoesOn
<1>7. worker[u].at = "reread" => run'[At(u)].state \in FailedRun \cup {"succeeded", "waiting"}
  BY <1>1, <1>4 DEF WorkerOK, AtCase, Following, GoesOn, FailedRun
<1>8. worker[u].at = "result" => Seen(u)'
  <2> HAVE worker[u].at = "result"
  <2>1. worker[u].at \in AtCase /\ Seen(u)
    BY <1>1 DEF WorkerOK, AtCase, Following
  <2>2. worker'[u] = worker[u]
    BY DEF WorkerKept
  <2> QED
    BY <1>1, <1>4, <2>1, <2>2 DEF Seen, GoesOn, FailedRun
<1>9. worker[u].at \in Known => Rests(u)'
  <2> HAVE worker[u].at \in Known
  <2>1. worker[u].at \in AtCase /\ Rests(u)
    BY <1>1 DEF WorkerOK, AtCase, Following
  <2>2. worker'[u] = worker[u]
    BY DEF WorkerKept
  <2> QED
    BY <1>1, <1>4, <2>1, <2>2 DEF Rests, GoesOn, FailedRun
<1> QED
  BY <1>1, <1>2, <1>3, <1>5, <1>6, <1>7, <1>8, <1>9 DEF WorkerOK, WorkerKept

LEMMA HolderCarried ==
  ASSUME IInv, NEW u \in Workers, HolderKept(u)
  PROVE  HolderOK(u)'
<1>1. WorkerOK(u) /\ HolderOK(u) /\ Mine(u)' = Mine(u) /\ At(u)' = At(u) /\ worker'[u] = worker[u]
  BY DEF IInv, HolderKept, WorkerKept, Mine, At
<1> SUFFICES ASSUME worker[u].at \in Working, Holds(u)' PROVE Reliable(u)'
  BY <1>1 DEF HolderOK
<1>2. /\ Reliable(u)
      /\ \A i \in 1..NumCases : /\ case'[<<Mine(u), i>>] = case[<<Mine(u), i>>]
                                /\ asked'[<<Mine(u), i>>] = asked[<<Mine(u), i>>]
  BY <1>1 DEF HolderKept, HolderOK
<1>3. worker[u].at \in AtCase => case'[At(u)] = case[At(u)] /\ asked'[At(u)] = asked[At(u)]
  BY <1>1, <1>2, CaseUnderWay DEF IInv, WorkerOK, At
<1> QED
  BY <1>1, <1>2, <1>3 DEF Reliable, AtCase, Following, Known, Reviewing

LEMMA CaseCarried ==
  ASSUME IInv, RunsGoOn, JobsGoOn, NEW c \in Cases, CaseKept(c)
  PROVE  CaseOK(c)'
<1>1. c[1] \in Jobs /\ CaseOK(c) /\ RunOK(c)' /\ GoesOn(run[c], run'[c])
  BY DEF IInv, RunsGoOn, Cases
<1>3. Reported(c) /\ RunTrue(run'[c]) /\ case'[c] = case[c]
  BY <1>1 DEF CaseOK, RunOK, CaseKept
<1>4. /\ case[c].verdict \in {"answer", "question", "malformed"} => run'[c].said = case[c].verdict
      /\ case[c].receipt # "none" => run'[c].said \in {"answer", "question"}
      /\ case[c].verdict = "generation" => run'[c].state \in FailedRun /\ run'[c].said # "answer"
  BY <1>1, <1>3 DEF CaseOK, Reported, RunTrue, GoesOn, FailedRun
<1>2. Reported(c)'
  BY <1>1, <1>3, <1>4 DEF Reported, CaseKept, Terminal
<1> QED
  BY <1>1, <1>2, <1>4 DEF CaseOK, CaseKept, JobsGoOn

\* A step that keeps what its taker does not touch.
LEMMA CarryOn ==
  ASSUME IInv, TypeOK', \A c \in stops' : Over(c[1])', RunsGoOn, JobsGoOn,
         \A u \in Workers : WorkerKept(u) \/ WorkerOK(u)',
         \A u \in Workers : HolderKept(u) \/ HolderOK(u)',
         \A c \in Cases : CaseKept(c) \/ CaseOK(c)'
  PROVE  IInv'
<1>1. ASSUME NEW u \in Workers PROVE WorkerOK(u)'
  BY WorkerCarried
<1>2. ASSUME NEW u \in Workers PROVE HolderOK(u)'
  BY HolderCarried
<1>3. ASSUME NEW c \in Cases PROVE CaseOK(c)'
  BY CaseCarried
<1>4. \A c \in Cases : RunOK(c)'
  BY DEF RunsGoOn
<1> QED
  BY <1>1, <1>2, <1>3, <1>4 DEF IInv

\* Nothing moves for those who only look on.
LEMMA Standing ==
  ASSUME IInv
  PROVE  /\ UNCHANGED job => JobsGoOn
         /\ UNCHANGED <<job, run>> => RunsGoOn
         /\ JobsGoOn /\ UNCHANGED run => RunsGoOn
         /\ \A c \in Cases : UNCHANGED <<job, case, asked>> => CaseKept(c)
         /\ \A u \in Workers : UNCHANGED <<job, case, asked>> /\ WorkerKept(u) => HolderKept(u)
         /\ UNCHANGED <<job, stops>> => \A c \in stops' : Over(c[1])'
<1>1. ASSUME NEW u \in Workers, UNCHANGED <<job, case, asked>>, WorkerKept(u)
      PROVE  HolderKept(u)
  BY <1>1 DEF HolderKept, WorkerKept, Holds, Mine
<1>2. ASSUME JobsGoOn, UNCHANGED run PROVE RunsGoOn
  <2>1. ASSUME NEW c \in Cases PROVE RunOK(c)' /\ GoesOn(run[c], run'[c])
    <3>1. c[1] \in Jobs /\ RunOK(c)
      BY DEF IInv, Cases
    <3>2. Over(c[1]) => Over(c[1])'
      BY <1>2, <3>1 DEF JobsGoOn
    <3> QED
      BY <1>2, <3>1, <3>2 DEF RunOK, GoesOn
  <2> QED
    BY <2>1 DEF RunsGoOn
<1>3. UNCHANGED job => JobsGoOn
  BY DEF JobsGoOn, Over
<1>4. UNCHANGED <<job, stops>> => \A c \in stops' : Over(c[1])'
  BY DEF IInv, Over
<1>5. \A c \in Cases : UNCHANGED <<job, case, asked>> => CaseKept(c)
  BY DEF CaseKept
<1> QED
  BY <1>1, <1>2, <1>3, <1>4, <1>5

\* A process goes to another place and remembers what it remembered.
LEMMA Moved ==
  ASSUME TypeOK, NEW w \in Workers,
         NEW at \in {"idle", "reconcile", "claim", "start", "next", "case", "create",
                     "read", "take", "generate", "commit", "busy", "fail", "stopRun", "endRun",
                     "reread", "result", "drop", "judge", "ask", "confirm", "save", "finish",
                     "defer", "deferLost", "handler"},
         Goto(w, at)
  PROVE  /\ worker' \in [Workers -> Worker] /\ \A u \in Workers : u # w => WorkerKept(u)
         /\ worker'[w].at = at /\ worker'[w].job = worker[w].job
         /\ worker'[w].todo = worker[w].todo /\ worker'[w].stale = worker[w].stale
         /\ worker'[w].saw = worker[w].saw /\ worker'[w].verdict = worker[w].verdict
         /\ Mine(w)' = Mine(w) /\ At(w)' = At(w)
<1> DEFINE x == [worker[w] EXCEPT !.at = at]
<1>1. x \in Worker
  BY DEF TypeOK, Worker, Verdicts
<1>2. /\ x.at = at /\ x.job = worker[w].job /\ x.todo = worker[w].todo
      /\ x.stale = worker[w].stale /\ x.saw = worker[w].saw /\ x.verdict = worker[w].verdict
  BY DEF TypeOK, Worker
<1>3. worker' = [worker EXCEPT ![w] = x]
  BY DEF Goto
<1> HIDE DEF x
<1>4. worker'[w] = x /\ worker' \in [Workers -> Worker] /\ \A u \in Workers : u # w => worker'[u] = worker[u]
  BY <1>1, <1>3 DEF TypeOK
<1> QED
  BY <1>2, <1>4 DEF WorkerKept, Mine, At

\* A process that drops its job has nothing to answer for.
LEMMA Left ==
  ASSUME TypeOK, NEW w \in Workers, Leave(w)
  PROVE  /\ worker' \in [Workers -> Worker] /\ \A u \in Workers : u # w => WorkerKept(u)
         /\ WorkerOK(w)' /\ HolderOK(w)'
<1>1. Idle \in Worker
  BY EvaluationAssumption DEF Idle, Worker, Verdicts, RunStates
<1>2. /\ worker' \in [Workers -> Worker] /\ \A u \in Workers : u # w => worker'[u] = worker[u]
      /\ worker'[w] = Idle
  BY <1>1 DEF TypeOK, Leave
<1> QED
  BY <1>2 DEF WorkerKept, WorkerOK, HolderOK, Placed, Idle, Working, AtCase, Following, Known, Reviewing

\* A step of one process that changes nothing but what it remembers.
LEMMA Quiet ==
  ASSUME IInv, NEW w \in Workers, UNCHANGED <<job, case, run, stops, world, asked>>,
         faults' \in 0..MaxFaults,
         worker' \in [Workers -> Worker], \A u \in Workers : u # w => WorkerKept(u),
         WorkerOK(w)', HolderOK(w)'
  PROVE  IInv'
<1>1. TypeOK'
  BY DEF IInv, TypeOK
<1> QED
  BY <1>1, Standing, CarryOn

\* A step of one process that moves Runs too.
LEMMA RunMove ==
  ASSUME IInv, NEW w \in Workers, UNCHANGED <<job, case, stops, world, asked>>,
         faults' \in 0..MaxFaults, run' \in [Cases -> Run], RunsGoOn,
         worker' \in [Workers -> Worker], \A u \in Workers : u # w => WorkerKept(u),
         WorkerOK(w)', HolderOK(w)'
  PROVE  IInv'
<1>1. TypeOK'
  BY DEF IInv, TypeOK
<1> QED
  BY <1>1, Standing, CarryOn

\* A step of the holder of a job on the case under way.
LEMMA CaseMove ==
  ASSUME IInv, NEW w \in Workers, worker[w].at \in AtCase, Holds(w),
         UNCHANGED <<job, run, stops, world>>, faults' \in 0..MaxFaults,
         NEW d \in Cases, d = At(w), NEW x \in Case, NEW n \in 0..MaxReviews,
         case' = [case EXCEPT ![d] = x], asked' = [asked EXCEPT ![d] = n],
         worker' \in [Workers -> Worker], \A u \in Workers : u # w => WorkerKept(u),
         WorkerOK(w)', HolderOK(w)', CaseOK(d)'
  PROVE  IInv'
<1>1. TypeOK'
  BY DEF IInv, TypeOK
<1>2. At(w) \in Cases /\ At(w)[1] = Mine(w)
  BY CaseUnderWay DEF IInv, WorkerOK
<1>3. ASSUME NEW u \in Workers, u # w PROVE HolderKept(u)
  <2>1. WorkerKept(u) /\ Mine(u)' = Mine(u)
    BY <1>3 DEF WorkerKept, Mine
  <2>2. ASSUME worker[u].at \in Working, Holds(u)'
        PROVE  Holds(u) /\ Mine(u) # Mine(w) /\ Mine(u) \in Jobs
    <3>1. Holds(u) /\ Mine(u) \in Jobs
      BY <2>1, <2>2 DEF Holds, IInv, WorkerOK, Placed
    <3> QED
      BY <1>3, <3>1 DEF Holds
  <2>3. ASSUME Mine(u) # Mine(w), Mine(u) \in Jobs, NEW i \in 1..NumCases
        PROVE  /\ case'[<<Mine(u), i>>] = case[<<Mine(u), i>>]
               /\ asked'[<<Mine(u), i>>] = asked[<<Mine(u), i>>]
    <3>1. <<Mine(u), i>> \in Cases /\ <<Mine(u), i>> # At(w)
      BY <1>2, <2>3 DEF Cases
    <3> QED
      BY <3>1 DEF IInv, TypeOK
  <2> QED
    BY <2>1, <2>2, <2>3 DEF HolderKept
<1>4. ASSUME NEW c \in Cases, c # d PROVE CaseKept(c)
  BY <1>4 DEF CaseKept, IInv, TypeOK
<1>5. RunsGoOn /\ JobsGoOn /\ \A c \in stops' : Over(c[1])'
  BY Standing
<1>6. \A c \in Cases : CaseKept(c) \/ CaseOK(c)'
  <2>1. \A c \in Cases : c = d => CaseOK(c)'
    BY Zenon
  <2> QED
    BY <1>4, <2>1
<1> QED
  BY <1>1, <1>3, <1>5, <1>6, CarryOn

-----------------------------------------------------------------------------
(* Runs.                                                                   *)

\* RunStore.request_cancel and settle_cancellations.
LEMMA Cancelled ==
  ASSUME NEW r \in Run, RunTrue(r)
  PROVE  /\ CancelledRun(r) \in Run /\ RunTrue(CancelledRun(r)) /\ GoesOn(r, CancelledRun(r))
         /\ CancelledRun(r).state = "cancelling" => r.state \in {"running", "cancelling"}
<1> DEFINE end == IF r.state \in {"queued", "waiting"} \/ r.owner = NoWorker \/ ~r.lease
                  THEN "cancelled" ELSE "cancelling"
           s == [r EXCEPT !.state = end]
<1>1. CASE r.state \notin LiveRun \ {"cancelling"}
  <2>1. CancelledRun(r) = r
    BY <1>1 DEF CancelledRun
  <2> QED
    BY <2>1, <1>1 DEF GoesOn
<1>2. CASE r.state \in LiveRun \ {"cancelling"}
  <2>1. CancelledRun(r) = s /\ r.state \in {"queued", "running", "waiting"}
    BY <1>2 DEF CancelledRun, LiveRun
  <2>2. end \in {"cancelled", "cancelling"} /\ (end = "cancelling" => r.state = "running")
    BY <2>1
  <2> HIDE DEF end
  <2>3. s \in Run /\ s.state = end /\ s.said = r.said
    BY <2>2 DEF Run, RunStates, LiveRun, Terminal
  <2> HIDE DEF s
  <2> QED
    BY <2>1, <2>2, <2>3 DEF RunTrue, GoesOn, FailedRun
<1> QED
  BY <1>1, <1>2

LEMMA Settled ==
  ASSUME NEW r \in Run, RunTrue(r)
  PROVE  /\ SettledRun(r) \in Run /\ RunTrue(SettledRun(r)) /\ GoesOn(r, SettledRun(r))
         /\ SettledRun(r).state = "cancelling" => r.state = "cancelling"
         /\ r.state # "cancelling" => SettledRun(r) = r
<1> DEFINE s == [r EXCEPT !.state = "cancelled", !.owner = NoWorker, !.lease = FALSE]
<1>1. s \in Run /\ s.state = "cancelled" /\ s.said = r.said
  BY DEF Run, RunStates, LiveRun, Terminal
<1>2. SettledRun(r) = r \/ (SettledRun(r) = s /\ r.state = "cancelling")
  BY DEF SettledRun
<1> HIDE DEF s
<1> QED
  BY <1>1, <1>2 DEF RunTrue, GoesOn, FailedRun

\* One Run changes.
LEMMA RunRow ==
  ASSUME IInv, UNCHANGED job, NEW c \in Cases, NEW r \in Run, RunTrue(r), GoesOn(run[c], r),
         r.state = "cancelling" => Over(c[1]), run' = [run EXCEPT ![c] = r]
  PROVE  run' \in [Cases -> Run] /\ RunsGoOn /\ run'[c] = r
<1>1. run' \in [Cases -> Run] /\ run'[c] = r /\ \A d \in Cases : d # c => run'[d] = run[d]
  BY DEF IInv, TypeOK
<1>2. ASSUME NEW d \in Cases PROVE RunOK(d)' /\ GoesOn(run[d], run'[d])
  BY <1>1 DEF IInv, RunOK, GoesOn, Over
<1> QED
  BY <1>1, <1>2 DEF RunsGoOn

\* One Run changes after the cancellations of all Runs were settled.
LEMMA RunsSettled ==
  ASSUME IInv, JobsGoOn, NEW settled, settled = [d \in Cases |-> SettledRun(run[d])]
  PROVE  /\ settled \in [Cases -> Run]
         /\ run' = settled => RunsGoOn
         /\ \A c \in Cases : \A r \in Run :
              /\ RunTrue(r) /\ GoesOn(run[c], r) /\ r.state # "cancelling"
              /\ run' = [settled EXCEPT ![c] = r]
              => run' \in [Cases -> Run] /\ RunsGoOn /\ run'[c] = r
<1>1. ASSUME NEW d \in Cases
      PROVE  /\ settled[d] \in Run /\ RunTrue(settled[d]) /\ GoesOn(run[d], settled[d])
             /\ settled[d].state = "cancelling" => Over(d[1])'
  <2>1. d[1] \in Jobs /\ run[d] \in Run /\ RunTrue(run[d]) /\ (run[d].state = "cancelling" => Over(d[1]))
    BY DEF IInv, TypeOK, RunOK, Cases
  <2>2. Over(d[1]) => Over(d[1])'
    BY <2>1 DEF JobsGoOn
  <2> QED
    BY <2>1, <2>2, Settled
<1>2. settled \in [Cases -> Run]
  BY <1>1
<1>3. ASSUME run' = settled PROVE RunsGoOn
  BY <1>1, <1>3 DEF RunsGoOn, RunOK
<1>4. ASSUME NEW c \in Cases, NEW r \in Run, RunTrue(r), GoesOn(run[c], r), r.state # "cancelling",
             run' = [settled EXCEPT ![c] = r]
      PROVE  run' \in [Cases -> Run] /\ RunsGoOn /\ run'[c] = r
  <2>1. run' \in [Cases -> Run] /\ run'[c] = r /\ \A d \in Cases : d # c => run'[d] = settled[d]
    BY <1>2, <1>4
  <2>2. ASSUME NEW d \in Cases PROVE RunOK(d)' /\ GoesOn(run[d], run'[d])
    BY <1>1, <1>4, <2>1 DEF RunOK
  <2> QED
    BY <2>1, <2>2 DEF RunsGoOn
<1> QED
  BY <1>2, <1>3, <1>4

\* The process gives its job up or goes to settle it.
LEMMA Aside ==
  ASSUME TypeOK, NEW w \in Workers, WorkerOK(w), JobsGoOn, worker[w].at \in AtCase \cup {"next", "start", "finish", "defer"},
         NEW at \in {"defer", "deferLost", "handler"}, Goto(w, at)
  PROVE  WorkerOK(w)' /\ HolderOK(w)'
<1>1. Mine(w) \in Jobs /\ worker[w].stale \subseteq Cases /\ \A c \in worker[w].stale : Over(c[1])
  BY DEF WorkerOK, Placed, TypeOK, Worker, Working
<1>2. \A c \in worker[w].stale : Over(c[1])'
  BY <1>1 DEF JobsGoOn, Cases
<1>3. worker'[w].at = at /\ worker'[w].stale = worker[w].stale /\ Mine(w)' = Mine(w)
  BY Moved
<1> QED
  BY <1>1, <1>2, <1>3 DEF WorkerOK, HolderOK, Placed, Working, AtCase, Following, Known, Reviewing

\* The process goes on with its case; what it has to remember is left to prove.
LEMMA Onward ==
  ASSUME IInv, NEW w \in Workers, JobsGoOn, RunsGoOn, worker[w].at \in AtCase,
         NEW at \in AtCase, Goto(w, at),
         \/ worker[w].at \in Following \/ at = "create" \/ run'[At(w)].state # "none",
         at = "stopRun" => Over(Mine(w)),
         at = "reread" => run'[At(w)].state \in FailedRun \cup {"succeeded", "waiting"},
         at \notin {"result"} \cup Known
  PROVE  WorkerOK(w)'
<1>1. /\ worker'[w].at = at /\ worker'[w].stale = worker[w].stale /\ Mine(w)' = Mine(w)
      /\ worker'[w].todo = worker[w].todo /\ At(w)' = At(w)
  BY Moved DEF IInv, AtCase, Following, Known, Reviewing
<1>2. WorkerOK(w) /\ Mine(w) \in Jobs /\ At(w) \in Cases
  BY CaseUnderWay DEF IInv, WorkerOK
<1>3. worker[w].stale \subseteq Cases /\ \A c \in worker[w].stale : Over(c[1])'
  BY <1>2 DEF WorkerOK, JobsGoOn, Cases, IInv, TypeOK, Worker
<1>4. Placed(w)'
  BY <1>1, <1>2 DEF WorkerOK, Placed, AtCase, Following, Known, Reviewing
<1>5. at \in Following => run'[At(w)].state # "none"
  BY <1>2 DEF WorkerOK, RunsGoOn, GoesOn, Following, Known, Reviewing
<1>6. at = "stopRun" => Over(Mine(w))'
  BY <1>1, <1>2 DEF JobsGoOn, Over
<1> QED
  BY <1>1, <1>3, <1>4, <1>5, <1>6 DEF WorkerOK, Known, Reviewing

\* The holder goes on, and its cases are as they were.
LEMMA HeldOn ==
  ASSUME IInv, NEW w \in Workers, worker[w].at \in Working,
         UNCHANGED <<job, case, asked>>, worker' \in [Workers -> Worker],
         worker'[w].at # "ask",
         worker'[w].at = "save" => worker'[w].verdict \notin {"answer", "question"},
         Mine(w)' = Mine(w), worker'[w].todo = worker[w].todo
  PROVE  HolderOK(w)'
<1>1. Holds(w)' => Holds(w)
  BY DEF Holds
<1> QED
  BY <1>1 DEF IInv, HolderOK, Reliable

\* Runs change and no process takes part.
LEMMA RunsOnly ==
  ASSUME IInv, UNCHANGED <<job, case, worker, world, asked>>, stops' \subseteq stops,
         faults' \in 0..MaxFaults, run' \in [Cases -> Run], RunsGoOn
  PROVE  IInv'
<1>1. TypeOK'
  BY DEF IInv, TypeOK
<1>2. \A c \in stops' : Over(c[1])'
  BY DEF IInv, Over
<1> QED
  BY <1>1, <1>2, Standing, CarryOn DEF WorkerKept

LEMMA RunsAlone ==
  ASSUME IInv, NEW c \in Cases, CancelRun(c) \/ LapseRun(c) \/ ExpireRun(c)
  PROVE  IInv'
<1>1. run[c] \in Run /\ RunOK(c) /\ RunTrue(run[c]) /\ faults \in 0..MaxFaults
  BY DEF IInv, TypeOK, RunOK
<1>2. CASE CancelRun(c)
  <2>1. /\ run' = [run EXCEPT ![c] = CancelledRun(run[c])] /\ Over(c[1])
        /\ UNCHANGED <<job, case, worker, world, asked, faults>> /\ stops' \subseteq stops
    BY <1>2 DEF CancelRun, IInv
  <2> QED
    BY <1>1, <2>1, Cancelled, RunRow, RunsOnly
<1>3. CASE LapseRun(c)
  <2> DEFINE r == [run[c] EXCEPT !.lease = FALSE]
  <2>1. r \in Run /\ r.state = run[c].state /\ r.said = run[c].said
    BY <1>1 DEF Run
  <2>2. /\ run' = [run EXCEPT ![c] = r] /\ UNCHANGED <<job, case, worker, stops, world, asked>>
        /\ faults' \in 0..MaxFaults
    BY <1>1, <1>3, EvaluationAssumption DEF LapseRun, Lapse
  <2> HIDE DEF r
  <2>3. RunTrue(r) /\ GoesOn(run[c], r) /\ (r.state = "cancelling" => Over(c[1]))
    BY <1>1, <2>1 DEF RunTrue, GoesOn, RunOK
  <2> QED
    BY <2>1, <2>2, <2>3, RunRow, RunsOnly
<1>4. CASE ExpireRun(c)
  <2> DEFINE r == [run[c] EXCEPT !.state = "interrupted"]
  <2>1. r \in Run /\ r.state = "interrupted" /\ r.said = run[c].said /\ run[c].state = "waiting"
    BY <1>1, <1>4 DEF Run, RunStates, ExpireRun
  <2>2. /\ run' = [run EXCEPT ![c] = r] /\ UNCHANGED <<job, case, worker, stops, world, asked>>
        /\ faults' \in 0..MaxFaults
    BY <1>1, <1>4, EvaluationAssumption DEF ExpireRun
  <2> HIDE DEF r
  <2>4. run[c].said \in {"question", "malformed"}
    BY <1>1, <2>1 DEF RunTrue
  <2>3. RunTrue(r) /\ GoesOn(run[c], r)
    BY <2>1, <2>4 DEF RunTrue, GoesOn, FailedRun
  <2> QED
    BY <2>1, <2>2, <2>3, RunRow, RunsOnly
<1> QED
  BY <1>2, <1>3, <1>4

\* create_prepared: the Run of the case exists from now on.
LEMMA CreateRunStep ==
  ASSUME IInv, NEW w \in Workers, CreateRun(w)
  PROVE  IInv'
<1> DEFINE c == At(w)
           state == IF run[c].state = "none" THEN "queued" ELSE run[c].state
           r == [run[c] EXCEPT !.state = state]
<1>1. worker[w].at = "create" /\ worker[w].at \in AtCase /\ Goto(w, "read") /\ run' = [run EXCEPT ![c] = r]
      /\ UNCHANGED <<job, case, stops, world, asked, faults>>
  BY DEF CreateRun, AtCase
<1>2. c \in Cases
  BY <1>1, CaseUnderWay DEF IInv, WorkerOK
<1>3. run[c] \in Run /\ RunOK(c) /\ faults \in 0..MaxFaults
  BY <1>2 DEF IInv, TypeOK
<1>4. /\ state \in RunStates /\ state # "none" /\ (run[c].state # "none" => state = run[c].state)
      /\ run[c].state = "none" => state = "queued"
  BY <1>3 DEF Run, RunStates, LiveRun
<1> HIDE DEF c, state
<1>5. r \in Run /\ r.state = state /\ r.said = run[c].said
  BY <1>3, <1>4 DEF Run
<1> HIDE DEF r
<1>6. RunTrue(r) /\ GoesOn(run[c], r) /\ (r.state = "cancelling" => Over(c[1]))
  <2>1. CASE run[c].state = "none"
    BY <1>3, <1>4, <1>5, <2>1 DEF RunTrue, GoesOn, RunOK, FailedRun
  <2>2. CASE run[c].state # "none"
    <3>1. r.state = run[c].state /\ r.said = run[c].said
      BY <1>4, <1>5, <2>2
    <3> QED
      BY <1>3, <3>1 DEF RunTrue, GoesOn, RunOK
  <2> QED
    BY <2>1, <2>2
<1>7. run' \in [Cases -> Run] /\ RunsGoOn /\ run'[c].state # "none"
  BY <1>1, <1>2, <1>4, <1>5, <1>6, RunRow
<1>8. worker' \in [Workers -> Worker] /\ (\A u \in Workers : u # w => WorkerKept(u))
      /\ worker'[w].at = "read" /\ worker'[w].todo = worker[w].todo /\ Mine(w)' = Mine(w)
  BY <1>1, Moved DEF IInv
<1>9. WorkerOK(w)'
  BY <1>1, <1>7, Standing, Onward DEF c, AtCase, Following, Known, Reviewing
<1>10. HolderOK(w)'
  BY <1>1, <1>8, HeldOn DEF Working
<1> QED
  BY <1>1, <1>3, <1>7, <1>8, <1>9, <1>10, RunMove

\* A process stops the Run of a cancelled job, or drops a Run that asks.
LEMMA StopSteps ==
  ASSUME IInv, NEW w \in Workers, StopRun(w) \/ DropRun(w)
  PROVE  IInv'
<1> DEFINE c == At(w)
<1>1. /\ worker[w].at \in {"stopRun", "drop"} /\ worker[w].at \in AtCase
      /\ run' = [run EXCEPT ![c] = CancelledRun(run[c])]
      /\ UNCHANGED <<job, case, stops, world, asked, faults>>
  BY DEF StopRun, DropRun, AtCase, Following, Known
<1>2. c \in Cases /\ c[1] = Mine(w) /\ WorkerOK(w)
  BY <1>1, CaseUnderWay DEF IInv, WorkerOK
<1>3. run[c] \in Run /\ RunOK(c) /\ RunTrue(run[c]) /\ faults \in 0..MaxFaults
  BY <1>2 DEF IInv, TypeOK, RunOK
<1>4. CancelledRun(run[c]).state = "cancelling" => Over(c[1])
  <2>1. CASE worker[w].at = "stopRun"
    BY <1>2, <2>1 DEF WorkerOK, Over
  <2>2. CASE worker[w].at = "drop"
    <3>1. run[c].said = "question"
      BY <1>2, <2>2 DEF WorkerOK, Rests, Known
    <3> QED
      BY <1>3, <3>1, Cancelled DEF RunTrue
  <2> QED
    BY <1>1, <2>1, <2>2
<1> HIDE DEF c
<1>5. run' \in [Cases -> Run] /\ RunsGoOn
  BY <1>1, <1>2, <1>3, <1>4, Cancelled, RunRow
<1>6. JobsGoOn
  BY <1>1, Standing
<1>7. CASE StopRun(w)
  <2>1. Goto(w, "endRun") /\ worker[w].at \in Following
    BY <1>7 DEF StopRun, Following
  <2>2. WorkerOK(w)'
    BY <1>1, <1>5, <1>6, <2>1, Onward DEF AtCase, Following, Known, Reviewing
  <2>3. worker' \in [Workers -> Worker] /\ (\A u \in Workers : u # w => WorkerKept(u))
        /\ worker'[w].at = "endRun" /\ worker'[w].todo = worker[w].todo /\ Mine(w)' = Mine(w)
    BY <2>1, Moved DEF IInv
  <2>4. HolderOK(w)'
    BY <1>1, <2>3, HeldOn DEF Working
  <2> QED
    BY <1>1, <1>3, <1>5, <2>2, <2>3, <2>4, RunMove
<1>8. CASE DropRun(w)
  <2>1. Goto(w, "judge") /\ worker[w].at = "drop"
    BY <1>8 DEF DropRun
  <2>2. worker' \in [Workers -> Worker] /\ (\A u \in Workers : u # w => WorkerKept(u))
        /\ worker'[w].at = "judge" /\ worker'[w].todo = worker[w].todo /\ Mine(w)' = Mine(w)
        /\ worker'[w].stale = worker[w].stale /\ worker'[w].verdict = worker[w].verdict /\ At(w)' = c
    BY <2>1, Moved DEF IInv, c
  <2>3. worker[w].verdict = "question" /\ run[c].said = "question" /\ run[c].state # "none"
    BY <1>2, <2>1 DEF WorkerOK, Rests, Known, Following, c
  <2>4. run'[c].said = "question" /\ run'[c].state # "none"
    BY <1>2, <1>5, <2>3 DEF RunsGoOn, GoesOn
  <2>5. \A d \in worker'[w].stale : Over(d[1])'
    BY <1>1, <1>2, <2>2 DEF WorkerOK, Over
  <2>6. Placed(w)'
    BY <1>1, <1>2, <2>2 DEF WorkerOK, Placed, Working, AtCase, Following, Known, Reviewing
  <2>7. Rests(w)'
    BY <2>2, <2>3, <2>4 DEF Rests
  <2>8. WorkerOK(w)'
    BY <2>2, <2>3, <2>4, <2>5, <2>6, <2>7 DEF WorkerOK, Reviewing
  <2>9. HolderOK(w)'
    BY <1>1, <2>2, HeldOn DEF Working
  <2> QED
    BY <1>1, <1>3, <1>5, <2>2, <2>8, <2>9, RunMove
<1> QED
  BY <1>7, <1>8

\* A process reads a Run, and takes what it saw for granted from then on.
LEMMA ReadRunStep ==
  ASSUME IInv, NEW w \in Workers, ReadRun(w)
  PROVE  IInv'
<1> DEFINE c == At(w)
           s == run[c].state
           at == IF worker[w].at = "read" /\ s \in {"queued", "running"} THEN "take" ELSE "result"
           x == [worker[w] EXCEPT !.saw = s, !.at = at]
<1>1. /\ worker[w].at \in {"read", "reread"} /\ worker[w].at \in AtCase
      /\ worker' = [worker EXCEPT ![w] = x]
      /\ UNCHANGED <<job, case, run, stops, world, asked, faults>>
  BY DEF ReadRun, AtCase, Following
<1>2. c \in Cases /\ c[1] = Mine(w) /\ WorkerOK(w) /\ worker[w] \in Worker
  BY <1>1, CaseUnderWay DEF IInv, WorkerOK, TypeOK
<1>3. run[c] \in Run /\ RunOK(c) /\ RunTrue(run[c]) /\ faults \in 0..MaxFaults /\ s \in RunStates
  BY <1>2 DEF IInv, TypeOK, RunOK, Run
<1>4. /\ s # "none"
      /\ worker[w].at = "reread" => s \in FailedRun \cup {"succeeded", "waiting"}
  BY <1>1, <1>2 DEF WorkerOK, Following
<1>5. \/ at = "take"
      \/ at = "result" /\ s \in FailedRun \cup {"succeeded", "waiting", "cancelling"}
  BY <1>1, <1>3, <1>4 DEF RunStates, LiveRun, Terminal, FailedRun
<1>6. /\ s = "succeeded" => run[c].said \in {"answer", "malformed"}
      /\ s = "waiting" => run[c].said \in {"question", "malformed"}
  BY <1>3 DEF RunTrue
<1>7. s = "cancelling" => Over(Mine(w))
  BY <1>2, <1>3 DEF RunOK
<1>8. at \in {"take", "result"}
  OBVIOUS
<1> HIDE DEF at
<1>9. /\ x \in Worker /\ x.at = at /\ x.saw = s /\ x.job = worker[w].job /\ x.todo = worker[w].todo
      /\ x.stale = worker[w].stale
  BY <1>2, <1>3, <1>8 DEF Worker, Verdicts
<1> HIDE DEF x
<1>10. /\ worker' \in [Workers -> Worker] /\ \A u \in Workers : u # w => WorkerKept(u)
       /\ worker'[w] = x /\ Mine(w)' = Mine(w) /\ At(w)' = c
  BY <1>1, <1>9 DEF IInv, TypeOK, WorkerKept, Mine, At
<1>11. Placed(w)'
  BY <1>1, <1>2, <1>8, <1>9, <1>10 DEF WorkerOK, Placed, Working, AtCase, Following, Known, Reviewing
<1>12. at = "result" => Seen(w)'
  <2>1. CASE s \in {"succeeded", "waiting"}
    BY <1>1, <1>6, <1>9, <1>10, <2>1 DEF Seen
  <2>2. CASE s \in FailedRun
    BY <1>1, <1>9, <1>10, <2>2 DEF Seen
  <2>3. CASE s = "cancelling"
    BY <1>1, <1>7, <1>9, <1>10, <2>3 DEF Seen, Over
  <2> QED
    BY <1>5, <2>1, <2>2, <2>3
<1>13. \A d \in worker'[w].stale : Over(d[1])'
  BY <1>1, <1>2, <1>9, <1>10 DEF WorkerOK, Over
<1>14. WorkerOK(w)'
  BY <1>1, <1>4, <1>8, <1>9, <1>10, <1>11, <1>12, <1>13 DEF WorkerOK, Reviewing, Known
<1>15. HolderOK(w)'
  BY <1>1, <1>8, <1>9, <1>10, HeldOn DEF Working
<1> QED
  BY <1>1, <1>3, <1>10, <1>14, <1>15, Quiet

\* A process takes the Run of its case, finds it out of time or held.
LEMMA TakeRunStep ==
  ASSUME IInv, NEW w \in Workers, TakeRun(w)
  PROVE  IInv'
<1> DEFINE c == At(w)
           settled == [d \in Cases |-> SettledRun(run[d])]
           taken == [settled[c] EXCEPT !.state = "running", !.owner = w, !.lease = TRUE]
           late == [settled[c] EXCEPT !.state = "failed"]
<1>1. /\ worker[w].at = "take" /\ worker[w].at \in AtCase /\ worker[w].at \in Following
      /\ UNCHANGED <<job, case, stops, world, asked>>
  BY DEF TakeRun, AtCase, Following
<1>2. c \in Cases /\ WorkerOK(w) /\ TypeOK
  BY <1>1, CaseUnderWay DEF IInv, WorkerOK
<1>3. run[c] \in Run /\ RunTrue(run[c]) /\ faults \in 0..MaxFaults /\ JobsGoOn
  BY <1>1, <1>2, Standing DEF IInv, TypeOK, RunOK
<1>4. ASSUME Takeable(run[c])
      PROVE  /\ settled[c] = run[c] /\ run[c].said = "none" /\ run[c].state \in {"queued", "running"}
             /\ taken \in Run /\ taken.state = "running" /\ taken.said = "none"
             /\ late \in Run /\ late.state = "failed" /\ late.said = "none"
  <2>1. settled[c] = run[c] /\ run[c].said = "none" /\ run[c].state \in {"queued", "running"}
    <3>1. run[c].state \in {"queued", "running"} /\ settled[c] = SettledRun(run[c])
      BY <1>2, <1>4 DEF Takeable
    <3> QED
      BY <1>3, <3>1, Settled DEF RunTrue, Run
  <2> QED
    BY <1>3, <2>1 DEF Run, RunStates, LiveRun, Terminal
<1>5. ASSUME Takeable(run[c]), NEW r \in {taken, late}
      PROVE  r \in Run /\ RunTrue(r) /\ GoesOn(run[c], r) /\ r.state \in {"running", "failed"}
  <2> HIDE DEF taken, late
  <2> QED
    BY <1>4, <1>5 DEF RunTrue, GoesOn, FailedRun
<1>6. \/ Takeable(run[c]) /\ run' = [settled EXCEPT ![c] = taken] /\ Goto(w, "generate") /\ UNCHANGED faults
      \/ /\ Takeable(run[c]) /\ run' = [settled EXCEPT ![c] = late] /\ Goto(w, "defer")
         /\ faults < MaxFaults /\ faults' = faults + 1
      \/ run' = settled /\ Goto(w, "defer") /\ UNCHANGED faults
  BY <1>2 DEF TakeRun
<1>7. run' \in [Cases -> Run] /\ RunsGoOn
  <2> HIDE DEF taken, late, settled
  <2>1. settled = [d \in Cases |-> SettledRun(run[d])]
    BY DEF settled
  <2> QED
    BY <1>2, <1>3, <1>5, <1>6, <2>1, RunsSettled
<1>8. faults' \in 0..MaxFaults
  BY <1>3, <1>6, EvaluationAssumption
<1>9. CASE Goto(w, "generate")
  <2>1. WorkerOK(w)'
    BY <1>1, <1>3, <1>7, <1>9, Onward DEF AtCase, Following, Known, Reviewing
  <2>2. worker' \in [Workers -> Worker] /\ (\A u \in Workers : u # w => WorkerKept(u))
        /\ worker'[w].at = "generate" /\ worker'[w].todo = worker[w].todo /\ Mine(w)' = Mine(w)
    BY <1>2, <1>9, Moved
  <2>3. HolderOK(w)'
    BY <1>1, <2>2, HeldOn DEF Working
  <2> QED
    BY <1>1, <1>7, <1>8, <2>1, <2>2, <2>3, RunMove
<1>10. CASE Goto(w, "defer")
  <2>1. WorkerOK(w)' /\ HolderOK(w)'
    BY <1>1, <1>2, <1>3, <1>10, Aside
  <2>2. worker' \in [Workers -> Worker] /\ (\A u \in Workers : u # w => WorkerKept(u))
    BY <1>2, <1>10, Moved
  <2> QED
    BY <1>1, <1>7, <1>8, <2>1, <2>2, RunMove
<1> QED
  BY <1>6, <1>9, <1>10

\* A process that holds a Run puts it into an end, or finds it lost.
LEMMA HeldRunSteps ==
  ASSUME IInv, NEW w \in Workers, CommitRun(w) \/ ReleaseRun(w) \/ FailRun(w)
  PROVE  IInv'
<1> DEFINE c == At(w)
<1>1. /\ worker[w].at \in {"commit", "busy", "fail", "endRun"} /\ worker[w].at \in AtCase
      /\ worker[w].at \in Following /\ worker[w].at \in Working
      /\ UNCHANGED <<job, case, stops, world, asked, faults>>
  BY DEF CommitRun, ReleaseRun, FailRun, AtCase, Following, Working
<1>2. c \in Cases /\ WorkerOK(w) /\ TypeOK
  BY <1>1, CaseUnderWay DEF IInv, WorkerOK
<1>3. run[c] \in Run /\ RunTrue(run[c]) /\ faults \in 0..MaxFaults /\ JobsGoOn
  BY <1>1, <1>2, Standing DEF IInv, TypeOK, RunOK
<1>4. PICK r \in Run, at \in {"reread", "fail", "deferLost", "defer", "handler"} :
        /\ run' = [run EXCEPT ![c] = r] /\ Goto(w, at)
        /\ \/ r = run[c] /\ at # "reread"
           \/ /\ run[c].state \in {"running", "cancelling"}
              /\ \/ <<r.state, r.said>> \in Endings
                 \/ r.state \in {"failed", "cancelled"} /\ r.said = run[c].said
                 \/ r.state = "queued" /\ r.said = run[c].said /\ at # "reread"
  <2> DEFINE told(end) == [state |-> end[1], owner |-> NoWorker, lease |-> FALSE, said |-> end[2]]
             queued == [run[c] EXCEPT !.state = "queued", !.owner = NoWorker, !.lease = FALSE]
             failed == [run[c] EXCEPT !.state = "failed", !.owner = NoWorker, !.lease = FALSE]
             cancelled == [run[c] EXCEPT !.state = "cancelled", !.owner = NoWorker, !.lease = FALSE]
  <2>1. /\ {queued, failed, cancelled} \subseteq Run
        /\ queued.state = "queued" /\ queued.said = run[c].said
        /\ failed.state = "failed" /\ failed.said = run[c].said
        /\ cancelled.state = "cancelled" /\ cancelled.said = run[c].said
    <3>3. queued \in Run /\ queued.state = "queued" /\ queued.said = run[c].said
      BY <1>3 DEF Run, RunStates, LiveRun
    <3>4. failed \in Run /\ failed.state = "failed" /\ failed.said = run[c].said
      BY <1>3 DEF Run, RunStates, Terminal
    <3>5. cancelled \in Run /\ cancelled.state = "cancelled" /\ cancelled.said = run[c].said
      BY <1>3 DEF Run, RunStates, Terminal
    <3> HIDE DEF queued, failed, cancelled
    <3> QED
      BY <3>3, <3>4, <3>5
  <2>6. ASSUME NEW end \in Endings
        PROVE  told(end) \in Run /\ <<told(end).state, told(end).said>> = end
    BY DEF Endings, Run, RunStates, Terminal, LiveRun
  <2>2. UNCHANGED run => run' = [run EXCEPT ![c] = run[c]]
    BY <1>2 DEF TypeOK
  <2>3. CASE CommitRun(w)
    <3>1. \/ /\ run[c].state = "running" /\ Goto(w, "reread")
             /\ \E end \in Endings : run' = [run EXCEPT ![c] = told(end)]
          \/ UNCHANGED run /\ \E at \in {"fail", "deferLost"} : Goto(w, at)
      BY <2>3 DEF CommitRun, Endings
    <3> HIDE DEF told, queued, failed, cancelled
    <3> QED
      BY <1>3, <2>2, <2>6, <3>1
  <2>4. CASE ReleaseRun(w)
    <3>1. \/ run[c].state = "running" /\ Goto(w, "defer") /\ run' = [run EXCEPT ![c] = queued]
          \/ UNCHANGED run /\ \E at \in {"handler", "deferLost"} : Goto(w, at)
      BY <2>4 DEF ReleaseRun
    <3> HIDE DEF told, queued, failed, cancelled
    <3> QED
      BY <1>3, <2>1, <2>2, <3>1
  <2>5. CASE FailRun(w)
    <3>1. \/ /\ run[c].state \in {"running", "cancelling"}
             /\ \/ run' = [run EXCEPT ![c] = failed] \/ run' = [run EXCEPT ![c] = cancelled]
             /\ \E at \in {"reread", "handler"} : Goto(w, at)
          \/ UNCHANGED run /\ Goto(w, "deferLost")
      <4>1. CASE UNCHANGED run
        BY <2>5, <4>1 DEF FailRun
      <4>2. CASE run' # run
        <5>1. /\ run[c].state \in {"running", "cancelling"}
              /\ Goto(w, IF worker[w].at = "fail" THEN "reread" ELSE "handler")
              /\ run' = [run EXCEPT ![c].state = IF run[c].state = "cancelling" THEN "cancelled" ELSE "failed",
                                    ![c].owner = NoWorker, ![c].lease = FALSE]
          BY <2>5, <4>2 DEF FailRun
        <5>2. \/ run' = [run EXCEPT ![c] = failed] \/ run' = [run EXCEPT ![c] = cancelled]
          BY <5>1
        <5> QED
          BY <5>1, <5>2
      <4> QED
        BY <4>1, <4>2
    <3> HIDE DEF told, queued, failed, cancelled
    <3> QED
      BY <1>3, <2>1, <2>2, <3>1
  <2> QED
    BY <2>3, <2>4, <2>5
<1>5. RunTrue(r) /\ GoesOn(run[c], r) /\ (r.state = "cancelling" => Over(c[1]))
  <2>1. run[c].state \in {"running", "cancelling"} => run[c].said = "none"
    BY <1>3 DEF RunTrue, Run
  <2>2. CASE r = run[c]
    BY <1>2, <1>3, <2>2 DEF IInv, RunOK, GoesOn
  <2>3. CASE r # run[c]
    BY <1>4, <2>1, <2>3 DEF Endings, RunTrue, GoesOn, FailedRun
  <2> QED
    BY <2>2, <2>3
<1>6. run' \in [Cases -> Run] /\ RunsGoOn /\ run'[c] = r
  <2> HIDE DEF c
  <2> QED
    BY <1>1, <1>2, <1>4, <1>5, RunRow
<1>7. worker' \in [Workers -> Worker] /\ (\A u \in Workers : u # w => WorkerKept(u))
      /\ worker'[w].at = at /\ worker'[w].todo = worker[w].todo /\ Mine(w)' = Mine(w)
  BY <1>2, <1>4, Moved
<1>8. CASE at \in {"reread", "fail"}
  <2>1. WorkerOK(w)'
    BY <1>1, <1>3, <1>4, <1>6, <1>8, Onward DEF Endings, AtCase, Following, Known, Reviewing, FailedRun
  <2>2. HolderOK(w)'
    BY <1>1, <1>7, <1>8, HeldOn
  <2> QED
    BY <1>1, <1>3, <1>6, <1>7, <2>1, <2>2, RunMove
<1>9. CASE at \in {"defer", "deferLost", "handler"}
  <2>1. WorkerOK(w)' /\ HolderOK(w)'
    BY <1>1, <1>2, <1>3, <1>4, <1>9, Aside
  <2> QED
    BY <1>1, <1>3, <1>6, <1>7, <2>1, RunMove
<1> QED
  BY <1>4, <1>8, <1>9

-----------------------------------------------------------------------------
(* What a process does with its case.                                      *)

\* The case gets its session, or its Run is there already.
LEMMA OpenCaseStep ==
  ASSUME IInv, NEW w \in Workers, OpenCase(w)
  PROVE  IInv'
<1> DEFINE c == At(w)
           x == [case[c] EXCEPT !.state = "running"]
<1>1. /\ worker[w].at = "case" /\ worker[w].at \in AtCase /\ worker[w].at \in Working /\ Allowed(w) /\ Holds(w)
      /\ UNCHANGED <<job, run, stops, world, asked, faults>>
  BY DEF OpenCase, AtCase, Working, Allowed
<1>2. /\ c \in Cases /\ c[1] = Mine(w) /\ WorkerOK(w) /\ TypeOK /\ c[2] \in worker[w].todo
      /\ c[2] \in 1..NumCases /\ c = <<c[1], c[2]>>
  BY <1>1, CaseUnderWay DEF IInv, WorkerOK, At
<1>3. case[c] \in Case /\ faults \in 0..MaxFaults /\ asked[c] \in 0..MaxReviews /\ JobsGoOn /\ RunsGoOn
  BY <1>1, <1>2, Standing DEF IInv, TypeOK
<1>4. CASE run[c].state # "none"
  <2>1. Goto(w, "read") /\ UNCHANGED case
    BY <1>4 DEF OpenCase
  <2>2. WorkerOK(w)'
    BY <1>1, <1>3, <1>4, <2>1, Onward DEF AtCase, Following, Known, Reviewing
  <2>3. worker' \in [Workers -> Worker] /\ (\A u \in Workers : u # w => WorkerKept(u))
        /\ worker'[w].at = "read" /\ worker'[w].todo = worker[w].todo /\ Mine(w)' = Mine(w)
    BY <1>2, <2>1, Moved
  <2>4. HolderOK(w)'
    BY <1>1, <2>1, <2>3, HeldOn
  <2> QED
    BY <1>1, <1>3, <2>1, <2>2, <2>3, <2>4, Quiet
<1>5. CASE run[c].state = "none"
  <2>1. Goto(w, "create") /\ case' = [case EXCEPT ![c] = x]
    BY <1>5 DEF OpenCase
  <2>2. /\ x \in Case /\ x.state = "running" /\ x.receipt = case[c].receipt
        /\ x.tries = case[c].tries /\ x.verdict = case[c].verdict
    BY <1>3 DEF Case, Verdicts
  <2> HIDE DEF x, c
  <2>9. PICK d \in Cases : d = c
    BY <1>2
  <2>3. WorkerOK(w)'
    BY <1>1, <1>3, <2>1, Onward DEF AtCase, Following, Known, Reviewing
  <2>4. worker' \in [Workers -> Worker] /\ (\A u \in Workers : u # w => WorkerKept(u))
        /\ worker'[w].at = "create" /\ worker'[w].todo = worker[w].todo /\ Mine(w)' = Mine(w)
        /\ Holds(w)' = Holds(w)
    BY <1>1, <1>2, <2>1, Moved DEF Holds
  <2>5. case'[c] = x /\ \A e \in Cases : e # c => case'[e] = case[e]
    BY <1>2, <2>1, <2>2 DEF TypeOK
  <2>6. HolderOK(w)'
    <3>1. Reliable(w)
      BY <1>1 DEF IInv, HolderOK
    <3>2. ASSUME NEW i \in 1..NumCases, i \notin worker[w].todo
          PROVE  case'[<<Mine(w), i>>].state \notin {"queued", "running"}
      <4>1. <<Mine(w), i>> \in Cases /\ <<Mine(w), i>> # c
        BY <1>2, <3>2 DEF Cases
      <4> QED
        BY <2>5, <3>1, <3>2, <4>1 DEF Reliable
    <3> QED
      BY <2>4, <3>2 DEF HolderOK, Reliable
  <2>7. CaseOK(d)'
    <3>1. CaseOK(d) /\ job[d[1]].state \notin Terminal
      BY <1>1, <1>2, <2>9 DEF IInv, Holds, Terminal
    <3>2. job[d[1]].state # "succeeded" /\ case'[d] = x /\ case[d] = case[c]
      BY <2>5, <2>9, <3>1 DEF Terminal
    <3> QED
      BY <1>1, <2>2, <3>1, <3>2 DEF CaseOK, Reported
  <2>8. asked' = [asked EXCEPT ![c] = asked[c]]
    BY <1>1, <1>2 DEF TypeOK
  <2> QED
    BY <1>1, <1>2, <1>3, <2>1, <2>2, <2>3, <2>4, <2>6, <2>7, <2>8, <2>9, CaseMove DEF c
<1> QED
  BY <1>4, <1>5

\* The answer is produced, or its generation fails.
LEMMA GenerateStep ==
  ASSUME IInv, NEW w \in Workers, Generate(w)
  PROVE  IInv'
<1>1. /\ worker[w].at \in AtCase /\ worker[w].at \in Following /\ worker[w].at \in Working
      /\ UNCHANGED <<job, case, run, stops, world, asked>>
      /\ faults \in 0..MaxFaults /\ JobsGoOn /\ RunsGoOn /\ TypeOK
  BY Standing DEF Generate, AtCase, Following, Working, IInv, TypeOK
<1>2. PICK at \in {"commit", "busy", "fail"} : Goto(w, at)
  BY DEF Generate
<1>3. faults' \in 0..MaxFaults
  BY <1>1, EvaluationAssumption DEF Generate
<1>4. WorkerOK(w)'
  BY <1>1, <1>2, Onward DEF AtCase, Following, Known, Reviewing
<1>5. worker' \in [Workers -> Worker] /\ (\A u \in Workers : u # w => WorkerKept(u))
      /\ worker'[w].at = at /\ worker'[w].todo = worker[w].todo /\ Mine(w)' = Mine(w)
  BY <1>1, <1>2, Moved
<1>6. HolderOK(w)'
  BY <1>1, <1>5, HeldOn
<1> QED
  BY <1>1, <1>3, <1>4, <1>5, <1>6, Quiet

\* The prediction: the message of the Run, or its failure.
LEMMA PredictStep ==
  ASSUME IInv, NEW w \in Workers, Predict(w)
  PROVE  IInv'
<1> DEFINE c == At(w)
           verdict == Predicted(w)
           at == IF verdict \in {"generation", "malformed"} THEN "save"
                 ELSE IF worker[w].saw = "waiting" THEN "drop" ELSE "judge"
           x == [worker[w] EXCEPT !.verdict = verdict, !.at = at]
<1>1. /\ worker[w].at = "result" /\ worker[w].at \in AtCase /\ worker[w].at \in Working /\ Allowed(w)
      /\ worker' = [worker EXCEPT ![w] = x]
      /\ UNCHANGED <<job, case, run, stops, world, asked, faults>>
  BY DEF Predict, AtCase, Following, Working
<1>2. c \in Cases /\ c[1] = Mine(w) /\ WorkerOK(w) /\ worker[w] \in Worker /\ Seen(w)
  BY <1>1, CaseUnderWay DEF IInv, WorkerOK, TypeOK
<1>3. /\ run[c] \in Run /\ RunOK(c) /\ RunTrue(run[c]) /\ faults \in 0..MaxFaults
      /\ run[c].state # "none"
  BY <1>1, <1>2 DEF IInv, TypeOK, RunOK, WorkerOK, Following
<1>4. worker[w].saw # "cancelling" \/ ~Over(Mine(w))
  BY <1>1 DEF Allowed, Over, Terminal
<1>5. \/ /\ worker[w].saw \in {"succeeded", "waiting"} /\ verdict = run[c].said
         /\ \/ verdict \in {"answer", "question"} /\ at \in {"drop", "judge"}
            \/ verdict = "malformed" /\ at = "save"
      \/ verdict = "generation" /\ at = "save" /\ run[c].state \in FailedRun
  <2>1. CASE worker[w].saw \in {"succeeded", "waiting"}
    <3>1. verdict = run[c].said /\ run[c].said \in {"answer", "question", "malformed"}
      BY <1>2, <2>1 DEF Predicted, Seen, FailedRun
    <3> QED
      BY <1>3, <2>1, <3>1 DEF Run
  <2>2. CASE worker[w].saw \notin {"succeeded", "waiting"}
    BY <1>2, <1>4, <2>2 DEF Predicted, Seen
  <2> QED
    BY <2>1, <2>2
<1>6. at = "drop" => verdict = "question"
  <2>1. at = "drop" => worker[w].saw = "waiting" /\ verdict # "malformed"
    OBVIOUS
  <2>2. worker[w].saw = "waiting" => run[c].said \in {"question", "malformed"}
    BY <1>2 DEF Seen, FailedRun
  <2> HIDE DEF at, verdict
  <2> QED
    BY <1>5, <2>1, <2>2
<1> HIDE DEF at, verdict
<1>7. /\ x \in Worker /\ x.at = at /\ x.verdict = verdict /\ x.job = worker[w].job
      /\ x.todo = worker[w].todo /\ x.stale = worker[w].stale
  BY <1>2, <1>5 DEF Worker, Verdicts
<1> HIDE DEF x
<1>8. /\ worker' \in [Workers -> Worker] /\ \A u \in Workers : u # w => WorkerKept(u)
      /\ worker'[w] = x /\ Mine(w)' = Mine(w) /\ At(w)' = c
  BY <1>1, <1>7 DEF IInv, TypeOK, WorkerKept, Mine, At
<1>9. Placed(w)'
  BY <1>1, <1>2, <1>5, <1>7, <1>8 DEF WorkerOK, Placed, Working, AtCase, Following, Known, Reviewing
<1>10. \A d \in worker'[w].stale : Over(d[1])'
  BY <1>1, <1>2, <1>7, <1>8 DEF WorkerOK, Over
<1>11. Rests(w)'
  BY <1>1, <1>5, <1>7, <1>8 DEF Rests
<1>12. WorkerOK(w)'
  BY <1>1, <1>3, <1>5, <1>6, <1>7, <1>8, <1>9, <1>10, <1>11 DEF WorkerOK, Reviewing, Known
<1>13. HolderOK(w)'
  BY <1>1, <1>5, <1>7, <1>8, HeldOn
<1> QED
  BY <1>1, <1>3, <1>8, <1>12, <1>13, Quiet

\* A stored review is used again, a new one counts as an attempt.
LEMMA OpenReviewStep ==
  ASSUME IInv, NEW w \in Workers, OpenReview(w)
  PROVE  IInv'
<1>1. /\ worker[w].at = "judge" /\ worker[w].at \in AtCase /\ worker[w].at \in Working /\ Allowed(w) /\ Holds(w)
      /\ UNCHANGED <<job, run, stops, world, asked, faults>>
  BY DEF OpenReview, AtCase, Following, Known, Reviewing, Working, Allowed
<1>2. PICK d \in Cases : d = At(w)
  BY <1>1, CaseUnderWay DEF IInv, WorkerOK
<1>3. /\ d[1] = Mine(w) /\ WorkerOK(w) /\ TypeOK /\ case[d] \in Case /\ worker[w] \in Worker
      /\ faults \in 0..MaxFaults /\ asked[d] \in 0..MaxReviews
  BY <1>1, <1>2, CaseUnderWay DEF IInv, WorkerOK, TypeOK
<1>4. /\ worker[w].verdict \in {"answer", "question"} /\ run[d].said = worker[w].verdict
      /\ run[d].state # "none" /\ \A c \in worker[w].stale : Over(c[1])
  BY <1>1, <1>2, <1>3 DEF WorkerOK, Rests, Known, Reviewing, Following
<1>5. ASSUME NEW x \in Worker, x.at \in {"ask", "save"}, x.verdict = worker[w].verdict \/ (x.at = "save" /\ x.verdict = "review"),
             x.job = worker[w].job, x.todo = worker[w].todo, x.stale = worker[w].stale,
             worker' = [worker EXCEPT ![w] = x]
      PROVE  /\ worker' \in [Workers -> Worker] /\ \A u \in Workers : u # w => WorkerKept(u)
             /\ WorkerOK(w)' /\ worker'[w] = x /\ Mine(w)' = Mine(w) /\ At(w)' = d
  <2>1. /\ worker' \in [Workers -> Worker] /\ \A u \in Workers : u # w => WorkerKept(u)
        /\ worker'[w] = x /\ Mine(w)' = Mine(w) /\ At(w)' = d
    BY <1>2, <1>3, <1>5 DEF TypeOK, WorkerKept, Mine, At
  <2>2. Placed(w)'
    BY <1>1, <1>3, <1>5, <2>1 DEF WorkerOK, Placed, Working, AtCase, Following, Known, Reviewing
  <2>3. \A c \in worker'[w].stale : Over(c[1])'
    BY <1>1, <1>4, <1>5, <2>1 DEF Over
  <2>4. Rests(w)'
    BY <1>1, <1>4, <1>5, <2>1 DEF Rests
  <2> QED
    BY <1>1, <1>4, <1>5, <2>1, <2>2, <2>3, <2>4 DEF WorkerOK, Reviewing, Known
<1>6. CASE Reviewed(w)
  <2> DEFINE x == [worker[w] EXCEPT !.at = "save"]
  <2>1. worker' = [worker EXCEPT ![w] = x] /\ UNCHANGED case /\ case[d].receipt = "succeeded"
    BY <1>1, <1>2, <1>6 DEF OpenReview, Goto, Reviewed
  <2>2. /\ x \in Worker /\ x.at = "save" /\ x.verdict = worker[w].verdict
        /\ x.job = worker[w].job /\ x.todo = worker[w].todo /\ x.stale = worker[w].stale
    BY <1>3 DEF Worker, Verdicts
  <2> HIDE DEF x
  <2>3. /\ worker' \in [Workers -> Worker] /\ \A u \in Workers : u # w => WorkerKept(u)
        /\ WorkerOK(w)' /\ worker'[w] = x /\ Mine(w)' = Mine(w) /\ At(w)' = d
    BY <1>5, <2>1, <2>2
  <2>4. HolderOK(w)'
    <3>1. Reliable(w) /\ Holds(w)' = Holds(w)
      BY <1>1, <2>3 DEF IInv, HolderOK, Holds
    <3> QED
      BY <1>1, <2>1, <2>2, <2>3, <3>1 DEF HolderOK, Reliable
  <2> QED
    BY <1>1, <1>3, <2>1, <2>3, <2>4, Quiet
<1>7. CASE ~Reviewed(w) /\ case[At(w)].tries >= MaxReviews
  <2> DEFINE x == [worker[w] EXCEPT !.at = "save", !.verdict = "review"]
  <2>1. worker' = [worker EXCEPT ![w] = x] /\ UNCHANGED case
    <3>1. ~(case[At(w)].tries < MaxReviews)
      BY <1>2, <1>3, <1>7, EvaluationAssumption DEF Case, Verdicts
    <3> QED
      BY <1>7, <3>1 DEF OpenReview
  <2>2. /\ x \in Worker /\ x.at = "save" /\ x.verdict = "review"
        /\ x.job = worker[w].job /\ x.todo = worker[w].todo /\ x.stale = worker[w].stale
    BY <1>3 DEF Worker, Verdicts
  <2> HIDE DEF x
  <2>3. /\ worker' \in [Workers -> Worker] /\ \A u \in Workers : u # w => WorkerKept(u)
        /\ WorkerOK(w)' /\ worker'[w] = x /\ Mine(w)' = Mine(w) /\ At(w)' = d
    BY <1>5, <2>1, <2>2
  <2>4. HolderOK(w)'
    BY <1>1, <2>1, <2>2, <2>3, HeldOn
  <2> QED
    BY <1>1, <1>3, <2>1, <2>3, <2>4, Quiet
<1>8. CASE ~Reviewed(w) /\ ~(case[At(w)].tries >= MaxReviews)
  <2> DEFINE x == [worker[w] EXCEPT !.at = "ask"]
             tries == case[d].tries + 1
             y == [case[d] EXCEPT !.receipt = "started", !.tries = tries]
  <2>1. worker' = [worker EXCEPT ![w] = x] /\ case' = [case EXCEPT ![d] = y] /\ case[d].receipt # "succeeded"
    BY <1>1, <1>2, <1>3, <1>8 DEF OpenReview, Goto, Reviewed
  <2>2. /\ x \in Worker /\ x.at = "ask" /\ x.verdict = worker[w].verdict
        /\ x.job = worker[w].job /\ x.todo = worker[w].todo /\ x.stale = worker[w].stale
    BY <1>3 DEF Worker, Verdicts
  <2>3. tries \in 0..MaxReviews /\ case[d].tries \in Nat /\ tries = case[d].tries + 1
    BY <1>2, <1>3, <1>8, EvaluationAssumption DEF Case, Verdicts
  <2> HIDE DEF x, tries
  <2>4. /\ y \in Case /\ y.receipt = "started" /\ y.tries = tries /\ y.state = case[d].state
        /\ y.verdict = case[d].verdict
    BY <1>3, <2>3 DEF Case, Verdicts
  <2> HIDE DEF y
  <2>5. /\ worker' \in [Workers -> Worker] /\ \A u \in Workers : u # w => WorkerKept(u)
        /\ WorkerOK(w)' /\ worker'[w] = x /\ Mine(w)' = Mine(w) /\ At(w)' = d
    BY <1>5, <2>1, <2>2
  <2>6. case'[d] = y /\ (\A c \in Cases : c # d => case'[c] = case[c])
        /\ asked' = [asked EXCEPT ![d] = asked[d]]
    BY <1>1, <1>3, <2>1 DEF TypeOK
  <2>7. CaseOK(d) /\ asked[d] <= case[d].tries /\ asked[d] \in Nat
    BY <1>3, EvaluationAssumption DEF IInv, CaseOK
  <2>8. HolderOK(w)'
    <3>1. Reliable(w)
      BY <1>1 DEF IInv, HolderOK
    <3>2. ASSUME NEW i \in 1..NumCases, i \notin worker[w].todo
          PROVE  case'[<<Mine(w), i>>].state \notin {"queued", "running"}
      <4>1. <<Mine(w), i>> \in Cases
        BY <1>3, CaseUnderWay, <1>1 DEF Cases
      <4> QED
        BY <2>4, <2>6, <3>1, <3>2, <4>1 DEF Reliable
    <3>3. case'[d].receipt = "started" /\ asked'[d] < case'[d].tries
      BY <1>1, <2>3, <2>4, <2>6, <2>7
    <3> QED
      BY <2>2, <2>5, <3>2, <3>3 DEF HolderOK, Reliable
  <2>9. CaseOK(d)'
    <3>1. case[d].verdict \notin {"answer", "question", "malformed"}
      BY <1>4, <2>1, <2>7 DEF CaseOK, Reported
    <3> QED
      BY <1>1, <1>4, <2>3, <2>4, <2>6, <2>7, <3>1 DEF CaseOK, Reported
  <2> QED
    BY <1>1, <1>2, <1>3, <2>1, <2>4, <2>5, <2>6, <2>8, <2>9, CaseMove
<1> QED
  BY <1>6, <1>7, <1>8

\* The judge is asked, and its answer confirmed.
LEMMA AskSteps ==
  ASSUME IInv, NEW w \in Workers, AskJudge(w) \/ ConfirmReview(w)
  PROVE  IInv'
<1>1. /\ worker[w].at \in {"ask", "confirm"} /\ worker[w].at \in AtCase /\ worker[w].at \in Working
      /\ Allowed(w) /\ Holds(w) /\ UNCHANGED <<job, run, stops, world>>
  BY DEF AskJudge, ConfirmReview, AtCase, Following, Known, Reviewing, Working, Allowed
<1>2. PICK d \in Cases : d = At(w)
  BY <1>1, CaseUnderWay DEF IInv, WorkerOK
<1>3. /\ d[1] = Mine(w) /\ WorkerOK(w) /\ TypeOK /\ case[d] \in Case /\ worker[w] \in Worker
      /\ faults \in 0..MaxFaults /\ asked[d] \in 0..MaxReviews
  BY <1>1, <1>2, CaseUnderWay DEF IInv, WorkerOK, TypeOK
<1>4. /\ worker[w].verdict \in {"answer", "question"} /\ run[d].said = worker[w].verdict
      /\ run[d].state # "none" /\ \A c \in worker[w].stale : Over(c[1])
  BY <1>1, <1>2, <1>3 DEF WorkerOK, Rests, Known, Reviewing, Following
<1>5. ASSUME NEW x \in Worker, x.at \in {"confirm", "save"}, x.verdict = worker[w].verdict \/ (x.at = "save" /\ x.verdict = "review"),
             x.job = worker[w].job, x.todo = worker[w].todo, x.stale = worker[w].stale,
             worker' = [worker EXCEPT ![w] = x]
      PROVE  /\ worker' \in [Workers -> Worker] /\ \A u \in Workers : u # w => WorkerKept(u)
             /\ WorkerOK(w)' /\ worker'[w] = x /\ Mine(w)' = Mine(w) /\ At(w)' = d
  <2>1. /\ worker' \in [Workers -> Worker] /\ \A u \in Workers : u # w => WorkerKept(u)
        /\ worker'[w] = x /\ Mine(w)' = Mine(w) /\ At(w)' = d
    BY <1>2, <1>3, <1>5 DEF TypeOK, WorkerKept, Mine, At
  <2>2. Placed(w)'
    BY <1>1, <1>3, <1>5, <2>1 DEF WorkerOK, Placed, Working, AtCase, Following, Known, Reviewing
  <2>3. \A c \in worker'[w].stale : Over(c[1])'
    BY <1>1, <1>4, <1>5, <2>1 DEF Over
  <2>4. Rests(w)'
    BY <1>1, <1>4, <1>5, <2>1 DEF Rests
  <2> QED
    BY <1>1, <1>4, <1>5, <2>1, <2>2, <2>3, <2>4 DEF WorkerOK, Reviewing, Known
<1>6. Reliable(w) /\ CaseOK(d) /\ job[d[1]].state \notin Terminal
  BY <1>1, <1>3 DEF IInv, HolderOK, Holds, Terminal
<1>7. CASE AskJudge(w)
  <2> DEFINE confirm == [worker[w] EXCEPT !.at = "confirm"]
             review == [worker[w] EXCEPT !.at = "save", !.verdict = "review"]
             n == asked[d] + 1
  <2>1. worker[w].at = "ask" /\ UNCHANGED case /\ asked' = [asked EXCEPT ![d] = n]
    BY <1>2, <1>7 DEF AskJudge
  <2>2. case[d].receipt = "started" /\ asked[d] < case[d].tries
    BY <1>2, <1>6, <2>1 DEF Reliable
  <2>3. n \in 0..MaxReviews /\ n <= case[d].tries
    BY <1>3, <2>2, EvaluationAssumption DEF Case, Verdicts
  <2>4. faults' \in 0..MaxFaults
    BY <1>3, <1>7, EvaluationAssumption DEF AskJudge
  <2> HIDE DEF n
  <2>5. asked'[d] = n /\ case' = [case EXCEPT ![d] = case[d]]
    BY <1>3, <2>1, <2>3 DEF TypeOK
  <2>6. CaseOK(d)'
    BY <1>1, <1>6, <2>1, <2>3, <2>5 DEF CaseOK, Reported
  <2>7. /\ confirm \in Worker /\ confirm.at = "confirm" /\ confirm.verdict = worker[w].verdict
        /\ confirm.job = worker[w].job /\ confirm.todo = worker[w].todo /\ confirm.stale = worker[w].stale
    BY <1>3 DEF Worker, Verdicts
  <2>8. /\ review \in Worker /\ review.at = "save" /\ review.verdict = "review"
        /\ review.job = worker[w].job /\ review.todo = worker[w].todo /\ review.stale = worker[w].stale
    BY <1>3 DEF Worker, Verdicts
  <2>9. worker' = [worker EXCEPT ![w] = confirm] \/ worker' = [worker EXCEPT ![w] = review] \/ Leave(w)
    BY <1>7 DEF AskJudge, Goto
  <2> HIDE DEF confirm, review
  <2>10. ASSUME NEW x \in {confirm, review}, worker' = [worker EXCEPT ![w] = x]
         PROVE  /\ worker' \in [Workers -> Worker] /\ \A u \in Workers : u # w => WorkerKept(u)
                /\ WorkerOK(w)' /\ HolderOK(w)'
    <3>1. /\ worker' \in [Workers -> Worker] /\ \A u \in Workers : u # w => WorkerKept(u)
          /\ WorkerOK(w)' /\ worker'[w] = x /\ Mine(w)' = Mine(w) /\ At(w)' = d
      BY <1>5, <2>7, <2>8, <2>10
    <3>2. HolderOK(w)'
      BY <1>1, <1>6, <2>1, <2>7, <2>8, <2>10, <3>1 DEF HolderOK, Reliable
    <3> QED
      BY <3>1, <3>2
  <2>11. /\ worker' \in [Workers -> Worker] /\ \A u \in Workers : u # w => WorkerKept(u)
         /\ WorkerOK(w)' /\ HolderOK(w)'
    BY <1>3, <2>9, <2>10, Left
  <2> QED
    BY <1>1, <1>2, <1>3, <2>1, <2>3, <2>4, <2>5, <2>6, <2>11, CaseMove
<1>8. CASE ConfirmReview(w)
  <2> DEFINE x == [worker[w] EXCEPT !.at = "save"]
             y == [case[d] EXCEPT !.receipt = "succeeded"]
  <2>1. /\ worker' = [worker EXCEPT ![w] = x] /\ case' = [case EXCEPT ![d] = y] /\ UNCHANGED <<asked, faults>>
    BY <1>2, <1>8 DEF ConfirmReview, Goto
  <2>2. /\ x \in Worker /\ x.at = "save" /\ x.verdict = worker[w].verdict
        /\ x.job = worker[w].job /\ x.todo = worker[w].todo /\ x.stale = worker[w].stale
    BY <1>3 DEF Worker, Verdicts
  <2>3. /\ y \in Case /\ y.receipt = "succeeded" /\ y.tries = case[d].tries /\ y.state = case[d].state
        /\ y.verdict = case[d].verdict
    BY <1>3 DEF Case, Verdicts
  <2> HIDE DEF x, y
  <2>4. /\ worker' \in [Workers -> Worker] /\ \A u \in Workers : u # w => WorkerKept(u)
        /\ WorkerOK(w)' /\ worker'[w] = x /\ Mine(w)' = Mine(w) /\ At(w)' = d
    BY <1>5, <2>1, <2>2
  <2>5. case'[d] = y /\ (\A c \in Cases : c # d => case'[c] = case[c])
        /\ asked' = [asked EXCEPT ![d] = asked[d]]
    BY <1>3, <2>1 DEF TypeOK
  <2>6. HolderOK(w)'
    <3>1. ASSUME NEW i \in 1..NumCases, i \notin worker[w].todo
          PROVE  case'[<<Mine(w), i>>].state \notin {"queued", "running"}
      <4>1. <<Mine(w), i>> \in Cases
        BY <1>1, <1>3, CaseUnderWay DEF Cases
      <4> QED
        BY <1>6, <2>3, <2>5, <3>1, <4>1 DEF Reliable
    <3> QED
      BY <2>2, <2>3, <2>4, <2>5, <3>1 DEF HolderOK, Reliable
  <2>7. CaseOK(d)'
    <3>1. case[d].verdict # "malformed"
      BY <1>4, <1>6 DEF CaseOK, Reported
    <3> QED
      BY <1>1, <1>4, <1>6, <2>1, <2>3, <2>5, <3>1 DEF CaseOK, Reported
  <2> QED
    BY <1>1, <1>2, <1>3, <2>1, <2>3, <2>4, <2>5, <2>6, <2>7, CaseMove
<1> QED
  BY <1>7, <1>8

\* The result of the case.
LEMMA SaveCaseStep ==
  ASSUME IInv, NEW w \in Workers, SaveCase(w)
  PROVE  IInv'
<1>1. /\ worker[w].at = "save" /\ worker[w].at \in AtCase /\ worker[w].at \in Working /\ worker[w].at \in Known
      /\ Allowed(w) /\ Holds(w) /\ UNCHANGED <<job, run, stops, world, asked, faults>>
  BY DEF SaveCase, AtCase, Following, Known, Working, Allowed
<1>2. PICK d \in Cases : d = At(w)
  BY <1>1, CaseUnderWay DEF IInv, WorkerOK
<1>3. /\ d[1] = Mine(w) /\ WorkerOK(w) /\ TypeOK /\ case[d] \in Case /\ worker[w] \in Worker
      /\ faults \in 0..MaxFaults /\ asked[d] \in 0..MaxReviews /\ Mine(w) \in Jobs
      /\ d = <<Mine(w), d[2]>>
  BY <1>1, <1>2, CaseUnderWay DEF IInv, WorkerOK, TypeOK, At
<1>4. /\ Reliable(w) /\ CaseOK(d) /\ job[d[1]].state \notin Terminal /\ RunTrue(run[d])
      /\ worker[w].verdict # "none"
      /\ worker[w].verdict \in {"answer", "question"} =>
           run[d].said = worker[w].verdict /\ case[d].receipt = "succeeded"
      /\ worker[w].verdict = "malformed" => run[d].said = "malformed" /\ case[d].receipt = "none"
      /\ worker[w].verdict = "generation" => run[d].state \in FailedRun
  BY <1>1, <1>2, <1>3 DEF IInv, HolderOK, Holds, Terminal, RunOK, WorkerOK, Rests, Reliable, CaseOK
<1> DEFINE verdict == worker[w].verdict
           state == IF verdict \in {"malformed", "generation", "review"} THEN "failed" ELSE "succeeded"
           receipt == IF verdict = "review" /\ case[d].receipt = "started" THEN "failed" ELSE case[d].receipt
           y == [case[d] EXCEPT !.state = state, !.verdict = verdict, !.receipt = receipt]
           todo == worker[w].todo \ {d[2]}
           x == [Idle EXCEPT !.at = "next", !.job = Mine(w), !.todo = todo]
<1>5. case' = [case EXCEPT ![d] = y] /\ worker' = [worker EXCEPT ![w] = x]
  BY <1>2 DEF SaveCase
<1>6. /\ state \in {"failed", "succeeded"} /\ receipt \in {"none", "started", "succeeded", "failed"}
      /\ case[d].receipt = "succeeded" => receipt = "succeeded"
      /\ case[d].receipt = "none" => receipt = "none"
      /\ verdict \in Verdicts /\ todo \in SUBSET (1..NumCases)
      /\ Mine(w) \in 0..NumJobs
  BY <1>3, EvaluationAssumption DEF Case, Worker, Jobs
<1> HIDE DEF state, receipt, verdict, todo
<1>7. /\ y \in Case /\ y.state = state /\ y.verdict = verdict /\ y.receipt = receipt /\ y.tries = case[d].tries
  BY <1>3, <1>6 DEF Case, Verdicts
<1>8. /\ x \in Worker /\ x.at = "next" /\ x.job = Mine(w) /\ x.todo = todo /\ x.stale = {}
  BY <1>6 DEF Worker, Verdicts, Idle, RunStates
<1> HIDE DEF x, y
<1>9. /\ worker' \in [Workers -> Worker] /\ \A u \in Workers : u # w => WorkerKept(u)
      /\ worker'[w] = x /\ Mine(w)' = Mine(w)
  BY <1>3, <1>5, <1>8 DEF TypeOK, WorkerKept, Mine
<1>10. WorkerOK(w)'
  BY <1>3, <1>8, <1>9 DEF WorkerOK, Placed, AtCase, Following, Known, Reviewing
<1>11. case'[d] = y /\ (\A c \in Cases : c # d => case'[c] = case[c])
       /\ asked' = [asked EXCEPT ![d] = asked[d]]
  BY <1>1, <1>3, <1>5 DEF TypeOK
<1>12. HolderOK(w)'
  <2>1. ASSUME NEW i \in 1..NumCases, i \notin todo
        PROVE  case'[<<Mine(w), i>>].state \notin {"queued", "running"}
    <3>1. <<Mine(w), i>> \in Cases
      BY <1>3 DEF Cases
    <3>2. CASE i = d[2]
      BY <1>3, <1>6, <1>7, <1>11, <3>2
    <3>3. CASE i # d[2]
      BY <1>3, <1>4, <1>11, <2>1, <3>1, <3>3 DEF Reliable, todo
    <3> QED
      BY <3>2, <3>3
  <2> QED
    BY <1>8, <1>9, <2>1 DEF HolderOK, Reliable
<1>13. CaseOK(d)'
  <2>1. /\ y.verdict # "none"
        /\ y.verdict \in {"answer", "question"} => y.receipt = "succeeded" /\ run[d].said = y.verdict
        /\ y.verdict = "malformed" => run[d].said = "malformed" /\ y.receipt = "none"
        /\ y.verdict = "generation" => run[d].state \in FailedRun /\ run[d].said # "answer"
        /\ y.receipt # "none" => run[d].said \in {"answer", "question"}
    BY <1>4, <1>6, <1>7 DEF verdict, RunTrue, FailedRun, CaseOK
  <2> QED
    BY <1>1, <1>4, <1>7, <1>11, <2>1 DEF CaseOK, Reported
<1> QED
  BY <1>1, <1>2, <1>3, <1>5, <1>7, <1>9, <1>10, <1>11, <1>12, <1>13, CaseMove

-----------------------------------------------------------------------------
(* Jobs.                                                                   *)

\* One job changes.
LEMMA JobRow ==
  ASSUME IInv, NEW j \in Jobs, NEW y \in Job, job' = [job EXCEPT ![j] = y],
         Over(j) => y.state \in {"cancelling"} \cup Terminal,
         job[j].state \in Terminal => y.state = job[j].state
  PROVE  /\ job' \in [Jobs -> Job] /\ job'[j] = y /\ JobsGoOn
         /\ \A i \in Jobs : i # j => job'[i] = job[i]
<1>1. job' \in [Jobs -> Job] /\ job'[j] = y /\ \A i \in Jobs : i # j => job'[i] = job[i]
  BY DEF IInv, TypeOK
<1>2. JobsGoOn
  BY <1>1 DEF JobsGoOn, Over
<1> QED
  BY <1>1, <1>2

\* Who holds a job afterwards held it before, and its cases are as they were.
LEMMA HoldersKept ==
  ASSUME IInv, NEW j \in Jobs, NEW y \in Job, job'[j] = y,
         \A i \in Jobs : i # j => job'[i] = job[i], UNCHANGED asked,
         \A c \in Cases : c[1] # j => case'[c] = case[c],
         \/ y.lease = FALSE
         \/ y.state \notin {"running", "cancelling"}
         \/ /\ UNCHANGED case /\ y.lease = job[j].lease /\ y.owner = job[j].owner
            /\ job[j].state \in {"running", "cancelling"},
         NEW u \in Workers, WorkerKept(u)
  PROVE  HolderKept(u)
<1>1. Mine(u)' = Mine(u)
  BY DEF WorkerKept, Mine
<1> SUFFICES ASSUME worker[u].at \in Working, Holds(u)', NEW i \in 1..NumCases
             PROVE  /\ Holds(u)
                    /\ case'[<<Mine(u), i>>] = case[<<Mine(u), i>>]
                    /\ asked'[<<Mine(u), i>>] = asked[<<Mine(u), i>>]
  <2>1. 1 \in 1..NumCases
    BY EvaluationAssumption
  <2> QED
    BY <2>1 DEF HolderKept
<1>2. Mine(u) \in Jobs /\ <<Mine(u), i>> \in Cases
  BY DEF IInv, WorkerOK, Placed, Cases
<1>3. CASE Mine(u) # j
  BY <1>1, <1>2, <1>3 DEF Holds
<1>4. CASE Mine(u) = j
  BY <1>1, <1>2, <1>4 DEF Holds
<1> QED
  BY <1>3, <1>4

LEMMA Typed ==
  ASSUME NEW S, NEW T, NEW f, f = [x \in S |-> f[x]], \A x \in S : f[x] \in T
  PROVE  f \in [S -> T]
OBVIOUS

\* EvaluationService._finish: the cases without a result end with their job.
LEMMA ClosedCase ==
  ASSUME IInv, RunsGoOn, NEW c \in Cases, NEW end \in {"failed", "cancelled"},
         case'[c] = Closed(c[1], end)[c], asked'[c] = asked[c], job'[c[1]].state = end
  PROVE  CaseOK(c)' /\ case'[c] \in Case
<1>1. case[c] \in Case /\ CaseOK(c) /\ RunOK(c)' /\ GoesOn(run[c], run'[c]) /\ end \in Terminal /\ end # "succeeded"
  BY DEF IInv, TypeOK, RunsGoOn, Terminal
<1> DEFINE state == IF end = "cancelled" THEN "cancelled" ELSE "failed"
           y == [case[c] EXCEPT !.state = state]
<1>2. /\ case[c].state \in {"queued", "running"} => case'[c] = y
      /\ case[c].state \notin {"queued", "running"} => case'[c] = case[c]
  <2>1. Closed(c[1], end)[c] = IF c[1] = c[1] /\ case[c].state \in {"queued", "running"}
                               THEN [case[c] EXCEPT !.state = IF end = "cancelled" THEN "cancelled" ELSE "failed"]
                               ELSE case[c]
    BY DEF Closed
  <2>2. y = [case[c] EXCEPT !.state = IF end = "cancelled" THEN "cancelled" ELSE "failed"]
    OBVIOUS
  <2> HIDE DEF y
  <2> QED
    BY <2>1, <2>2
<1>3. state \in {"failed", "cancelled"}
  OBVIOUS
<1> HIDE DEF state
<1>4. /\ y \in Case /\ y.state = state /\ y.receipt = case[c].receipt /\ y.tries = case[c].tries
      /\ y.verdict = case[c].verdict
  BY <1>1, <1>3 DEF Case, Verdicts
<1> HIDE DEF y
<1>5. /\ case'[c] \in Case /\ case'[c].state \notin {"queued", "running"}
      /\ case'[c].receipt = case[c].receipt /\ case'[c].tries = case[c].tries
      /\ case'[c].verdict = case[c].verdict
  <2>1. CASE case[c].state \in {"queued", "running"}
    BY <1>1, <1>2, <1>3, <1>4, <2>1
  <2>2. CASE case[c].state \notin {"queued", "running"}
    BY <1>1, <1>2, <2>2
  <2> QED
    BY <2>1, <2>2
<1>6. RunTrue(run'[c]) /\ Reported(c)
  BY <1>1 DEF RunOK, CaseOK
<1>7. /\ case[c].verdict \in {"answer", "question", "malformed"} => run'[c].said = case[c].verdict
      /\ case[c].receipt # "none" => run'[c].said \in {"answer", "question"}
      /\ case[c].verdict = "generation" => run'[c].state \in FailedRun /\ run'[c].said # "answer"
  BY <1>1, <1>6 DEF CaseOK, Reported, RunTrue, GoesOn, FailedRun
<1>8. Reported(c)'
  BY <1>1, <1>5, <1>6, <1>7 DEF Reported
<1> QED
  BY <1>1, <1>5, <1>7, <1>8 DEF CaseOK

\* A job ends without a report.
LEMMA JobClosed ==
  ASSUME IInv, NEW j \in Jobs, NEW end \in {"failed", "cancelled"},
         job' = [job EXCEPT ![j] = Ended(j, end)], case' = Closed(j, end),
         job[j].state \notin Terminal, job[j].state = "cancelling" => end = "cancelled",
         UNCHANGED <<run, world, asked, faults>>,
         \A c \in stops' : c \in Cases /\ Over(c[1])', 
         worker' \in [Workers -> Worker], \A u \in Workers : WorkerKept(u) \/ (WorkerOK(u)' /\ HolderOK(u)')
  PROVE  IInv'
<1> DEFINE y == Ended(j, end)
<1>1. /\ y \in Job /\ y.state = end /\ y.lease = FALSE
  BY DEF IInv, TypeOK, Job, Ended, Terminal
<1> HIDE DEF y
<1>2. /\ job' \in [Jobs -> Job] /\ job'[j] = y /\ JobsGoOn
      /\ \A i \in Jobs : i # j => job'[i] = job[i]
  <2>1. job' = [job EXCEPT ![j] = y]
    BY DEF y
  <2> QED
    BY <1>1, <2>1, JobRow DEF Terminal
<1>3. RunsGoOn
  BY <1>2, Standing
<1>4. ASSUME NEW c \in Cases
      PROVE  /\ case'[c] \in Case /\ (CaseKept(c) \/ CaseOK(c)')
             /\ c[1] # j => case'[c] = case[c]
  <2>1. case'[c] = Closed(j, end)[c]
    OBVIOUS
  <2>2. CASE c[1] = j
    BY <1>1, <1>2, <1>3, <2>1, <2>2, ClosedCase
  <2>3. CASE c[1] # j
    <3>1. case'[c] = case[c] /\ c[1] \in Jobs
      BY <2>1, <2>3 DEF Closed, Cases
    <3> QED
      BY <1>2, <2>3, <3>1 DEF IInv, TypeOK, CaseKept
  <2> QED
    BY <2>2, <2>3
<1>5. case' \in [Cases -> Case]
  <2>1. case' = [c \in Cases |-> case'[c]]
    BY DEF Closed
  <2>2. \A c \in Cases : case'[c] \in Case
    BY <1>4
  <2> QED
    BY <2>1, <2>2, Typed
<1>6. TypeOK'
  BY <1>2, <1>5 DEF IInv, TypeOK
<1>7. ASSUME NEW u \in Workers, WorkerKept(u) PROVE HolderKept(u)
  <2>1. /\ \A i \in Jobs : i # j => job'[i] = job[i]
        /\ \A c \in Cases : c[1] # j => case'[c] = case[c]
        /\ y \in Job /\ job'[j] = y /\ y.lease = FALSE /\ UNCHANGED asked
    BY <1>1, <1>2, <1>4
  <2> QED
    BY <1>7, <2>1, HoldersKept
<1> QED
  BY <1>2, <1>3, <1>4, <1>6, <1>7, CarryOn

LEMMA CreateStep ==
  ASSUME IInv, NEW j \in Jobs, Create(j)
  PROVE  IInv'
<1> DEFINE y == [job[j] EXCEPT !.state = "queued"]
<1>1. /\ y \in Job /\ y.state = "queued" /\ job' = [job EXCEPT ![j] = y] /\ job[j].state = "absent"
      /\ UNCHANGED <<case, run, worker, stops, world, asked, faults>>
  BY DEF Create, IInv, TypeOK, Job, Active
<1> HIDE DEF y
<1>2. /\ job' \in [Jobs -> Job] /\ job'[j] = y /\ JobsGoOn
      /\ \A i \in Jobs : i # j => job'[i] = job[i]
  BY <1>1, JobRow DEF Over, Terminal
<1>3. \A u \in Workers : HolderKept(u)
  BY <1>1, <1>2, HoldersKept DEF WorkerKept
<1>4. \A c \in Cases : CaseKept(c)
  BY <1>1, <1>2 DEF CaseKept, Cases, Terminal
<1>5. \A c \in stops' : Over(c[1])'
  BY <1>1, <1>2 DEF IInv, TypeOK, Cases, JobsGoOn
<1>6. TypeOK' /\ RunsGoOn
  BY <1>1, <1>2, Standing DEF IInv, TypeOK
<1> QED
  BY <1>1, <1>2, <1>3, <1>4, <1>5, <1>6, CarryOn DEF WorkerKept

LEMMA LapseJobStep ==
  ASSUME IInv, NEW j \in Jobs, LapseJob(j)
  PROVE  IInv'
<1> DEFINE y == [job[j] EXCEPT !.lease = FALSE]
<1>9. /\ job' = [job EXCEPT ![j] = y] /\ UNCHANGED <<case, run, worker, stops, world, asked>>
      /\ faults' = faults \/ (faults < MaxFaults /\ faults' = faults + 1)
  BY DEF LapseJob, Lapse
<1>1. /\ y \in Job /\ y.state = job[j].state /\ y.lease = FALSE /\ job' = [job EXCEPT ![j] = y]
      /\ UNCHANGED <<case, run, worker, stops, world, asked>> /\ faults' \in 0..MaxFaults
  <2>1. y \in Job /\ y.state = job[j].state /\ y.lease = FALSE
    BY DEF IInv, TypeOK, Job
  <2>2. faults' \in 0..MaxFaults
    BY <1>9, EvaluationAssumption DEF IInv, TypeOK
  <2> QED
    BY <1>9, <2>1, <2>2
<1> HIDE DEF y
<1>2. /\ job' \in [Jobs -> Job] /\ job'[j] = y /\ JobsGoOn
      /\ \A i \in Jobs : i # j => job'[i] = job[i]
  BY <1>1, JobRow DEF Over
<1>3. \A u \in Workers : HolderKept(u)
  BY <1>1, <1>2, HoldersKept DEF WorkerKept
<1>4. \A c \in Cases : CaseKept(c)
  BY <1>1, <1>2 DEF CaseKept, Cases
<1>5. \A c \in stops' : Over(c[1])'
  BY <1>1, <1>2 DEF IInv, TypeOK, Cases, JobsGoOn
<1>6. TypeOK' /\ RunsGoOn
  BY <1>1, <1>2, Standing DEF IInv, TypeOK
<1> QED
  BY <1>1, <1>2, <1>3, <1>4, <1>5, <1>6, CarryOn DEF WorkerKept

\* A job that waits ends at once, one that runs is asked to.
LEMMA CancelStep ==
  ASSUME IInv, NEW j \in Jobs, Cancel(j)
  PROVE  IInv'
<1>1. /\ UNCHANGED <<run, worker, world, asked, faults>> /\ job[j].state \in Active
      /\ \A c \in stops' : c \in stops \/ (c \in Cases /\ c[1] = j)
  BY DEF Cancel
<1>2. CASE job[j].state = "queued"
  <2>1. job' = [job EXCEPT ![j] = Ended(j, "cancelled")] /\ case' = Closed(j, "cancelled")
    BY <1>2 DEF Cancel
  <2>2. job'[j].state = "cancelled" /\ \A i \in Jobs : i # j => job'[i] = job[i]
    BY <2>1 DEF IInv, TypeOK, Ended, Job
  <2>3. \A c \in stops' : c \in Cases /\ Over(c[1])'
    BY <1>1, <2>2 DEF IInv, TypeOK, Over, Cases, Terminal
  <2>4. job[j].state \notin Terminal /\ job[j].state # "cancelling"
    BY <1>2 DEF Terminal
  <2> QED
    BY <1>1, <2>1, <2>3, <2>4, JobClosed DEF WorkerKept, IInv, TypeOK
<1>3. CASE job[j].state # "queued"
  <2> DEFINE y == [job[j] EXCEPT !.state = "cancelling"]
  <2>1. /\ y \in Job /\ y.state = "cancelling" /\ y.lease = job[j].lease /\ y.owner = job[j].owner
        /\ job' = [job EXCEPT ![j] = y] /\ UNCHANGED case
        /\ job[j].state \in {"running", "cancelling"}
    BY <1>1, <1>3 DEF Cancel, IInv, TypeOK, Job, Active
  <2> HIDE DEF y
  <2>2. /\ job' \in [Jobs -> Job] /\ job'[j] = y /\ JobsGoOn
        /\ \A i \in Jobs : i # j => job'[i] = job[i]
    BY <2>1, JobRow DEF Terminal
  <2>3. \A u \in Workers : HolderKept(u)
    BY <1>1, <2>1, <2>2, HoldersKept DEF WorkerKept
  <2>4. \A c \in Cases : CaseKept(c)
    BY <1>1, <2>1, <2>2 DEF CaseKept, Cases, Terminal
  <2>5. \A c \in stops' : c \in Cases /\ Over(c[1])'
    BY <1>1, <2>1, <2>2 DEF IInv, TypeOK, Cases, JobsGoOn, Over
  <2>6. TypeOK' /\ RunsGoOn
    BY <1>1, <2>1, <2>2, <2>5, Standing DEF IInv, TypeOK
  <2> QED
    BY <1>1, <2>1, <2>2, <2>3, <2>4, <2>5, <2>6, CarryOn DEF WorkerKept
<1> QED
  BY <1>2, <1>3

\* The except clause of run_once.
LEMMA HandleStep ==
  ASSUME IInv, NEW w \in Workers, Handle(w)
  PROVE  IInv'
<1>1. /\ worker[w].at = "handler" /\ Leave(w) /\ UNCHANGED <<run, stops, world, asked, faults>>
      /\ TypeOK /\ Mine(w) \in Jobs
  BY DEF Handle, IInv, WorkerOK, Placed
<1>2. /\ worker' \in [Workers -> Worker] /\ \A u \in Workers : u # w => WorkerKept(u)
      /\ WorkerOK(w)' /\ HolderOK(w)'
  BY <1>1, Left
<1>3. CASE ~Holds(w)
  BY <1>1, <1>2, <1>3, Quiet DEF Handle, IInv, TypeOK
<1>4. CASE Holds(w)
  <2> DEFINE end == IF job[Mine(w)].state = "cancelling" THEN "cancelled" ELSE "failed"
  <2>1. job' = [job EXCEPT ![Mine(w)] = Ended(Mine(w), end)] /\ case' = Closed(Mine(w), end)
    BY <1>4 DEF Handle
  <2>2. job[Mine(w)].state \notin Terminal /\ end \in {"failed", "cancelled"}
        /\ (job[Mine(w)].state = "cancelling" => end = "cancelled")
    BY <1>4 DEF Holds, Terminal
  <2> HIDE DEF end
  <2>3. PICK j \in Jobs : j = Mine(w)
    BY <1>1
  <2>4. job'[j].state = end /\ \A i \in Jobs : i # j => job'[i] = job[i]
    BY <1>1, <2>1, <2>2, <2>3 DEF TypeOK, Ended, Job
  <2>5. \A c \in stops' : c \in Cases /\ Over(c[1])'
    BY <1>1, <2>2, <2>4 DEF IInv, TypeOK, Over, Cases, Terminal
  <2> QED
    BY <1>1, <1>2, <2>1, <2>2, <2>3, <2>5, JobClosed
<1> QED
  BY <1>3, <1>4

\* The job waits for a Run that somebody else holds.
LEMMA DeferStep ==
  ASSUME IInv, NEW w \in Workers, Defer(w)
  PROVE  IInv'
<1>1. /\ worker[w].at \in {"defer", "deferLost"} /\ Allowed(w) /\ Holds(w) /\ Leave(w)
      /\ UNCHANGED <<case, run, stops, world, asked, faults>> /\ TypeOK /\ Mine(w) \in Jobs
      /\ job[Mine(w)].state = "running"
  BY DEF Defer, Allowed, IInv, WorkerOK, Placed
<1>2. /\ worker' \in [Workers -> Worker] /\ \A u \in Workers : u # w => WorkerKept(u)
      /\ WorkerOK(w)' /\ HolderOK(w)'
  BY <1>1, Left
<1>3. PICK j \in Jobs : j = Mine(w)
  BY <1>1
<1> DEFINE attempts == IF job[j].attempts > 0 THEN job[j].attempts - 1 ELSE 0
           ended == Ended(j, "queued")
           y == [ended EXCEPT !.attempts = attempts]
<1>4. job' = [job EXCEPT ![j] = y]
  BY <1>3 DEF Defer
<1>5. attempts \in 0..MaxAttempts
  BY <1>1, EvaluationAssumption DEF TypeOK, Job
<1>6. ended \in Job /\ ended.state = "queued" /\ ended.lease = FALSE
  BY <1>1 DEF TypeOK, Job, Ended, Active
<1> HIDE DEF attempts, ended
<1>7. y \in Job /\ y.state = "queued" /\ y.lease = FALSE
  BY <1>5, <1>6 DEF Job
<1> HIDE DEF y
<1>8. /\ job' \in [Jobs -> Job] /\ job'[j] = y /\ JobsGoOn
      /\ \A i \in Jobs : i # j => job'[i] = job[i]
  BY <1>1, <1>3, <1>4, <1>7, JobRow DEF Over, Terminal
<1>9. \A u \in Workers : WorkerKept(u) => HolderKept(u)
  BY <1>1, <1>7, <1>8, HoldersKept
<1>10. \A c \in Cases : CaseKept(c)
  BY <1>1, <1>7, <1>8 DEF CaseKept, Cases, Terminal
<1>11. \A c \in stops' : Over(c[1])'
  BY <1>1, <1>8 DEF IInv, TypeOK, Cases, JobsGoOn
<1>12. TypeOK' /\ RunsGoOn
  BY <1>1, <1>2, <1>8, Standing DEF TypeOK
<1> QED
  BY <1>2, <1>8, <1>9, <1>10, <1>11, <1>12, CarryOn

\* The job ends with its report: every case has a verdict.
LEMMA FinishStep ==
  ASSUME IInv, NEW w \in Workers, Finish(w)
  PROVE  IInv'
<1>1. /\ worker[w].at = "finish" /\ worker[w].at \in Working /\ Allowed(w) /\ Holds(w) /\ Leave(w)
      /\ UNCHANGED <<case, run, stops, world, asked, faults>> /\ TypeOK /\ Mine(w) \in Jobs
      /\ job[Mine(w)].state = "running"
  BY DEF Finish, Allowed, IInv, WorkerOK, Placed, Working
<1>2. /\ worker' \in [Workers -> Worker] /\ \A u \in Workers : u # w => WorkerKept(u)
      /\ WorkerOK(w)' /\ HolderOK(w)'
  BY <1>1, Left
<1>3. PICK j \in Jobs : j = Mine(w)
  BY <1>1
<1> DEFINE y == Ended(j, "succeeded")
<1>4. job' = [job EXCEPT ![j] = y]
  BY <1>3 DEF Finish
<1>5. y \in Job /\ y.state = "succeeded" /\ y.lease = FALSE
  BY <1>1 DEF TypeOK, Job, Ended, Terminal
<1> HIDE DEF y
<1>6. /\ job' \in [Jobs -> Job] /\ job'[j] = y /\ JobsGoOn
      /\ \A i \in Jobs : i # j => job'[i] = job[i]
  BY <1>1, <1>3, <1>4, <1>5, JobRow DEF Over, Terminal
<1>7. \A u \in Workers : WorkerKept(u) => HolderKept(u)
  BY <1>1, <1>5, <1>6, HoldersKept
<1>8. ASSUME NEW c \in Cases PROVE CaseKept(c) \/ CaseOK(c)'
  <2>1. CASE c[1] # j
    BY <1>1, <1>6, <2>1 DEF CaseKept, Cases
  <2>2. CASE c[1] = j
    <3>1. c[2] \in 1..NumCases /\ c = <<Mine(w), c[2]>>
      BY <1>3, <2>2 DEF Cases
    <3>2. case[c].state \notin {"queued", "running"}
      BY <1>1, <3>1 DEF IInv, HolderOK, Reliable, WorkerOK, Placed
    <3>3. CaseOK(c) /\ case[c].verdict # "none"
      BY <1>1, <1>3, <2>2, <3>2 DEF IInv, CaseOK, Terminal
    <3> QED
      BY <1>1, <3>2, <3>3 DEF CaseOK, Reported
  <2> QED
    BY <2>1, <2>2
<1>9. \A c \in stops' : Over(c[1])'
  BY <1>1, <1>6 DEF IInv, TypeOK, Cases, JobsGoOn
<1>10. TypeOK' /\ RunsGoOn
  BY <1>1, <1>2, <1>6, Standing DEF TypeOK
<1> QED
  BY <1>2, <1>6, <1>7, <1>8, <1>9, <1>10, CarryOn

\* claim_next: jobs that can no longer run end, the first that can is taken.
LEMMA ClaimStep ==
  ASSUME IInv, NEW w \in Workers, Claim(w)
  PROVE  IInv'
<1> DEFINE open == {j \in Jobs : Claimable(j)}
           over == {j \in open : job[j].state = "cancelling" \/ Exhausted(j)}
           next == IF open \ over = {} THEN 0 ELSE Min(open \ over)
           gone == {j \in over : next = 0 \/ j < next}
           End(j) == IF job[j].state = "cancelling" THEN "cancelled" ELSE "failed"
           settled == [d \in Cases |-> SettledRun(run[d])]
           Taken(j) == [state |-> "running", owner |-> w, lease |-> TRUE, attempts |-> job[j].attempts + 1]
           started == [Idle EXCEPT !.at = "start", !.job = next]
<1>1. /\ run' = settled
      /\ job' = [j \in Jobs |-> IF j \in gone THEN Ended(j, End(j)) ELSE IF j = next THEN Taken(j) ELSE job[j]]
      /\ case' = [c \in Cases |-> IF c[1] \in gone THEN Closed(c[1], End(c[1]))[c] ELSE case[c]]
      /\ worker' = [worker EXCEPT ![w] = IF next = 0 THEN Idle ELSE started]
      /\ UNCHANGED <<stops, world, asked, faults>>
  BY DEF Claim
<1>2. TypeOK
  BY DEF IInv
<1>3. /\ \A j \in gone : j \in Jobs /\ Claimable(j)
      /\ next # 0 => next \in Jobs /\ Claimable(next) /\ job[next].state # "cancelling"
                     /\ ~Exhausted(next) /\ next \notin gone
      /\ next \in 0..NumJobs
  <2>1. open \ over \in SUBSET Nat
    BY EvaluationAssumption DEF Jobs
  <2>2. CASE open \ over # {}
    <3>1. next \in open \ over
      BY <2>1, <2>2, Least
    <3> HIDE DEF next
    <3>2. next \in Jobs /\ Claimable(next) /\ ~(job[next].state = "cancelling" \/ Exhausted(next))
      BY <3>1
    <3> QED
      BY <3>2, EvaluationAssumption DEF Jobs
  <2>3. CASE open \ over = {}
    BY <2>3, EvaluationAssumption
  <2> QED
    BY <2>2, <2>3
<1> HIDE DEF next, gone
<1>4. ASSUME NEW j \in gone
      PROVE  /\ job'[j] = Ended(j, End(j)) /\ Ended(j, End(j)) \in Job /\ job'[j].lease = FALSE
             /\ job'[j].state = End(j) /\ End(j) \in {"failed", "cancelled"} /\ End(j) \in Terminal
             /\ job[j].state \notin Terminal
  <2>1. j \in Jobs /\ job[j] \in Job /\ job[j].state \notin Terminal
    BY <1>2, <1>3 DEF TypeOK, Claimable, Terminal
  <2>2. End(j) \in {"failed", "cancelled"}
    OBVIOUS
  <2> HIDE DEF End
  <2>3. /\ Ended(j, End(j)) \in Job /\ Ended(j, End(j)).lease = FALSE /\ Ended(j, End(j)).state = End(j)
    BY <2>1, <2>2 DEF Ended, Job, Terminal
  <2> QED
    BY <1>1, <2>1, <2>2, <2>3 DEF Terminal
<1>5. ASSUME next # 0
      PROVE  /\ job'[next] = Taken(next) /\ Taken(next) \in Job
             /\ job[next].state \notin Terminal /\ ~Over(next)
  <2>1. job[next] \in Job /\ job[next].attempts < MaxAttempts /\ job[next].attempts \in Nat
    BY <1>2, <1>3, <1>5, EvaluationAssumption DEF TypeOK, Exhausted, Job
  <2>2. job[next].attempts + 1 \in 0..MaxAttempts
    BY <2>1, EvaluationAssumption
  <2> QED
    BY <1>1, <1>3, <1>5, <2>1, <2>2 DEF Job, Active, Claimable, Over, Terminal
<1>6. ASSUME NEW j \in Jobs, j \notin gone, j # next
      PROVE  job'[j] = job[j] /\ job[j] \in Job
  BY <1>1, <1>2, <1>6 DEF TypeOK
<1>7. 0 \notin Jobs
  BY DEF Jobs
<1>8. job' \in [Jobs -> Job]
  <2>1. \A j \in Jobs : job'[j] \in Job
    BY <1>4, <1>5, <1>6, <1>7
  <2>2. job' = [j \in Jobs |-> job'[j]]
    BY <1>1
  <2> QED
    BY <2>1, <2>2
<1>9. JobsGoOn
  <2>1. ASSUME NEW j \in Jobs
        PROVE  (Over(j) => Over(j)') /\ (job[j].state \in Terminal => job'[j].state = job[j].state)
    <3>1. CASE j \in gone
      BY <1>4, <3>1 DEF Over
    <3>2. CASE j = next
      BY <1>5, <1>7, <3>2
    <3>3. CASE j \notin gone /\ j # next
      BY <1>6, <3>3 DEF Over
    <3> QED
      BY <3>1, <3>2, <3>3
  <2> QED
    BY <2>1 DEF JobsGoOn
<1>10. run' \in [Cases -> Run] /\ RunsGoOn
  <2> HIDE DEF settled
  <2>1. settled = [d \in Cases |-> SettledRun(run[d])]
    BY DEF settled
  <2> QED
    BY <1>1, <1>9, <2>1, RunsSettled
<1>11. /\ worker' \in [Workers -> Worker] /\ \A u \in Workers : u # w => WorkerKept(u)
       /\ WorkerOK(w)' /\ HolderOK(w)'
  <2>1. CASE next = 0
    <3>1. Leave(w)
      BY <1>1, <2>1 DEF Leave
    <3> QED
      BY <1>2, <3>1, Left
  <2>2. CASE next # 0
    <3>1. started \in Worker /\ started.at = "start" /\ started.job = next /\ started.stale = {}
      BY <1>3 DEF Worker, Verdicts, Idle, RunStates
    <3> HIDE DEF started
    <3>2. worker' \in [Workers -> Worker] /\ worker'[w] = started /\ \A u \in Workers : u # w => WorkerKept(u)
      BY <1>1, <1>2, <2>2, <3>1 DEF TypeOK, WorkerKept
    <3>3. Mine(w)' = next
      BY <3>1, <3>2 DEF Mine
    <3> QED
      BY <1>3, <2>2, <3>1, <3>2, <3>3
      DEF WorkerOK, HolderOK, Placed, Working, AtCase, Following, Known, Reviewing
  <2> QED
    BY <2>1, <2>2
<1>12. ASSUME NEW c \in Cases
       PROVE  /\ case'[c] \in Case /\ (CaseKept(c) \/ CaseOK(c)')
              /\ c[1] \notin gone => case'[c] = case[c]
  <2>1. c[1] \in Jobs /\ asked'[c] = asked[c]
    BY <1>1 DEF Cases
  <2>2. CASE c[1] \in gone
    <3>1. case'[c] = Closed(c[1], End(c[1]))[c]
      BY <1>1, <2>2
    <3>2. job'[c[1]].state = End(c[1]) /\ End(c[1]) \in {"failed", "cancelled"}
      BY <1>4, <2>2
    <3> HIDE DEF End
    <3> QED
      BY <1>10, <2>1, <2>2, <3>1, <3>2, ClosedCase
  <2>3. CASE c[1] \notin gone
    <3>1. case'[c] = case[c] /\ case[c] \in Case
      BY <1>1, <1>2, <2>3 DEF TypeOK
    <3>2. job'[c[1]].state \in Terminal => job'[c[1]].state = job[c[1]].state
      <4>1. CASE c[1] = next
        <5>1. job'[c[1]].state = "running"
          BY <1>5, <1>7, <2>1, <4>1
        <5> QED
          BY <5>1 DEF Terminal
      <4>2. CASE c[1] # next
        BY <1>6, <2>1, <2>3, <4>2
      <4> QED
        BY <4>1, <4>2
    <3> QED
      BY <2>1, <3>1, <3>2 DEF CaseKept
  <2> QED
    BY <2>2, <2>3
<1>13. case' \in [Cases -> Case]
  <2>1. case' = [c \in Cases |-> case'[c]]
    BY <1>1
  <2> QED
    BY <1>12, <2>1
<1>14. ASSUME NEW u \in Workers, u # w PROVE HolderKept(u)
  <2>1. WorkerKept(u) /\ Mine(u)' = Mine(u)
    BY <1>11, <1>14 DEF WorkerKept, Mine
  <2>2. ASSUME worker[u].at \in Working, Holds(u)'
        PROVE  Holds(u) /\ Mine(u) \in Jobs /\ Mine(u) \notin gone
    <3>1. Mine(u) \in Jobs
      BY <2>2 DEF IInv, WorkerOK, Placed
    <3>2. Mine(u) \notin gone
      BY <1>4, <2>1, <2>2 DEF Holds
    <3>3. Mine(u) # next
      BY <1>5, <1>7, <1>14, <2>1, <2>2, <3>1 DEF Holds
    <3> QED
      BY <1>6, <2>1, <2>2, <3>1, <3>2, <3>3 DEF Holds
  <2>3. ASSUME Mine(u) \in Jobs, Mine(u) \notin gone, NEW i \in 1..NumCases
        PROVE  /\ case'[<<Mine(u), i>>] = case[<<Mine(u), i>>]
               /\ asked'[<<Mine(u), i>>] = asked[<<Mine(u), i>>]
    <3>1. <<Mine(u), i>> \in Cases
      BY <2>3 DEF Cases
    <3> QED
      BY <1>1, <1>12, <2>3, <3>1
  <2> QED
    BY <2>1, <2>2, <2>3 DEF HolderKept
<1>15. \A c \in stops' : Over(c[1])'
  BY <1>1, <1>9 DEF IInv, TypeOK, Cases, JobsGoOn
<1>16. TypeOK'
  BY <1>1, <1>2, <1>8, <1>10, <1>11, <1>13 DEF TypeOK
<1> QED
  BY <1>9, <1>10, <1>11, <1>12, <1>14, <1>15, <1>16, CarryOn

-----------------------------------------------------------------------------
(* The other steps of a process and of the world.                          *)

\* A scan finds Runs of ended jobs.
LEMMA ScanStep ==
  ASSUME IInv, NEW w \in Workers, Scan(w)
  PROVE  IInv'
<1> DEFINE stale == {c \in Cases : job[c[1]].state \in Terminal /\ run[c].state \in LiveRun}
           x == [worker[w] EXCEPT !.at = "reconcile", !.stale = stale]
<1>1. /\ worker' = [worker EXCEPT ![w] = x] /\ UNCHANGED <<job, case, run, stops, world, asked, faults>>
      /\ TypeOK /\ faults \in 0..MaxFaults
  BY DEF Scan, IInv, TypeOK
<1>2. stale \in SUBSET Cases /\ \A c \in stale : Over(c[1])
  BY DEF Over
<1> HIDE DEF stale
<1>3. x \in Worker /\ x.at = "reconcile" /\ x.stale = stale
  <2>1. worker[w] \in Worker /\ stale \in SUBSET Cases
    BY <1>1, <1>2 DEF TypeOK
  <2> QED
    BY <2>1 DEF Worker, Verdicts
<1> HIDE DEF x
<1>4. worker' \in [Workers -> Worker] /\ worker'[w] = x /\ \A u \in Workers : u # w => WorkerKept(u)
  BY <1>1, <1>3 DEF TypeOK, WorkerKept
<1>5. WorkerOK(w)' /\ HolderOK(w)'
  BY <1>1, <1>2, <1>3, <1>4
  DEF WorkerOK, HolderOK, Placed, Over, Working, AtCase, Following, Known, Reviewing
<1> QED
  BY <1>1, <1>4, <1>5, Quiet

\* The Runs it found are cancelled one by one.
LEMMA ReconcileStep ==
  ASSUME IInv, NEW w \in Workers, Reconcile(w)
  PROVE  IInv'
<1>1. /\ worker[w].at = "reconcile" /\ UNCHANGED <<job, case, stops, world, asked, faults>>
      /\ TypeOK /\ faults \in 0..MaxFaults /\ WorkerOK(w) /\ worker[w] \in Worker
  BY DEF Reconcile, IInv, TypeOK
<1>2. CASE worker[w].stale = {}
  <2>1. Goto(w, "claim") /\ UNCHANGED run
    BY <1>2 DEF Reconcile
  <2>2. /\ worker' \in [Workers -> Worker] /\ \A u \in Workers : u # w => WorkerKept(u)
        /\ worker'[w].at = "claim" /\ worker'[w].stale = worker[w].stale
    BY <1>1, <2>1, Moved
  <2>3. WorkerOK(w)' /\ HolderOK(w)'
    BY <1>2, <2>2
    DEF WorkerOK, HolderOK, Placed, Working, AtCase, Following, Known, Reviewing
  <2> QED
    BY <1>1, <2>1, <2>2, <2>3, Quiet
<1>3. CASE worker[w].stale # {}
  <2>1. PICK c \in worker[w].stale :
          /\ run' = [run EXCEPT ![c] = CancelledRun(run[c])]
          /\ worker' = [worker EXCEPT ![w].stale = worker[w].stale \ {c}]
    BY <1>3 DEF Reconcile
  <2> DEFINE stale == worker[w].stale \ {c}
             x == [worker[w] EXCEPT !.stale = stale]
  <2>2. c \in Cases /\ Over(c[1]) /\ run[c] \in Run /\ RunTrue(run[c])
    BY <1>1 DEF Worker, WorkerOK, TypeOK, IInv, RunOK
  <2>3. run' \in [Cases -> Run] /\ RunsGoOn
    BY <1>1, <2>1, <2>2, Cancelled, RunRow
  <2>4. stale \in SUBSET Cases /\ \A d \in stale : Over(d[1])
    BY <1>1 DEF Worker, WorkerOK
  <2>5. worker' = [worker EXCEPT ![w] = x]
    BY <2>1
  <2> HIDE DEF stale
  <2>6. x \in Worker /\ x.at = "reconcile" /\ x.stale = stale
    BY <1>1, <2>4 DEF Worker, Verdicts
  <2> HIDE DEF x
  <2>7. worker' \in [Workers -> Worker] /\ worker'[w] = x /\ \A u \in Workers : u # w => WorkerKept(u)
    BY <1>1, <2>5, <2>6 DEF TypeOK, WorkerKept
  <2>8. WorkerOK(w)' /\ HolderOK(w)'
    BY <1>1, <2>4, <2>6, <2>7
    DEF WorkerOK, HolderOK, Placed, Over, Working, AtCase, Following, Known, Reviewing
  <2> QED
    BY <1>1, <2>3, <2>7, <2>8, RunMove
<1> QED
  BY <1>2, <1>3

\* The cases without a result are read.
LEMMA StartStep ==
  ASSUME IInv, NEW w \in Workers, Start(w)
  PROVE  IInv'
<1> DEFINE todo == {i \in 1..NumCases : case[<<Mine(w), i>>].state \in {"queued", "running"}}
           x == [worker[w] EXCEPT !.at = "next", !.todo = todo]
<1>1. /\ worker' = [worker EXCEPT ![w] = x] /\ UNCHANGED <<job, case, run, stops, world, asked, faults>>
      /\ TypeOK /\ faults \in 0..MaxFaults /\ WorkerOK(w) /\ Mine(w) \in Jobs /\ worker[w] \in Worker
  BY DEF Start, IInv, TypeOK, WorkerOK, Placed
<1>2. /\ todo \in SUBSET (1..NumCases)
      /\ \A i \in 1..NumCases : i \notin todo => case[<<Mine(w), i>>].state \notin {"queued", "running"}
  OBVIOUS
<1> HIDE DEF todo
<1>3. /\ x \in Worker /\ x.at = "next" /\ x.stale = worker[w].stale /\ x.job = worker[w].job
      /\ x.todo = todo
  BY <1>1, <1>2 DEF Worker, Verdicts
<1> HIDE DEF x
<1>4. /\ worker' \in [Workers -> Worker] /\ worker'[w] = x /\ \A u \in Workers : u # w => WorkerKept(u)
      /\ Mine(w)' = Mine(w)
  BY <1>1, <1>3 DEF TypeOK, WorkerKept, Mine
<1>5. WorkerOK(w)'
  BY <1>1, <1>3, <1>4 DEF WorkerOK, Placed, Over, Working, AtCase, Following, Known, Reviewing
<1>6. HolderOK(w)'
  BY <1>1, <1>2, <1>3, <1>4 DEF HolderOK, Reliable
<1> QED
  BY <1>1, <1>4, <1>5, <1>6, Quiet

LEMMA NextCaseStep ==
  ASSUME IInv, NEW w \in Workers, NextCase(w)
  PROVE  IInv'
<1>1. /\ worker[w].at = "next" /\ worker[w].at \in Working /\ UNCHANGED <<job, case, run, stops, world, asked>>
      /\ TypeOK /\ faults' \in 0..MaxFaults /\ WorkerOK(w) /\ JobsGoOn
  BY EvaluationAssumption, Standing DEF NextCase, IInv, TypeOK, Working
<1>2. CASE Goto(w, "defer")
  <2>1. WorkerOK(w)' /\ HolderOK(w)'
    BY <1>1, <1>2, Aside
  <2> QED
    BY <1>1, <1>2, <2>1, Moved, Quiet
<1>3. ASSUME NEW at \in {"finish", "case"}, Goto(w, at),
             at = "finish" => worker[w].todo = {}, at = "case" => worker[w].todo # {}
      PROVE  IInv'
  <2>1. /\ worker' \in [Workers -> Worker] /\ \A u \in Workers : u # w => WorkerKept(u)
        /\ worker'[w].at = at /\ worker'[w].stale = worker[w].stale /\ worker'[w].todo = worker[w].todo
        /\ Mine(w)' = Mine(w)
    BY <1>1, <1>3, Moved
  <2>2. WorkerOK(w)'
    BY <1>1, <1>3, <2>1 DEF WorkerOK, Placed, Over, Working, AtCase, Following, Known, Reviewing
  <2>3. HolderOK(w)'
    BY <1>1, <1>3, <2>1, HeldOn
  <2> QED
    BY <1>1, <2>1, <2>2, <2>3, Quiet
<1> QED
  BY <1>2, <1>3 DEF NextCase

\* A checked step finds the job lost, cancelled, forbidden or out of scope.
LEMMA RefusedStep ==
  ASSUME IInv, NEW w \in Workers, Refused(w)
  PROVE  IInv'
<1>1. /\ UNCHANGED <<job, case, run, stops, world, asked, faults>>
      /\ worker[w].at \in Scoped \cup {"start", "judge", "confirm", "defer", "deferLost"}
      /\ TypeOK /\ faults \in 0..MaxFaults /\ WorkerOK(w) /\ JobsGoOn /\ RunsGoOn
  BY Standing DEF Refused, IInv, TypeOK
<1>2. CASE Leave(w)
  BY <1>1, <1>2, Left, Quiet
<1>3. CASE worker[w].at # "deferLost" /\ Goto(w, "handler")
  <2>1. worker[w].at \in AtCase \cup {"next", "start", "finish", "defer"}
    BY <1>1, <1>3 DEF Scoped, AtCase, Following, Known, Reviewing
  <2>2. WorkerOK(w)' /\ HolderOK(w)'
    BY <1>1, <1>3, <2>1, Aside
  <2> QED
    BY <1>1, <1>3, <2>2, Moved, Quiet
<1>4. ASSUME worker[w].at = "generate", NEW at \in {"stopRun", "fail"}, Goto(w, at),
             at = "stopRun" => job[Mine(w)].state = "cancelling"
      PROVE  IInv'
  <2>1. worker[w].at \in AtCase /\ worker[w].at \in Following /\ worker[w].at \in Working
    BY <1>4 DEF Working, AtCase, Following
  <2>2. WorkerOK(w)'
    BY <1>1, <1>4, <2>1, Onward DEF Over, AtCase, Following, Known, Reviewing
  <2>3. /\ worker' \in [Workers -> Worker] /\ \A u \in Workers : u # w => WorkerKept(u)
        /\ worker'[w].at = at /\ worker'[w].todo = worker[w].todo /\ Mine(w)' = Mine(w)
    BY <1>1, <1>4, Moved
  <2>4. HolderOK(w)'
    BY <1>1, <1>4, <2>1, <2>3, HeldOn
  <2> QED
    BY <1>1, <2>2, <2>3, <2>4, Quiet
<1>5. \/ Leave(w)
      \/ worker[w].at # "deferLost" /\ Goto(w, "handler")
      \/ worker[w].at = "generate" /\ job[Mine(w)].state = "cancelling" /\ Goto(w, "stopRun")
      \/ worker[w].at = "generate" /\ Goto(w, "fail")
  BY DEF Refused
<1> QED
  BY <1>2, <1>3, <1>4, <1>5

LEMMA WorldSteps ==
  ASSUME IInv, ForgetStops \/ Revoke \/ UNCHANGED vars
  PROVE  IInv'
<1>1. UNCHANGED <<job, case, run, worker, asked>> /\ stops' \subseteq stops /\ faults' \in 0..MaxFaults
  BY EvaluationAssumption DEF ForgetStops, Revoke, vars, IInv, TypeOK
<1>2. world' \in [admin : BOOLEAN, scope : BOOLEAN]
  BY DEF ForgetStops, Revoke, vars, IInv, TypeOK
<1>3. TypeOK'
  BY <1>1, <1>2 DEF IInv, TypeOK
<1>4. \A c \in stops' : Over(c[1])'
  BY <1>1 DEF IInv, Over
<1> QED
  BY <1>1, <1>3, <1>4, Standing, CarryOn DEF WorkerKept

LEMMA CrashStep ==
  ASSUME IInv, NEW w \in Workers, Crash(w)
  PROVE  IInv'
<1>1. /\ UNCHANGED <<job, case, run, stops, world, asked>> /\ Leave(w) /\ TypeOK /\ faults' \in 0..MaxFaults
  BY EvaluationAssumption DEF Crash, IInv, TypeOK
<1> QED
  BY <1>1, Left, Quiet

-----------------------------------------------------------------------------
(* Every step keeps the invariant.                                         *)

LEMMA Initially == Init => IInv
<1> SUFFICES ASSUME Init PROVE IInv
  OBVIOUS
<1> DEFINE absent == [state |-> "absent", owner |-> NoWorker, lease |-> FALSE, attempts |-> 0]
           fresh == [state |-> "queued", receipt |-> "none", tries |-> 0, verdict |-> "none"]
           none == [state |-> "none", owner |-> NoWorker, lease |-> FALSE, said |-> "none"]
<1>1. absent \in Job /\ absent.state = "absent"
  BY EvaluationAssumption DEF Job
<1>2. fresh \in Case /\ fresh.state = "queued" /\ fresh.receipt = "none" /\ fresh.verdict = "none" /\ fresh.tries = 0
  BY EvaluationAssumption DEF Case, Verdicts
<1>3. none \in Run /\ none.state = "none" /\ none.said = "none"
  BY DEF Run, RunStates
<1>4. Idle \in Worker /\ Idle.at = "idle" /\ Idle.stale = {}
  BY EvaluationAssumption DEF Worker, Verdicts, Idle, RunStates
<1>5. /\ job = [j \in Jobs |-> absent] /\ case = [c \in Cases |-> fresh] /\ run = [c \in Cases |-> none]
      /\ worker = [w \in Workers |-> Idle] /\ stops = {} /\ world = [admin |-> TRUE, scope |-> TRUE]
      /\ asked = [c \in Cases |-> 0] /\ faults = 0
  BY DEF Init
<1> HIDE DEF absent, fresh, none
<1>6. TypeOK
  BY <1>1, <1>2, <1>3, <1>4, <1>5, EvaluationAssumption DEF TypeOK
<1>7. \A c \in Cases : RunOK(c)
  BY <1>3, <1>5 DEF RunOK, RunTrue
<1>8. \A w \in Workers : WorkerOK(w) /\ HolderOK(w)
  BY <1>4, <1>5 DEF WorkerOK, HolderOK, Placed, Working, AtCase, Following, Known, Reviewing
<1>9. \A c \in Cases : CaseOK(c)
  BY <1>1, <1>2, <1>5 DEF CaseOK, Reported, Cases, Terminal
<1> QED
  BY <1>5, <1>6, <1>7, <1>8, <1>9 DEF IInv

LEMMA WorkerSteps ==
  ASSUME IInv, NEW w \in Workers, Step(w) \/ Crash(w)
  PROVE  IInv'
<1>1. CASE \/ Scan(w) \/ Reconcile(w) \/ Claim(w) \/ Start(w) \/ NextCase(w) \/ OpenCase(w)
           \/ CreateRun(w) \/ ReadRun(w)
  BY <1>1, ScanStep, ReconcileStep, ClaimStep, StartStep, NextCaseStep, OpenCaseStep, CreateRunStep,
     ReadRunStep
<1>2. CASE \/ TakeRun(w) \/ Generate(w) \/ CommitRun(w) \/ ReleaseRun(w) \/ StopRun(w) \/ FailRun(w)
           \/ Predict(w) \/ DropRun(w)
  BY <1>2, TakeRunStep, GenerateStep, HeldRunSteps, StopSteps, PredictStep
<1>3. CASE \/ OpenReview(w) \/ AskJudge(w) \/ ConfirmReview(w) \/ SaveCase(w) \/ Finish(w)
           \/ Defer(w) \/ Refused(w) \/ Handle(w) \/ Crash(w)
  BY <1>3, OpenReviewStep, AskSteps, SaveCaseStep, FinishStep, DeferStep, RefusedStep, HandleStep, CrashStep
<1> QED
  BY <1>1, <1>2, <1>3 DEF Step

LEMMA Inductive == IInv /\ [Next]_vars => IInv'
<1> SUFFICES ASSUME IInv, [Next]_vars PROVE IInv'
  OBVIOUS
<1>1. ASSUME NEW j \in Jobs, Create(j) \/ Cancel(j) \/ LapseJob(j) PROVE IInv'
  BY <1>1, CreateStep, CancelStep, LapseJobStep
<1>2. ASSUME NEW c \in Cases, CancelRun(c) \/ LapseRun(c) \/ ExpireRun(c) PROVE IInv'
  BY <1>2, RunsAlone
<1>3. ASSUME NEW w \in Workers, Step(w) \/ Crash(w) PROVE IInv'
  BY <1>3, WorkerSteps
<1>4. CASE ForgetStops \/ Revoke \/ UNCHANGED vars
  BY <1>4, WorldSteps
<1> QED
  BY <1>1, <1>2, <1>3, <1>4 DEF Next

-----------------------------------------------------------------------------
(* The theorems.                                                           *)

\* The inductive invariant: what the processes remember and rely on.
THEOREM Invariance == Spec => []IInv
  BY Initially, Inductive, PTL DEF Spec

\* Rows and processes have the states of the code; the claims of a job stay
\* within MaxAttempts, the reviews asked for a case within MaxReviews (TypeOK).
THEOREM TypesHold == Spec => []TypeOK
<1>1. IInv => TypeOK
  BY DEF IInv
<1> QED
  BY <1>1, Invariance, PTL

\* The report of a job rests, for every case, on a verdict that agrees with
\* what its Run and its reviewer said, a message that is no valid prediction was
\* never reviewed, and no ended job has a case under way (evaluation_jobs.py
\* _finish, evaluation_worker.py _generate, _save_case).
THEOREM ReportsAreTrue == Spec => []ReportTruth
<1>1. IInv => ReportTruth
  <2> SUFFICES ASSUME IInv, NEW c \in Cases PROVE Reported(c)
    BY DEF ReportTruth, Reported, FailedRun
  <2> QED
    BY DEF IInv, CaseOK
<1> QED
  BY <1>1, Invariance, PTL

\* Who asks the judge has opened the review: its receipt is not a success.
LEMMA PaidOnce ==
  ASSUME IInv, [Next]_vars, NEW c \in Cases, case[c].receipt = "succeeded"
  PROVE  asked'[c] = asked[c] /\ case'[c].receipt = "succeeded"
<1> DEFINE Paid == asked'[c] = asked[c] /\ case'[c].receipt = "succeeded"
<1>1. case[c] \in Case /\ asked \in [Cases -> Nat] /\ case \in [Cases -> Case]
  BY DEF IInv, TypeOK
<1>2. ASSUME NEW j, NEW end, UNCHANGED asked, case'[c] = Closed(j, end)[c] PROVE Paid
  BY <1>1, <1>2 DEF Closed, Case
<1>3. ASSUME UNCHANGED <<case, asked>> PROVE Paid
  BY <1>3
<1>4. ASSUME NEW j \in Jobs, Create(j) \/ Cancel(j) \/ LapseJob(j) PROVE Paid
  BY <1>2, <1>3, <1>4 DEF Create, Cancel, LapseJob
<1>5. ASSUME NEW d \in Cases, CancelRun(d) \/ LapseRun(d) \/ ExpireRun(d) PROVE Paid
  BY <1>3, <1>5 DEF CancelRun, LapseRun, ExpireRun
<1>6. CASE ForgetStops \/ Revoke \/ UNCHANGED vars
  BY <1>3, <1>6 DEF ForgetStops, Revoke, vars
<1>7. ASSUME NEW w \in Workers,
             \/ Scan(w) \/ Reconcile(w) \/ Start(w) \/ NextCase(w) \/ CreateRun(w) \/ ReadRun(w)
             \/ TakeRun(w) \/ Generate(w) \/ CommitRun(w) \/ ReleaseRun(w) \/ StopRun(w)
             \/ FailRun(w) \/ Predict(w) \/ DropRun(w) \/ Finish(w) \/ Defer(w) \/ Refused(w)
             \/ Crash(w)
      PROVE  Paid
  <2>1. UNCHANGED <<case, asked>>
    BY <1>7 DEF Scan, Reconcile, Start, NextCase, CreateRun, ReadRun, TakeRun, Generate, CommitRun,
                ReleaseRun, StopRun, FailRun, Predict, DropRun, Finish, Defer, Refused, Crash
  <2> QED
    BY <2>1, <1>3
<1>8. ASSUME NEW w \in Workers, Claim(w) \/ Handle(w) PROVE Paid
  <2>1. UNCHANGED asked
    BY <1>8 DEF Claim, Handle
  <2>2. CASE Claim(w)
    <3>1. case'[c] = case[c] \/ \E j, end : case'[c] = Closed(j, end)[c]
      BY <2>2, Zenon DEF Claim
    <3> QED
      BY <2>1, <3>1, <1>2
  <2>3. CASE Handle(w)
    <3>1. UNCHANGED case \/ \E end : case' = Closed(Mine(w), end)
      BY <2>3 DEF Handle
    <3> QED
      BY <2>1, <3>1, <1>2, <1>3
  <2> QED
    BY <1>8, <2>2, <2>3
<1>9. ASSUME NEW w \in Workers, worker[w].at \in AtCase PROVE At(w) \in Cases
  BY <1>9, CaseUnderWay DEF IInv, WorkerOK
<1>10. ASSUME NEW w \in Workers, OpenCase(w) PROVE Paid
  <2>1. PICK d \in Cases : d = At(w)
    BY <1>9, <1>10 DEF OpenCase, AtCase
  <2>2. case' = case \/ case' = [case EXCEPT ![d].state = "running"]
    BY <1>10, <2>1 DEF OpenCase
  <2> QED
    BY <1>1, <1>10, <2>2 DEF OpenCase, Case
<1>11. ASSUME NEW w \in Workers, OpenReview(w) PROVE Paid
  <2>1. PICK d \in Cases : d = At(w)
    BY <1>9, <1>11 DEF OpenReview, AtCase, Following, Known, Reviewing
  <2>2. \/ case' = case
        \/ case[d].receipt # "succeeded" /\ \A e \in Cases \ {d} : case'[e] = case[e]
    BY <1>1, <1>11, <2>1 DEF OpenReview, Reviewed
  <2> QED
    BY <1>1, <1>11, <2>2 DEF OpenReview
<1>12. ASSUME NEW w \in Workers, AskJudge(w) PROVE Paid
  <2>1. PICK d \in Cases : d = At(w)
    BY <1>9, <1>12 DEF AskJudge, AtCase, Following, Known, Reviewing
  <2>2. case[d].receipt = "started"
    BY <1>12, <2>1 DEF AskJudge, Allowed, IInv, HolderOK, Reliable, Working, AtCase, Following, Known, Reviewing
  <2> QED
    BY <1>1, <1>12, <2>1, <2>2 DEF AskJudge
<1>13. ASSUME NEW w \in Workers, ConfirmReview(w) PROVE Paid
  <2>1. PICK d \in Cases : d = At(w)
    BY <1>9, <1>13 DEF ConfirmReview, AtCase, Following, Known, Reviewing
  <2>2. case' = [case EXCEPT ![d].receipt = "succeeded"]
    BY <1>13, <2>1 DEF ConfirmReview
  <2> QED
    BY <1>1, <1>13, <2>2 DEF ConfirmReview, Case
<1>14. ASSUME NEW w \in Workers, SaveCase(w) PROVE Paid
  <2>1. PICK d \in Cases : d = At(w)
    BY <1>9, <1>14 DEF SaveCase, AtCase, Following, Known
  <2> DEFINE receipt == IF worker[w].verdict = "review" /\ case[d].receipt = "started"
                        THEN "failed" ELSE case[d].receipt
             state == IF worker[w].verdict \in {"malformed", "generation", "review"} THEN "failed" ELSE "succeeded"
             row == [case[d] EXCEPT !.state = state, !.verdict = worker[w].verdict, !.receipt = receipt]
  <2>2. case' = [case EXCEPT ![d] = row] /\ asked' = asked
    BY <1>14, <2>1 DEF SaveCase
  <2>3. case[d].receipt = "succeeded" => receipt = "succeeded"
    OBVIOUS
  <2> HIDE DEF receipt, state
  <2>4. row.receipt = receipt
    BY <1>1 DEF Case, Verdicts
  <2> HIDE DEF row
  <2> QED
    BY <1>1, <2>2, <2>3, <2>4
<1>15. ASSUME NEW w \in Workers, Step(w) \/ Crash(w) PROVE Paid
  BY <1>7, <1>8, <1>10, <1>11, <1>12, <1>13, <1>14, <1>15 DEF Step
<1> QED
  BY <1>4, <1>5, <1>6, <1>15 DEF Next

\* A confirmed review is never asked for again and never forgotten, whoever
\* takes the job over (evaluation_worker.py _judge).
THEOREM ReviewsPaidOnce == Spec => ReviewPaidOnce
<1>1. IInv /\ [Next]_vars =>
        [\A c \in Cases : case[c].receipt = "succeeded" =>
           asked'[c] = asked[c] /\ case'[c].receipt = "succeeded"]_vars
  BY PaidOnce
<1> QED
  BY <1>1, Invariance, PTL DEF Spec, ReviewPaidOnce
=============================================================================
