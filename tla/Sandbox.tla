-------------------------------- MODULE Sandbox --------------------------------
(***************************************************************************)
(* Isolated executions of one Run (app/service/sandbox.py,                 *)
(* app/manager/sandbox.py), the trusted runner inside the container        *)
(* (app/manager/sandbox_runner.py), the files it leaves                    *)
(* (app/service/artifacts.py) and the reaper of forgotten containers.      *)
(*                                                                         *)
(* A process makes a container, attaches to it and removes it, whatever    *)
(* happened, unless it dies.  It may lose its Run to another process       *)
(* between any two commands.  Reapers look at every container that has     *)
(* become old.  A call is never repeated (RunOperations), so each call has *)
(* at most one container, named after it; the container daemon is external.*)
(***************************************************************************)
EXTENDS Naturals

CONSTANTS
  Processes,  \* run workers
  MaxCalls,   \* bounds the calls of the Run
  MaxFaults   \* bounds crashes, stalls past a lease and failing clean-ups

ASSUME SandboxAssumption ==
  MaxCalls \in Nat /\ MaxFaults \in Nat /\ "nobody" \notin Processes

VARIABLES
  runs,       \* the row of the Run: [open, owner, gen, lease]
  work,       \* [Processes -> [step, gen, call, good]]: a worker's attempt
  container,  \* [Calls -> [phase, old, report]]
  receipt,    \* [Calls -> "none", "started" or "succeeded"]
  files,      \* the calls whose files are saved
  guard,      \* [Processes -> Calls \cup {0}]: the container a reaper removes
  trouble     \* faults so far

sandboxVars == <<runs, work, container, receipt, files, guard, trouble>>

Calls == 1..MaxCalls
\* error: of any stage.  zero: the exit code is 0, and not another or none at all.
\* files: whether there are any, and whether the path of one is longer than the
\* 256 characters that are accepted outside: up to five names of 64 are listed.
Report == [error : BOOLEAN, zero : BOOLEAN, success : BOOLEAN, files : {"none", "some", "long"}]
Blank == [error |-> FALSE, zero |-> FALSE, success |-> FALSE, files |-> "none"]
Box(phase) == [phase |-> phase, old |-> FALSE, report |-> Blank]
Away == [step |-> "away", gen |-> 0, call |-> 0, good |-> FALSE]

SandboxInit ==
  /\ runs = [open |-> TRUE, owner |-> "nobody", gen |-> 0, lease |-> FALSE]
  /\ work = [p \in Processes |-> Away]
  /\ container = [c \in Calls |-> Box("none")]
  /\ receipt = [c \in Calls |-> "none"] /\ files = {}
  /\ guard = [p \in Processes |-> 0] /\ trouble = 0

Exists(c) == container[c].phase \notin {"none", "late", "gone"}

\* A reaper holds the row of the Run.
RunFree == \A p \in Processes : guard[p] = 0

\* RunStore.owned.
Holds(p) == runs.open /\ runs.owner = p /\ runs.lease /\ runs.gen = work[p].gen

At(p, step) == work[p].step = step
Go(p, step) == work' = [work EXCEPT ![p].step = step]

-----------------------------------------------------------------------------
(* The Run.                                                                *)

Claim(p) ==
  /\ At(p, "away") /\ runs.open /\ ~runs.lease /\ RunFree
  /\ runs' = [open |-> TRUE, owner |-> p, gen |-> runs.gen + 1, lease |-> TRUE]
  /\ work' = [work EXCEPT ![p] = [step |-> "working", gen |-> runs.gen + 1, call |-> 0, good |-> FALSE]]
  /\ UNCHANGED <<container, receipt, files, guard, trouble>>

\* The lease of a process that is gone runs out; that of a stalled one may.
Lapse ==
  /\ runs.lease
  /\ trouble' = IF \E p \in Processes : Holds(p) THEN trouble + 1 ELSE trouble
  /\ trouble' <= MaxFaults
  /\ runs' = [runs EXCEPT !.lease = FALSE]
  /\ UNCHANGED <<work, container, receipt, files, guard>>

\* The Run is answered, fails, is cancelled or expires, whoever notices.
Close ==
  /\ runs.open /\ RunFree
  /\ runs' = [runs EXCEPT !.open = FALSE, !.lease = FALSE, !.owner = "nobody"]
  /\ UNCHANGED <<work, container, receipt, files, guard, trouble>>

CrashWorker(p) ==
  /\ ~At(p, "away") \/ guard[p] # 0
  /\ trouble < MaxFaults /\ trouble' = trouble + 1
  /\ work' = [work EXCEPT ![p] = Away] /\ guard' = [guard EXCEPT ![p] = 0]
  /\ UNCHANGED <<runs, container, receipt, files>>

-----------------------------------------------------------------------------
(* A call.                                                                 *)

\* begin_operation, prepare_execution and the last check before the container.
Begin(p, c) ==
  /\ At(p, "working") /\ Holds(p) /\ RunFree
  /\ receipt[c] = "none" /\ \A d \in Calls : d < c => receipt[d] # "none"
  /\ receipt' = [receipt EXCEPT ![c] = "started"]
  /\ work' = [work EXCEPT ![p] = [@ EXCEPT !.step = "create", !.call = c, !.good = FALSE]]
  /\ UNCHANGED <<runs, container, files, guard, trouble>>

\* The command was under way when the check passed; the daemon may refuse it,
\* or have it still to do when the command is given up.
CreateContainer(p) ==
  /\ At(p, "create")
  /\ \/ Go(p, "start") /\ container' = [container EXCEPT ![work[p].call].phase = "created"]
     \/ Go(p, "clean") /\ UNCHANGED container
     \/ Go(p, "clean") /\ container' = [container EXCEPT ![work[p].call].phase = "late"]
  /\ UNCHANGED <<runs, receipt, files, guard, trouble>>

\* The daemon makes a container that nobody waits for any more.
LateCreate(c) ==
  /\ container[c].phase = "late"
  /\ container' = [container EXCEPT ![c].phase = "created"]
  /\ UNCHANGED <<runs, work, receipt, files, guard, trouble>>

\* The runner in the image is compared with the expected one, then started.
Start(p) ==
  /\ At(p, "start") /\ Holds(p) /\ container[work[p].call].phase = "created"
  /\ Go(p, "attached")
  /\ container' = [container EXCEPT ![work[p].call].phase = "reading"]
  /\ UNCHANGED <<runs, receipt, files, guard, trouble>>

\* decode_result: the parts of a report must agree, and its files be allowed;
\* their number, sizes and names are limited as in the runner, but for the path.
Decodable(report) ==
  /\ report.success = (~report.error /\ report.zero)
  /\ ~report.success => report.error /\ report.files = "none"
  /\ report.files # "long"

\* The container has ended, with a report or killed for its memory.
Collect(p) ==
  LET box == container[work[p].call]
  IN /\ At(p, "attached") /\ Holds(p) /\ box.phase \in {"exited", "killed"}
     /\ work' = [work EXCEPT ![p].step = "clean",
                             ![p].good = box.phase = "exited" /\ Decodable(box.report) /\ box.report.success]
     /\ UNCHANGED <<runs, container, receipt, files, guard, trouble>>

\* A command fails: the Run is lost, the time is over, the container is not as
\* it was left or was removed.
GiveUp(p) ==
  /\ work[p].step \in {"start", "attached"}
  /\ Go(p, "clean")
  /\ UNCHANGED <<runs, container, receipt, files, guard, trouble>>

\* In any case; a daemon that does not answer keeps the container.
Clean(p) ==
  /\ At(p, "clean")
  /\ \/ /\ container' = [container EXCEPT ![work[p].call] = IF Exists(work[p].call) THEN Box("gone") ELSE @]
        /\ Go(p, IF work[p].good THEN "save" ELSE "confirm") /\ UNCHANGED trouble
     \/ /\ trouble < MaxFaults /\ trouble' = trouble + 1
        /\ work' = [work EXCEPT ![p].step = "confirm", ![p].good = FALSE] /\ UNCHANGED container
  /\ UNCHANGED <<runs, receipt, files, guard>>

\* save_pending: refused when the Run is lost; a file that is not allowed, a Run
\* that has too many or a scope that has changed fails the call.
SaveFiles(p) ==
  /\ At(p, "save") /\ Holds(p) /\ RunFree
  /\ \/ receipt[work[p].call] = "started" /\ files' = files \cup {work[p].call}
     \/ UNCHANGED files
  /\ Go(p, "confirm")
  /\ UNCHANGED <<runs, container, receipt, guard, trouble>>

Confirm(p) ==
  /\ At(p, "confirm") /\ Holds(p) /\ RunFree
  /\ receipt' = [receipt EXCEPT ![work[p].call] = "succeeded"]
  /\ work' = [work EXCEPT ![p] = [@ EXCEPT !.step = "working", !.call = 0, !.good = FALSE]]
  /\ UNCHANGED <<runs, container, files, guard, trouble>>

Leave(p) ==
  /\ work[p].step \in {"working", "save", "confirm"} /\ ~Holds(p)
  /\ work' = [work EXCEPT ![p] = Away]
  /\ UNCHANGED <<runs, container, receipt, files, guard, trouble>>

-----------------------------------------------------------------------------
(* The runner in the container.                                            *)

Exits(c, report) == container' = [container EXCEPT ![c].phase = "exited", ![c].report = report]

\* as if what was collected before a failure were still sent
Failed_Bug(report) == [report EXCEPT !.error = TRUE, !.files = IF report.zero THEN "some" ELSE @]

\* main: a failure is noted beside what is already in the report.
Failed(report) == [report EXCEPT !.error = TRUE]

ReadRequest(c) ==
  /\ container[c].phase = "reading"
  /\ \/ container' = [container EXCEPT ![c].phase = "executing"]
     \/ Exits(c, Failed(Blank))

\* execute: the code ends, or is ended for its time or its output, perhaps when
\* it was already done; its processes are killed in any case, which may fail.
ExecuteCode(c) ==
  /\ container[c].phase = "executing"
  /\ \/ \E zero \in BOOLEAN : Exits(c, Failed([Blank EXCEPT !.zero = zero]))
     \/ container' = [container EXCEPT ![c].phase = "collecting", ![c].report.zero = TRUE]

CollectFiles(c) ==
  /\ container[c].phase = "collecting"
  /\ \/ \E found \in {"none", "some", "long"} :
          Exits(c, [container[c].report EXCEPT !.files = found, !.success = TRUE])
     \/ Exits(c, Failed(container[c].report))

\* Out of memory, or the command line that fed it was killed.
Killed(c) ==
  /\ container[c].phase \in {"reading", "executing", "collecting"}
  /\ container' = [container EXCEPT ![c].phase = "killed", ![c].report = Blank]

Runner(c) ==
  /\ ReadRequest(c) \/ ExecuteCode(c) \/ CollectFiles(c) \/ Killed(c)
  /\ UNCHANGED <<runs, work, receipt, files, guard, trouble>>

-----------------------------------------------------------------------------
(* The reaper.                                                             *)

\* Time passes for a container.
Age(c) ==
  /\ Exists(c) /\ ~container[c].old
  /\ container' = [container EXCEPT ![c].old = TRUE]
  /\ UNCHANGED <<runs, work, receipt, files, guard, trouble>>

Listed_Bug(c) == container[c].phase \in {"reading", "executing", "collecting"}   \* without -a
Listed(c) == Exists(c)

ActiveOwner_Bug == runs.open /\ runs.owner = "nobody"   \* the lease of an owner is not looked at
\* cleanup_guard.
ActiveOwner == runs.open /\ runs.owner # "nobody" /\ runs.lease

\* The row of the Run is locked, without waiting, and held until the end.
Guard(p, c) ==
  /\ guard[p] = 0 /\ Listed(c) /\ container[c].old /\ RunFree /\ ~ActiveOwner
  /\ guard' = [guard EXCEPT ![p] = c]
  /\ UNCHANGED <<runs, work, container, receipt, files, trouble>>

Reap(p) ==
  /\ guard[p] # 0
  /\ guard' = [guard EXCEPT ![p] = 0]
  /\ container' = [container EXCEPT ![guard[p]] = Box("gone")]
  /\ UNCHANGED <<runs, work, receipt, files, trouble>>

Attempt(p) ==
  \/ Claim(p) \/ (\E c \in Calls : Begin(p, c)) \/ CreateContainer(p) \/ Start(p) \/ Collect(p)
  \/ GiveUp(p) \/ Clean(p) \/ SaveFiles(p) \/ Confirm(p) \/ Leave(p)

SandboxNext ==
  \/ \E p \in Processes : Attempt(p) \/ CrashWorker(p) \/ (\E c \in Calls : Guard(p, c)) \/ Reap(p)
  \/ \E c \in Calls : Runner(c) \/ Age(c) \/ LateCreate(c)
  \/ Lapse \/ Close

\* Runs end (RunStore), and the workers that are left poll their reaper between
\* Runs; nothing is assumed of a process that works on a call.
SandboxFairness ==
  /\ WF_sandboxVars(Close)
  /\ \A p \in Processes : WF_sandboxVars(Reap(p))
  /\ \A c \in Calls : WF_sandboxVars(Age(c)) /\ WF_sandboxVars(\E p \in Processes : Guard(p, c))

-----------------------------------------------------------------------------
(* Properties                                                              *)

\* A reaper never takes the container of a call from a process that still has
\* its Run, however long the container lives (service/sandbox.py:42).
LiveContainerStays ==
  \A p, q \in Processes : (guard[p] # 0 /\ guard[p] = work[q].call) => ~Holds(q)

\* No container stays, whenever its process died, lost its Run or could not
\* clean up, and even if it was made after the clean-up of its call
\* (service/sandbox.py:47, manager/sandbox.py:167).
ContainersGo == <>[](\A c \in Calls : ~Exists(c))

\* Whatever happens inside, and at whatever stage, the report of the runner is
\* understood outside, so that its own diagnosis or its files reach the user
\* (manager/sandbox_runner.py:189, manager/sandbox.py:295-313), unless it is a
\* success with a path that is too long: that is answered SANDBOX_PROTOCOL_ERROR.
ReportsUnderstood ==
  \A c \in Calls : container[c].phase = "exited" =>
    LET report == container[c].report
    IN Decodable(report) <=> ~(report.success /\ report.files = "long")
=============================================================================
