---------------------------- MODULE RunOperations ----------------------------
(***************************************************************************)
(* The model and tool calls of one Run and their receipts in               *)
(* rag.chat_run_operations (begin_operation and complete_operation of      *)
(* app/service/runs.py, RunCheckpoint.invoke, the instrumented tools of    *)
(* SupervisorWorkflow and ModelRuntime.checkpoint_call), between two       *)
(* pauses of the Run.                                                      *)
(*                                                                         *)
(* An attempt alternates model calls and the tool call the model asked     *)
(* for, until the model answers.  The key of a call is a digest of the     *)
(* messages before it: a call is named here by the sequence of outcomes    *)
(* its attempt has seen, so that a successor that sees other outcomes      *)
(* makes other calls.  The tool calls of one message run in order          *)
(* (RunCheckpoint.ordered), so an attempt is sequential.                   *)
(*                                                                         *)
(* Who may write is decided by owned(): the fence of RunFence, which       *)
(* RunStore implements.  Leases, deadlines and requests to stop are the    *)
(* moments at which the fence is revoked.                                  *)
(***************************************************************************)
EXTENDS Naturals, Sequences, FiniteSets, SequencesExt, FiniteSetsExt

CONSTANTS
  Slots,           \* execution slots
  ReadResults,     \* what a tool without side effects may return
  WriteResults,    \* what a tool with side effects may return
  MaxTakes,        \* bound of the model: attempts the Run gets
  MaxModel,        \* agent_max_model_calls
  MaxReads,        \* 3: executions of a call without side effects
  MaxOperations,   \* 128: receipts of one Run
  MaxRoom,         \* bound of the model: what may be left for ordinary events
  ArtifactSize     \* what the event about produced files needs of it

VARIABLES
  fence,     \* the fence of the Run
  op,        \* [a finite set of calls -> CallReceipt]: rag.chat_run_operations
  attempt,   \* [Slots -> Attempt]
  room,      \* what the journal still takes of ordinary events
  refused,   \* history: an event was refused with RUN_EVENT_LIMIT
  answer     \* the outcomes behind the committed answer, <<>> if there is none

operationVars == <<fence, op, attempt, room, refused, answer>>

Fence == INSTANCE RunFence WITH Runs <- {1}, fence <- <<fence>>

Wishes   == {"read", "write", "answer"}
\* "limit": AGENT_LIMIT_EXCEEDED; "failed": a tool error the model is told about
Outcomes == Wishes \cup ReadResults \cup WriteResults \cup {"limit", "failed"}

\* The processes are finitely many, a call without side effects may be executed
\* at least once, and what a tool returned is told from what the model wants.
ASSUME OperationsAssumption ==
  /\ IsFiniteSet(Slots)
  /\ MaxReads \in Nat \ {0} /\ MaxRoom \in Nat /\ ArtifactSize \in Nat
  /\ (Wishes \cup {"limit", "failed"}) \cap (ReadResults \cup WriteResults) = {}

\* What an attempt that saw the outcomes k does next.
Kind(k) ==
  IF k = <<>> \/ Last(k) \in ReadResults \cup WriteResults \cup {"failed"}
  THEN "model" ELSE Last(k)

Readonly_Bug(k) == TRUE   \* every tool is taken for idempotent

Readonly(k) == Kind(k) \in {"model", "read"}
ResultsOf(k) ==
  CASE Kind(k) = "model" -> Wishes
    [] Kind(k) = "read"  -> ReadResults
    [] Kind(k) = "write" -> WriteResults

CallReceipt ==
  [state    : {"started", "succeeded", "uncertain"},
   gen      : Nat,                    \* owner_generation
   attempts : Nat,
   result   : Outcomes \cup {"none"},
   sent     : Nat]                    \* history: times the call really went out

Attempt ==
  [pc     : {"idle", "ready", "begun", "checked", "called", "publishing", "failing"},
   gen    : Nat,
   at     : Seq(Outcomes),            \* what it has seen; names the current call
   result : Outcomes \cup {"none"}]   \* of the call that is not confirmed yet

NoAttempt == [pc |-> "idle", gen |-> 0, at |-> <<>>, result |-> "none"]

OperationsInit ==
  /\ fence = Fence!Free
  /\ op = << >>
  /\ attempt = [w \in Slots |-> NoAttempt]
  /\ room \in 0 .. MaxRoom
  /\ refused = FALSE
  /\ answer = << >>

-----------------------------------------------------------------------------
(* Helpers.                                                                *)

HoldsFence(w) == fence.state = "held" /\ fence.gen = attempt[w].gen

CallOf(w) == attempt[w].at

Known(k) == k \in DOMAIN op

Succeeded_Bug(k) ==   \* the model is asked again
  Known(k) /\ op[k].state = "succeeded" /\ Kind(k) # "model"

Succeeded(k) == Known(k) /\ op[k].state = "succeeded"

Put(k, receipt) == op' = [q \in DOMAIN op \cup {k} |-> IF q = k THEN receipt ELSE op[q]]

SetPc(w, pc) == attempt' = [attempt EXCEPT ![w].pc = pc]
See(w, outcome) ==
  attempt' = [attempt EXCEPT ![w].pc = "ready", ![w].at = Append(@, outcome),
                             ![w].result = "none"]

\* The tool_started, tool_finished and tool_failed events; a model call logs none.
EventOf(k) == IF Kind(k) = "model" THEN 0 ELSE 1

Log(n) == room >= n /\ room' = room - n

\* RUN_EVENT_LIMIT rolls the receipt back.  It is no control error: the tool
\* reports a failure to the model and the attempt goes on.
Refuse(w, n) ==
  /\ room < n
  /\ refused' = TRUE
  /\ See(w, "failed")
  /\ UNCHANGED <<fence, op, room, answer>>

\* model_attempts(): the executions all attempts of the Run have begun.
Reserved == MapThenSumSet(LAMBDA k : op[k].attempts, {k \in DOMAIN op : Kind(k) = "model"})

-----------------------------------------------------------------------------
(* RunCheckpoint.invoke, first half: begin_operation.                      *)

AtCall(w) == attempt[w].pc = "ready" /\ Kind(CallOf(w)) \in {"model", "read", "write"}

\* A confirmed result is replayed, whoever obtained it.
Reuse(w) ==
  /\ AtCall(w) /\ HoldsFence(w)
  /\ Succeeded(CallOf(w))
  /\ See(w, op[CallOf(w)].result)
  /\ UNCHANGED <<fence, op, room, refused, answer>>

Begun(w, attempts, sent) ==
  [state |-> "started", gen |-> attempt[w].gen, attempts |-> attempts,
   result |-> "none", sent |-> sent]

Begin(w) ==
  /\ AtCall(w) /\ HoldsFence(w)
  /\ ~Known(CallOf(w))
  /\ Cardinality(DOMAIN op) < MaxOperations
  /\ \/ /\ Log(EventOf(CallOf(w)))
        /\ Put(CallOf(w), Begun(w, 1, 0))
        /\ SetPc(w, "begun")
        /\ UNCHANGED <<fence, refused, answer>>
     \/ Refuse(w, EventOf(CallOf(w)))

\* An earlier attempt began the call and did not confirm it.
Unconfirmed(w) ==
  /\ AtCall(w) /\ HoldsFence(w)
  /\ Known(CallOf(w)) /\ ~Succeeded(CallOf(w))

Restart(w) ==
  LET row == op[CallOf(w)]
  IN  /\ Unconfirmed(w)
      /\ Readonly(CallOf(w))
      /\ row.attempts < MaxReads
      /\ \/ /\ Log(EventOf(CallOf(w)))
            /\ Put(CallOf(w), Begun(w, row.attempts + 1, row.sent))
            /\ SetPc(w, "begun")
            /\ UNCHANGED <<fence, refused, answer>>
         \/ Refuse(w, EventOf(CallOf(w)))

\* TOOL_OUTCOME_UNCERTAIN: a control error, the attempt fails.
MarkUncertain(w) ==
  /\ Unconfirmed(w)
  /\ ~Readonly(CallOf(w))
  /\ \/ /\ Log(EventOf(CallOf(w)))
        /\ Put(CallOf(w), [op[CallOf(w)] EXCEPT !.state = "uncertain"])
        /\ SetPc(w, "failing")
        /\ UNCHANGED <<fence, refused, answer>>
     \/ Refuse(w, EventOf(CallOf(w)))

\* RUN_CHECKPOINT_LIMIT, RUN_RECOVERY_LIMIT: control errors too.
CallExhausted(w) ==
  /\ AtCall(w) /\ HoldsFence(w)
  /\ \/ ~Known(CallOf(w)) /\ Cardinality(DOMAIN op) >= MaxOperations
     \/ Unconfirmed(w) /\ Readonly(CallOf(w)) /\ op[CallOf(w)].attempts >= MaxReads
  /\ SetPc(w, "failing")
  /\ UNCHANGED <<fence, op, room, refused, answer>>

-----------------------------------------------------------------------------
(* The call itself, and complete_operation.                                *)

\* The second check of invoke, and _reserve: one model execution too many is
\* not sent, its receipt says AGENT_LIMIT_EXCEEDED.
Recheck(w) ==
  /\ attempt[w].pc = "begun"
  /\ HoldsFence(w)
  /\ IF Kind(CallOf(w)) = "model" /\ Reserved > MaxModel
     THEN attempt' = [attempt EXCEPT ![w].pc = "called", ![w].result = "limit"]
     ELSE SetPc(w, "checked")
  /\ UNCHANGED <<fence, op, room, refused, answer>>

\* The request leaves the process, whatever became of the lease since the check.
Send(w) ==
  /\ attempt[w].pc = "checked"
  /\ \E result \in ResultsOf(CallOf(w)) :
       attempt' = [attempt EXCEPT ![w].pc = "called", ![w].result = result]
  /\ op' = [op EXCEPT ![CallOf(w)].sent = @ + 1]
  /\ UNCHANGED <<fence, room, refused, answer>>

MayConfirm(w) ==
  /\ HoldsFence(w)
  /\ op[CallOf(w)].state = "started" /\ op[CallOf(w)].gen = attempt[w].gen

\* The receipt and its events: tool_finished or tool_failed, and
\* artifacts_ready if a tool with side effects produced files.
Complete(w) ==
  /\ attempt[w].pc = "called"
  /\ MayConfirm(w)
  /\ \E files \in IF Kind(CallOf(w)) = "write" THEN {0, ArtifactSize} ELSE {0} :
       \/ /\ Log(EventOf(CallOf(w)) + files)
          /\ op' = [op EXCEPT ![CallOf(w)].state = "succeeded",
                              ![CallOf(w)].result = attempt[w].result]
          /\ See(w, attempt[w].result)
          /\ UNCHANGED <<fence, refused, answer>>
       \/ Refuse(w, EventOf(CallOf(w)) + files)

-----------------------------------------------------------------------------
(* The end of an attempt.                                                  *)

\* A check that fails, any other control error, or an error of the workflow.
Raise(w) ==
  /\ attempt[w].pc \in {"ready", "begun", "checked", "called", "publishing"}
  /\ SetPc(w, "failing")
  /\ UNCHANGED <<fence, op, room, refused, answer>>

\* The answer is streamed as ordinary events before it is saved; here
\* RUN_EVENT_LIMIT leaves the workflow.
Stream(w) ==
  /\ attempt[w].pc = "ready" /\ Kind(CallOf(w)) = "answer"
  /\ HoldsFence(w)
  /\ \/ /\ Log(1)
        /\ SetPc(w, "publishing")
        /\ UNCHANGED refused
     \/ /\ room < 1
        /\ SetPc(w, "failing")
        /\ refused' = TRUE
        /\ UNCHANGED room
  /\ UNCHANGED <<fence, op, answer>>

Publish(w) ==
  /\ attempt[w].pc = "publishing"
  /\ HoldsFence(w)
  /\ fence' = Fence!Over
  /\ answer' = CallOf(w)
  /\ attempt' = [attempt EXCEPT ![w] = NoAttempt]
  /\ UNCHANGED <<op, room, refused>>

\* finish_failure also serves an owner that was asked to stop or is past its
\* deadline, as long as its lease lasts.
FinishFailure(w) ==
  /\ attempt[w].pc = "failing"
  /\ \/ fence' = fence /\ ~HoldsFence(w)
     \/ fence.gen = attempt[w].gen /\ Fence!Close(fence, fence')
  /\ attempt' = [attempt EXCEPT ![w] = NoAttempt]
  /\ UNCHANGED <<op, room, refused, answer>>

AttemptDies(w) ==
  /\ attempt[w].pc # "idle"
  /\ attempt' = [attempt EXCEPT ![w] = NoAttempt]
  /\ UNCHANGED <<fence, op, room, refused, answer>>

-----------------------------------------------------------------------------
(* The fence, as the lease protocol moves it.                              *)

TakeRun(w) ==
  /\ attempt[w].pc = "idle"
  /\ fence.gen < MaxTakes
  /\ Fence!Grant(fence, fence')
  /\ attempt' = [attempt EXCEPT ![w] = [pc |-> "ready", gen |-> fence.gen + 1,
                                        at |-> <<>>, result |-> "none"]]
  /\ UNCHANGED <<op, room, refused, answer>>

\* A lease that ran out, a deadline, a request to stop; or the Run is ended or
\* deleted by somebody else.
LoseFence ==
  /\ Fence!Revoke(fence, fence') \/ Fence!Close(fence, fence')
  /\ UNCHANGED <<op, attempt, room, refused, answer>>

Slot(w) ==
  \/ TakeRun(w) \/ Reuse(w) \/ Begin(w) \/ Restart(w) \/ MarkUncertain(w) \/ CallExhausted(w)
  \/ Recheck(w) \/ Send(w) \/ Complete(w) \/ Stream(w) \/ Publish(w)
  \/ Raise(w) \/ FinishFailure(w) \/ AttemptDies(w)

OperationsNext == LoseFence \/ \E w \in Slots : Slot(w)

OperationsSpec == OperationsInit /\ [][OperationsNext]_operationVars

-----------------------------------------------------------------------------
(* Properties.                                                             *)

OperationsTypeOK ==
  /\ fence \in Fence!Fence
  /\ DOMAIN op \subseteq Seq(Outcomes)
  /\ \A k \in DOMAIN op : op[k] \in CallReceipt
  /\ attempt \in [Slots -> Attempt]
  /\ room \in 0 .. MaxRoom
  /\ refused \in BOOLEAN
  /\ answer \in Seq(Outcomes)

\* docs/durable-run-execution.md: a call that may have side effects goes out at
\* most once, whoever takes the Run over and however late the first owner is;
\* any other call at most MaxReads times.
SentAtMost ==
  \A k \in DOMAIN op : op[k].sent <= IF Kind(k) = "write" THEN 1 ELSE MaxReads

\* Every side effect the Run ever caused is one the answer was made from:
\* replaying receipts leads each successor through the calls of its
\* predecessors, none is forgotten on another path.
AnswerKnowsEffects ==
  answer # <<>> /\ ~refused =>
    \A k \in DOMAIN op :
      Kind(k) = "write" /\ op[k].sent > 0 =>
        /\ op[k].state = "succeeded"
        /\ IsStrictPrefix(k, answer) /\ answer[Len(k) + 1] = op[k].result

\* docs/durable-run-execution.md: a call with side effects whose outcome could
\* not be confirmed is marked uncertain.  So when the Run was answered, none is
\* left unmarked.
UnconfirmedIsMarked ==
  answer # <<>> =>
    \A k \in DOMAIN op :
      Kind(k) = "write" /\ op[k].sent > 0 => op[k].state \in {"succeeded", "uncertain"}
=============================================================================
