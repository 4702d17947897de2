---------------------------- MODULE SupervisorTurn ----------------------------
(***************************************************************************)
(* One durable Run answered by the supervisor and its specialists          *)
(* (app/service/agent/supervisor.py, knowledge.py, manager/evidence.py,    *)
(* agent_runtime.py, and the parts of service/chat.py that prepare,        *)
(* publish and resume it).                                                 *)
(*                                                                         *)
(* Everything the models decide is nondeterministic.  A call of a model or *)
(* a tool is one step: its outcome is appended to the log of receipts, or, *)
(* after a takeover, read from it (run_checkpoint.py; RunOperations models *)
(* the receipts themselves and calls whose receipt is lost).  The tool     *)
(* calls of one message are ordered, so a Run is one sequence of calls.    *)
(* A process keeps the rest of its state in memory and loses it when it    *)
(* crashes.  A source of evidence is identified with what it cites.        *)
(***************************************************************************)
EXTENDS Naturals, SequencesExt, FiniteSetsExt

CONSTANTS
  Chunks,          \* fragments of the documents the Run may read
  Modes,           \* search_mode of the requests
  MaxModelCalls,   \* agent_max_model_calls
  MaxToolCalls,    \* agent_max_tool_calls
  MaxSearches,     \* agent_max_knowledge_calls
  MaxDelegations,  \* supervisor_max_delegations
  MaxPerAgent,     \* supervisor_max_per_agent
  MaxSources,      \* evidence_token_budget, in sources
  MaxTasks,        \* bound of the model: delegations of one message
  MaxRounds,       \* bound of the model: supplements of the user
  MaxFaults        \* bound of the model: crashes of the process and unavailable models

Others == {"memory", "web", "sql", "tool"}   \* one source of each other type

ASSUME TurnAssumption ==
  /\ Chunks \cap (Others \cup {"failed"}) = {} /\ IsFiniteSet(Chunks)
  /\ Modes \subseteq {"auto", "knowledge", "web", "sql"}
  /\ {MaxModelCalls, MaxToolCalls, MaxSearches, MaxDelegations, MaxPerAgent, MaxSources,
      MaxTasks, MaxRounds, MaxFaults} \subseteq Nat

VARIABLES
  context,  \* the frozen request: mode, web authorized, knowledge quality
  saved,    \* checkpoint.state["workflow"], or None
  log,      \* receipts of the current round
  pos,      \* how many of them the process has been through
  turn,     \* what the process has in memory
  scope,    \* the frozen documents, grants and capabilities are still valid
  answer,   \* the message: what was published last
  rounds, faults,
  graded,   \* chunks some grade accepted (history)
  spent,    \* calls made, replayed ones not counted (history)
  front     \* the memory after the last call that was made (history)

durable == <<context, saved, log, scope, answer, rounds, faults>>
history == <<graded, spent, front>>
vars == <<durable, pos, turn, history>>

Sources == Chunks \cup Others
TypeOf(s) == IF s \in Chunks THEN "knowledge" ELSE s
Agents == {"rag", "web", "sql", "public"}
NoAnswer == [kind |-> "none", cites |-> {}]

\* The memory of a process that starts from nothing.  at: what comes next;
\* found, accepted, approved, queries, rewritten belong to a delegation.
Blank == [at |-> "down", todo |-> <<>>, call |-> "none",
          entries |-> <<>>, excluded |-> {}, cached |-> FALSE, schema |-> FALSE, searches |-> 0,
          requests |-> 0, rewrites |-> 0, delegated |-> [a \in Agents |-> 0], known |-> FALSE,
          calls |-> 0, fallback |-> FALSE,
          found |-> {}, accepted |-> {}, approved |-> {}, queries |-> 0, rewritten |-> FALSE,
          draft |-> NoAnswer]

\* prepare_public_query and document_scope: what the mode leaves to the Run.
Contexts ==
  {c \in [mode : Modes, web : BOOLEAN, quality : BOOLEAN] :
     /\ c.mode \in {"knowledge", "sql"} => ~c.web
     /\ c.mode = "web" => c.web
     /\ c.quality => c.mode \in {"auto", "knowledge"}}

Init ==
  /\ context \in Contexts
  /\ saved = Blank /\ log = <<>> /\ pos = 0 /\ turn = Blank
  /\ scope = TRUE /\ answer = NoAnswer /\ rounds = 0 /\ faults = 0
  /\ graded = {} /\ front = Blank
  /\ spent = [calls |-> 0, requests |-> 0, searches |-> 0]

-----------------------------------------------------------------------------
(* The registry of evidence.                                               *)

Registered(t) == ToSet(t.entries)
Eligible(t) == Registered(t) \ t.excluded

\* _add: known sources keep their numbers, new ones get the next while the
\* budget lasts.
AddAll(entries, sources) ==
  LET new == SetToSeq(sources \ ToSet(entries))
  IN entries \o SubSeq(new, 1, Min({Len(new), MaxSources - Len(entries)}))

\* validate and parse: may the Run end with this answer?
Acceptable(t, kind, cites) ==
  LET eligible == {n \in DOMAIN t.entries : t.entries[n] \notin t.excluded}
      facts == {n \in eligible : t.entries[n] # "memory"}
      expected == IF context.mode = "auto" THEN {"knowledge"} \cup Others
                  ELSE {context.mode, "memory"} \cup (IF context.mode = "web" THEN {"tool"} ELSE {})
  IN /\ kind \in {"grounded", "smalltalk", "clarification", "insufficient"}
     /\ t.known /\ facts = {} => kind \in {"insufficient", "clarification"}
     /\ kind = "clarification" => cites = {}
     /\ kind # "clarification" =>
          /\ facts # {} => kind = "grounded"
          /\ cites \subseteq eligible
          /\ kind = "grounded" => cites # {}
          /\ \A n \in cites : TypeOf(t.entries[n]) \in expected

-----------------------------------------------------------------------------
(* Calls and their receipts.                                               *)

Body_Bug(t) == [entries |-> t.entries, excluded |-> {}, searches |-> t.searches,
                cached |-> t.cached, schema |-> t.schema]

\* body_state and restore_body: what the receipt of a tool carries.
Body(t) == [entries |-> t.entries, excluded |-> t.excluded, searches |-> t.searches,
            cached |-> t.cached, schema |-> t.schema]

RestoreBody_Bug(t, body) ==   \* only counters come from a receipt
  [t EXCEPT !.searches = body.searches, !.cached = body.cached, !.schema = body.schema]

RestoreBody(t, body) ==
  [t EXCEPT !.entries = body.entries, !.excluded = body.excluded, !.searches = body.searches,
            !.cached = body.cached, !.schema = body.schema]

\* The receipts of a Run that ended are not read any more.
Failed == [Blank EXCEPT !.at = "failed"]
Fail == turn' = Failed /\ pos' = 0 /\ log' = <<>> /\ front' = Blank /\ UNCHANGED spent
Advance(entries) ==
  IF turn'.at = "failed" THEN pos' = 0 /\ log' = <<>> ELSE pos' = pos + 1 /\ log' = entries

Denied_Bug == ~scope /\ turn.at \notin {"down", "paused", "published", "failed"} /\ UNCHANGED vars

\* checkpoint.check before every call: a Run out of its scope fails.
Denied ==
  /\ turn.at \notin {"down", "paused", "published", "failed"} /\ ~scope
  /\ Fail /\ UNCHANGED <<context, saved, scope, answer, rounds, faults, graded>>

\* The second model takes over once; then the call has failed for good.
Unavailable(t, broken) == IF t.fallback THEN broken ELSE [t EXCEPT !.fallback = TRUE]

\* _reserve refuses a call beyond the allowance of the Run.
Exhausted(t) == t.calls >= MaxModelCalls

\* What a model says: a word and the tasks, numbers or chunks that go with it.
Words(words) == [say : words, tasks : {<<>>}, of : {{}}]

-----------------------------------------------------------------------------
(* What the supervisor says, and the memory t of the process after it.     *)

\* The agents of the mode.
Offered ==
  {a \in Agents :
     \/ a = "rag" /\ context.mode \in {"knowledge", "auto"}
     \/ a = "sql" /\ context.mode \in {"sql", "auto"}
     \/ a = "web" /\ context.web
     \/ a = "public" /\ context.web}

Finals(t) ==
  [say : {"grounded", "smalltalk", "clarification", "insufficient"},
   tasks : {<<>>}, of : {{}} \cup {{n} : n \in 1..(Len(t.entries) + 1)}]
    \cup Words({"malformed"})

Messages(t) ==
  [say : {"tools"}, tasks : SeqOf(Offered, MaxTasks) \ {<<>>}, of : {{}}] \cup Finals(t)

\* A final message is parsed and validated; an unacceptable one is repaired
\* by one more call, and fails the Run if it is unacceptable again.
Finalize(t, said, again) ==
  IF Acceptable(t, said.say, said.of)
  THEN [t EXCEPT !.at = "publish", !.draft = [kind |-> said.say, cites |-> {t.entries[n] : n \in said.of}]]
  ELSE IF again THEN [t EXCEPT !.at = "repair"] ELSE Failed

Supervised(t, said) ==
  IF said.say = "tools" THEN [t EXCEPT !.at = "delegate", !.todo = said.tasks]
  ELSE Finalize(t, said, TRUE)

\* The next task of the message, or the supervisor's next call.
Done(t) == [t EXCEPT !.todo = Tail(@), !.at = IF Len(t.todo) = 1 THEN "supervisor" ELSE "delegate"]

-----------------------------------------------------------------------------
(* KnowledgeWorkflow.run: plan, search, grade, rewrite.                    *)

\* However the workflow ends, what no grade has accepted stays excluded.
Settled(t) ==
  Done([t EXCEPT !.excluded = @ \cup ((Registered(t) \cap Chunks) \ (t.accepted \cup t.approved))])

Planned(t, said) ==
  IF said.say \in {"clarify", "malformed"} THEN Settled(t)
  ELSE [t EXCEPT !.at = "search", !.queries = IF said.say = "one" THEN 1 ELSE 2]

Found(t, got) == IF got = {"failed"} THEN {} ELSE got \cap Registered(t)

\* The candidates of a search are excluded until a grade accepts them.
Retrieved(t, got) ==
  LET now == [t EXCEPT !.found = @ \cup Found(t, got), !.queries = @ - 1,
                       !.excluded = @ \cup (Found(t, got) \ t.accepted)]
  IN IF got = {"failed"} THEN Settled(now)
     ELSE IF now.queries > 0 THEN now
     ELSE IF now.found = {} THEN Settled(now)
     ELSE [now EXCEPT !.at = "grade"]

\* reserve_rewrite
NoRewrite(t) ==
  t.rewritten \/ t.rewrites >= 1 \/ t.searches >= MaxSearches \/ t.requests >= MaxToolCalls

Grades(t) ==
  [say : {"answer"}, tasks : {<<>>}, of : (SUBSET t.found) \ {{}}]
    \cup Words({"clarify", "none", "rewrite", "hyde", "malformed"})

Graded(t, said) ==
  IF said.say \in {"clarify", "none", "malformed"} THEN Settled(t)
  ELSE IF said.say \in {"rewrite", "hyde"}
  THEN IF NoRewrite(t) THEN Settled(t)
       ELSE [t EXCEPT !.rewrites = @ + 1, !.rewritten = TRUE, !.queries = 1,
                      !.at = IF said.say = "hyde" THEN "rewriter" ELSE "search"]
  ELSE Settled([t EXCEPT !.approved = said.of, !.excluded = @ \ said.of])

Rewritten(t, said) == IF said.say = "malformed" THEN Settled(t) ELSE [t EXCEPT !.at = "search"]

-----------------------------------------------------------------------------
(* The other specialists: a loop of one model with tools of its own.       *)

Agent(t) == Head(t.todo)

ToolsOf(a) ==
  CASE a = "rag" -> {"search_knowledge"}
    [] a = "web" -> {"search_web", "read_web_page"}
    [] a = "sql" -> {"describe_sql_schema", "execute_sql"}
    [] OTHER -> {"call_http_tool"}

\* A report that claims a result without a successful tool is refused.  It
\* ends the delegation like any other report: only the wording differs.
Reported(t, said) ==
  IF said.say \in {"report", "malformed"} THEN Done(t) ELSE [t EXCEPT !.at = "tool", !.call = said.say]

Searching(t) == t.at = "search" \/ t.call = "search_knowledge"

\* What a tool can return, and what it needs for that.
Gets(t) ==
  CASE Searching(t) -> (SUBSET Chunks) \cup {{"failed"}}
    [] t.call = "search_web" -> IF t.cached THEN {{}} ELSE {{}, {"web"}, {"failed"}}
    [] t.call = "read_web_page" -> IF "web" \in Registered(t) THEN {{"web"}, {"failed"}} ELSE {{"failed"}}
    [] t.call = "describe_sql_schema" -> {{}, {"failed"}}
    [] t.call = "execute_sql" -> IF t.schema THEN {{"sql"}, {"failed"}} ELSE {{"failed"}}
    [] OTHER -> {{"tool"}, {"failed"}}

\* What a tool registers and counts; a failure registers nothing.
Used(t, got) ==
  [t EXCEPT !.entries = IF got = {"failed"} THEN @ ELSE AddAll(@, got),
            !.searches = @ + (IF Searching(t) THEN 1 ELSE 0),
            !.cached = @ \/ (t.call = "search_web" /\ got # {"failed"}),
            !.schema = @ \/ (t.call = "describe_sql_schema" /\ got # {"failed"})]

\* The caller of a tool goes on with what it got.
Received(t, got) ==
  IF t.at = "search" THEN Retrieved(t, got) ELSE [t EXCEPT !.at = "work", !.call = "none"]

-----------------------------------------------------------------------------
(* The calls.                                                              *)

\* The memory after a model has spoken, by who asked it.
Heard(t, said) ==
  LET InDelegation == IF t.at = "work" THEN Done(t) ELSE Settled(t)
  IN IF said.say = "unavailable"
     THEN Unavailable(t, IF t.at \in {"supervisor", "repair"} THEN Failed ELSE InDelegation)
     ELSE CASE t.at = "supervisor" -> Supervised(t, said)
            [] t.at = "repair" -> Finalize(t, said, FALSE)
            [] t.at = "plan" -> Planned(t, said)
            [] t.at = "grade" -> Graded(t, said)
            [] t.at = "rewriter" -> Rewritten(t, said)
            [] t.at = "work" -> Reported(t, said)

\* A call of a model: the receipt carries what it said and the state of the
\* runtime.
AskModel(at, Sayings) ==
  /\ turn.at = at /\ scope
  /\ UNCHANGED <<context, saved, scope, answer, rounds>>
  /\ \/ /\ pos < Len(log)
        /\ LET r == log[pos + 1] IN
             turn' = Heard([turn EXCEPT !.calls = r.calls, !.fallback = r.fallback], r.said)
        /\ Advance(log) /\ UNCHANGED <<spent, front, faults>>
     \/ /\ pos = Len(log) /\ ~Exhausted(turn)
        /\ \E said \in Sayings \cup Words(IF faults < MaxFaults THEN {"unavailable"} ELSE {}) :
             /\ faults' = faults + (IF said.say = "unavailable" THEN 1 ELSE 0)
             /\ LET called == [turn EXCEPT !.calls = @ + 1]
                IN /\ turn' = Heard(called, said)
                   /\ Advance(Append(log, [said |-> said, calls |-> called.calls, fallback |-> called.fallback]))
        /\ front' = IF turn'.at = "failed" THEN Blank ELSE turn'
        /\ spent' = [spent EXCEPT !.calls = @ + 1]
     \/ /\ pos = Len(log) /\ Exhausted(turn)
        /\ Fail /\ UNCHANGED faults
  /\ graded' = graded \cup turn'.approved

\* A call of a tool: the receipt carries its body.
CallTool(at) ==
  /\ turn.at = at /\ scope
  /\ UNCHANGED <<context, saved, scope, answer, rounds, faults>>
  /\ LET asked == [turn EXCEPT !.requests = @ + 1] IN
     \/ /\ turn.requests < MaxToolCalls /\ pos < Len(log)
        /\ LET r == log[pos + 1] IN turn' = Received(RestoreBody(asked, r.body), r.got)
        /\ pos' = pos + 1 /\ UNCHANGED <<log, spent, front>>
     \/ /\ turn.requests < MaxToolCalls /\ pos = Len(log)
        /\ \E got \in Gets(turn) :
             LET done == Used(asked, got)
             IN /\ log' = Append(log, [got |-> got, body |-> Body(done)])
                /\ turn' = Received(done, got)
                /\ spent' = [spent EXCEPT !.requests = @ + 1,
                                          !.searches = @ + (done.searches - turn.searches)]
        /\ pos' = pos + 1 /\ front' = turn'
     \/ turn.requests >= MaxToolCalls /\ Fail
  /\ UNCHANGED graded

\* A search beyond the limit of the Run fails it before the tool is called.
SearchLimit ==
  /\ scope /\ turn.searches >= MaxSearches
  /\ Fail /\ UNCHANGED <<context, saved, scope, answer, rounds, faults, graded>>

Supervise == AskModel("supervisor", Messages(turn))
Repair == AskModel("repair", Finals(turn))
Plan == AskModel("plan", Words({"clarify", "one", "two", "malformed"}))
Grade == AskModel("grade", Grades(turn))
Rewrite == AskModel("rewriter", Words({"hypothesis", "malformed"}))
Work == AskModel("work", Words(ToolsOf(Agent(turn)) \cup {"report", "malformed"}))

Search ==
  \/ turn.at = "search" /\ SearchLimit
  \/ turn.searches < MaxSearches /\ CallTool("search")

UseTool ==
  \/ turn.at = "tool" /\ Searching(turn) /\ SearchLimit
  \/ (Searching(turn) => turn.searches < MaxSearches) /\ CallTool("tool")

-----------------------------------------------------------------------------
(* Starting and delegating.                                                *)

Resumed_Bug(t) == RestoreBody(Blank, Body(t))   \* the other counters start again

\* What a process gets from the checkpoint of a Run that was paused.
Resumed(t) ==
  [RestoreBody(Blank, Body(t)) EXCEPT
     !.requests = t.requests, !.rewrites = t.rewrites, !.delegated = t.delegated,
     !.known = t.known, !.calls = t.calls, !.fallback = t.fallback]

\* execute_prepared: a claimed Run starts with its memories, a resumed one
\* with its saved state.
Start ==
  /\ turn.at = "down"
  /\ turn' = IF saved.at = "down" THEN [Blank EXCEPT !.at = "recall"]
             ELSE [Resumed(saved) EXCEPT !.at = "supervisor"]
  /\ pos' = 0
  /\ UNCHANGED <<durable, history>>

\* search_memories is an operation of its own, which no limit counts.
Recall ==
  /\ turn.at = "recall" /\ scope
  /\ \/ /\ pos < Len(log)
        /\ turn' = [RestoreBody(turn, log[1].body) EXCEPT !.at = "supervisor"]
        /\ UNCHANGED <<log, front>>
     \/ /\ pos = Len(log)
        /\ \E got \in {{}, {"memory"}} :
             LET done == [turn EXCEPT !.entries = AddAll(@, got)]
             IN log' = <<[got |-> got, body |-> Body(done)]>> /\ turn' = [done EXCEPT !.at = "supervisor"]
        /\ front' = turn'
  /\ pos' = 1
  /\ UNCHANGED <<context, saved, scope, answer, rounds, faults, graded, spent>>

Limited(t, a) ==
  /\ a # "public"
  /\ \/ t.delegated["rag"] + t.delegated["web"] + t.delegated["sql"] >= MaxDelegations
     \/ t.delegated[a] >= MaxPerAgent

\* The memory of a specialist that begins.
Delegated(t) ==
  LET a == Agent(t)
      graded_rag == a = "rag" /\ context.quality
  IN [t EXCEPT
        !.at = IF graded_rag THEN "plan" ELSE "work", !.known = @ \/ graded_rag,
        !.delegated[a] = @ + (IF a = "public" THEN 0 ELSE 1),
        !.accepted = Eligible(t), !.found = {}, !.approved = {}, !.queries = 0,
        !.rewritten = FALSE]

\* delegate and invoke_public_tool.
Delegate ==
  /\ turn.at = "delegate" /\ scope
  /\ \/ Limited(turn, Agent(turn)) /\ Fail
     \/ /\ ~Limited(turn, Agent(turn)) /\ turn' = Delegated(turn)
        /\ UNCHANGED <<pos, log, spent, front>>
  /\ UNCHANGED <<context, saved, scope, answer, rounds, faults, graded>>

-----------------------------------------------------------------------------
(* The end of a turn.                                                      *)

\* The transaction that saves the message: a clarification pauses the Run with
\* its state, any other answer completes it.  A scope that changed fails it.
Publish ==
  /\ turn.at = "publish" /\ scope
  /\ answer' = turn.draft
  /\ IF turn.draft.kind = "clarification"
     THEN saved' = [turn EXCEPT !.at = "paused"] /\ turn' = [Blank EXCEPT !.at = "paused"]
     ELSE saved' = saved /\ turn' = [Blank EXCEPT !.at = "published"]
  /\ pos' = 0 /\ log' = <<>> /\ front' = Blank
  /\ UNCHANGED <<context, scope, rounds, faults, graded, spent>>

\* The user supplements: a new round has receipts of its own.
Resume ==
  /\ turn.at = "paused" /\ rounds < MaxRounds
  /\ turn' = Blank /\ rounds' = rounds + 1
  /\ UNCHANGED <<context, saved, log, scope, answer, faults, pos, history>>

\* The process ends and another one takes the Run over.
Crash ==
  /\ turn.at \notin {"down", "paused", "published", "failed"} /\ faults < MaxFaults
  /\ turn' = Blank /\ pos' = 0 /\ faults' = faults + 1
  /\ UNCHANGED <<context, saved, log, scope, answer, rounds, history>>

\* A document, a grant, a capability or the session changes.
Revoke ==
  /\ scope /\ scope' = FALSE
  /\ UNCHANGED <<context, saved, log, answer, rounds, faults, pos, turn, history>>

Step ==
  \/ Start \/ Recall \/ Supervise \/ Repair \/ Delegate \/ Plan \/ Search \/ Grade \/ Rewrite
  \/ Work \/ UseTool \/ Publish \/ Denied

Next == Step \/ Resume \/ Crash \/ Revoke

Spec == Init /\ [][Next]_vars

\* Some process always takes the Run up and goes on with it.
FairSpec == Spec /\ WF_vars(Step)

-----------------------------------------------------------------------------
(* Properties                                                              *)

Places == {"down", "recall", "supervisor", "repair", "delegate", "plan", "search", "grade",
           "rewriter", "work", "tool", "publish", "paused", "published", "failed"}

\* The memory of a process is within the limits of the settings, and a source
\* has one number (EvidenceRegistry._add, instrument, _reserve).
TypeOK ==
  /\ turn.at \in Places /\ IsInjective(turn.entries)
  /\ Registered(turn) \subseteq Sources /\ turn.excluded \subseteq Registered(turn)
  /\ Len(turn.entries) <= MaxSources
  /\ turn.calls <= MaxModelCalls /\ turn.requests <= MaxToolCalls
  /\ turn.searches <= MaxSearches /\ turn.rewrites <= 1
  /\ pos <= Len(log) /\ rounds <= MaxRounds /\ faults <= MaxFaults

\* A published answer that cites a document fragment in a Run with knowledge
\* grading cites one that a grade accepted: neither a failed delegation nor a
\* takeover or a supplement lets a rejected candidate through.
CitationsGraded == context.quality => answer.cites \cap Chunks \subseteq graded

\* The limits hold for a Run as a whole, whatever processes and supplements it
\* takes: counters are part of the receipts and of the saved state.
BudgetSpansRun ==
  /\ spent.calls <= MaxModelCalls /\ spent.requests <= MaxToolCalls
  /\ spent.searches <= MaxSearches

\* A process that has gone through all receipts is exactly where the process
\* that wrote them was.
ReplayExact ==
  [][pos' = pos + 1 /\ pos' = Len(log') /\ log' = log => turn' = front]_vars

\* Every round ends: with an answer, a question or a failure.
TurnEnds == []<>(turn.at \in {"paused", "published", "failed"})
=============================================================================
