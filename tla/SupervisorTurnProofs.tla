-------------------------- MODULE SupervisorTurnProofs --------------------------
(***************************************************************************)
(* Proofs about SupervisorTurn, for any limits, chunks, modes, rounds and  *)
(* faults: a Run that is taken over goes on exactly where it was, its      *)
(* limits count for the Run as a whole, and a published answer cites no    *)
(* chunk that a grade has not accepted.                                    *)
(*                                                                         *)
(* The memory of a process is lost with it, so the invariant says where    *)
(* memories come from: there are memories tr[0], tr[1], ... of the round,  *)
(* each made from the one before by the receipt between them, and what the *)
(* present process has in memory is the one its position belongs to.       *)
(***************************************************************************)
EXTENDS SupervisorTurn, FiniteSetTheorems, SequenceTheorems, TLAPS

-----------------------------------------------------------------------------
(* The inductive invariant.                                                *)

Tools == UNION {ToolsOf(a) : a \in Agents}
Kinds == {"none", "grounded", "smalltalk", "clarification", "insufficient"}

Memory ==
  [at : Places, todo : Seq(Agents), call : Tools \cup {"none"},
   entries : Seq(Sources), excluded : SUBSET Sources, cached : BOOLEAN, schema : BOOLEAN,
   searches : Nat, requests : Nat, rewrites : Nat, delegated : [Agents -> Nat], known : BOOLEAN,
   calls : Nat, fallback : BOOLEAN,
   found : SUBSET Chunks, accepted : SUBSET Sources, approved : SUBSET Chunks, queries : Nat,
   rewritten : BOOLEAN, draft : [kind : Kinds, cites : SUBSET Sources]]

\* The limits that hold for a memory by itself.
Fits(t) ==
  /\ IsInjective(t.entries) /\ Len(t.entries) <= MaxSources /\ t.excluded \subseteq Registered(t)
  /\ t.calls <= MaxModelCalls /\ t.requests <= MaxToolCalls /\ t.searches <= MaxSearches
  /\ t.rewrites <= 1

\* What comes next has what it needs; a graded search is left to the workflow.
InDelegation == {"delegate", "plan", "search", "grade", "rewriter", "work", "tool"}
Poised(t) ==
  /\ t.at \in {"search", "rewriter"} => t.queries > 0
  /\ t.at \in InDelegation => t.todo # <<>>
  /\ IF t.at = "tool" THEN t.call \in ToolsOf(Agent(t)) ELSE t.call = "none"
  /\ context.quality /\ t.at \in {"work", "tool"} => Agent(t) # "rag"

\* A chunk the model may see and cite has been accepted by a grade.
Vouched(t, chunks) ==
  context.quality =>
    Chunks \cap (Eligible(t) \cup t.accepted \cup t.approved \cup t.draft.cites) \subseteq chunks

Sound(t) == t \in Memory /\ Fits(t) /\ Poised(t)
Good(t, chunks) == Sound(t) /\ Vouched(t, chunks)

Asking == {"supervisor", "repair", "plan", "grade", "rewriter", "work"}
Calling == {"recall", "search", "tool"} \cup Asking
Live == {"delegate", "publish"} \cup Calling

\* The memory a round begins with.
First ==
  IF saved.at = "down" THEN [Blank EXCEPT !.at = "recall"]
  ELSE [Resumed(saved) EXCEPT !.at = "supervisor"]

\* A delegation begins without a call.
Ready(t) == IF t.at = "delegate" THEN Delegated(t) ELSE t

\* What a process makes of a receipt.
After(t, r) ==
  CASE t.at = "recall" -> [RestoreBody(t, r.body) EXCEPT !.at = "supervisor"]
    [] t.at \in {"search", "tool"} ->
         Received(RestoreBody([t EXCEPT !.requests = @ + 1], r.body), r.got)
    [] t.at \in Asking -> Heard([t EXCEPT !.calls = r.calls, !.fallback = r.fallback], r.said)

Counted(t) == [calls |-> t.calls, requests |-> t.requests, searches |-> t.searches]

\* The memories tr of the round, up to the one that made the last call.
Chain(tr) ==
  /\ tr[0] = First
  /\ \A i \in 0..Len(log) : /\ Good(tr[i], graded) /\ tr[i].at \in Live
                            /\ tr[i].at = "recall" => i = 0
  /\ \A i \in 0..Len(log) : i # Len(log) =>
       Ready(tr[i]).at \in Calling /\ tr[i + 1] = After(Ready(tr[i]), log[i + 1])
  /\ spent = Counted(tr[Len(log)])
  /\ log # <<>> => front = tr[Len(log)]

\* The process has the memory of its position.
Abreast(tr) ==
  \/ turn.at \in {"down", "paused"} /\ pos = 0
  \/ turn \in {tr[pos], Ready(tr[pos])}

Wording ==
  {"tools", "malformed", "unavailable", "clarify", "one", "two", "answer", "rewrite", "hyde",
   "hypothesis", "report"} \cup Kinds \cup Tools
Saying == [say : Wording, tasks : Seq(Agents), of : SUBSET (Nat \cup Chunks)]
Receipt ==
  [said : Saying, calls : Nat, fallback : BOOLEAN]
    \cup [got : SUBSET (Sources \cup {"failed"}),
          body : [entries : Seq(Sources), excluded : SUBSET Sources, searches : Nat,
                  cached : BOOLEAN, schema : BOOLEAN]]

Typed ==
  /\ context \in Contexts /\ log \in Seq(Receipt) /\ pos \in 0..Len(log)
  /\ rounds \in 0..MaxRounds /\ faults \in 0..MaxFaults
  /\ answer \in [kind : Kinds, cites : SUBSET Sources]

IInv ==
  /\ Typed /\ Good(turn, graded) /\ CitationsGraded /\ BudgetSpansRun
  /\ \/ turn.at \in {"published", "failed"}
     \/ \E tr \in [Nat -> Memory] : Chain(tr) /\ Abreast(tr)

-----------------------------------------------------------------------------
(* Sequences and records.                                                  *)

LEMMA LesserOf ==
  ASSUME NEW m \in Nat, NEW n \in Nat
  PROVE  Min({m, n}) \in {m, n} /\ Min({m, n}) <= m /\ Min({m, n}) <= n
<1>1. \E x \in {m, n} : \A y \in {m, n} : x <= y
  <2>1. CASE m <= n
    BY <2>1
  <2>2. CASE n < m
    BY <2>2
  <2> QED
    BY <2>1, <2>2
<1>2. Min({m, n}) \in {m, n} /\ \A y \in {m, n} : Min({m, n}) <= y
  BY <1>1 DEF Min
<1> QED
  BY <1>2

\* A list of a finite set has each member once.
LEMMA Listed ==
  ASSUME NEW S, IsFiniteSet(S)
  PROVE  /\ SetToSeq(S) \in Seq(S) /\ IsInjective(SetToSeq(S))
<1>1. Cardinality(S) \in Nat /\ \E f \in [1..Cardinality(S) -> S] : IsInjective(f)
  BY FS_CardinalityType DEF ExistsBijection, Bijection, Injection
<1>2. SetToSeq(S) \in [1..Cardinality(S) -> S] /\ IsInjective(SetToSeq(S))
  BY <1>1 DEF SetToSeq
<1> QED
  BY <1>1, <1>2

\* The registry numbers every source once, within its budget.
LEMMA Registering ==
  ASSUME NEW old \in Seq(Sources), IsInjective(old), Len(old) <= MaxSources,
         NEW got \in SUBSET Sources, IsFiniteSet(got)
  PROVE  /\ AddAll(old, got) \in Seq(Sources) /\ IsInjective(AddAll(old, got))
         /\ Len(AddAll(old, got)) <= MaxSources
         /\ ToSet(old) \subseteq ToSet(AddAll(old, got))
         /\ ToSet(AddAll(old, got)) \subseteq ToSet(old) \cup got
<1> DEFINE fresh == got \ ToSet(old)
           list == SetToSeq(fresh)
           room == MaxSources - Len(old)
           most == Min({Len(list), room})
           more == SubSeq(list, 1, most)
<1>1. AddAll(old, got) = old \o more
  BY DEF AddAll
<1>2. list \in Seq(fresh) /\ IsInjective(list)
  BY Listed, FS_Difference
<1> HIDE DEF list
<1>3. Len(list) \in Nat /\ room \in Nat /\ Len(old) \in Nat
  BY <1>2, TurnAssumption
<1>4. most \in Nat /\ most <= Len(list) /\ most <= room
  BY <1>3, LesserOf
<1> HIDE DEF most
<1>5. /\ more \in Seq(fresh) /\ Len(more) = most
      /\ \A i \in 1..most : more[i] = list[i]
  <2>1. \A i \in 1..most : list[i] \in fresh
    BY <1>2, <1>3, <1>4
  <2> HIDE DEF fresh
  <2>2. 1 \in Int /\ most \in Int
    BY <1>4
  <2>3. /\ more \in Seq(fresh) /\ Len(more) = IF 1 <= most THEN most - 1 + 1 ELSE 0
        /\ \A i \in 1..(most - 1 + 1) : more[i] = list[1 + i - 1]
    BY <2>1, <2>2, SubSeqProperties
  <2> QED
    BY <2>3, <1>4
<1> HIDE DEF more
<1>6. more \in Seq(Sources) /\ \A i \in 1..most : more[i] \in fresh
  BY <1>4, <1>5
<1>7. /\ old \o more \in Seq(Sources) /\ Len(old \o more) = Len(old) + most
      /\ \A i \in 1..(Len(old) + most) :
           (old \o more)[i] = IF i <= Len(old) THEN old[i] ELSE more[i - Len(old)]
  BY <1>5, <1>6, ConcatProperties
<1> DEFINE all == old \o more
<1>8. /\ all \in Seq(Sources) /\ Len(all) = Len(old) + most /\ DOMAIN all = 1..(Len(old) + most)
      /\ \A i \in 1..Len(old) : all[i] = old[i] /\ all[i] \in ToSet(old)
      /\ \A i \in (Len(old) + 1)..(Len(old) + most) :
           all[i] = list[i - Len(old)] /\ all[i] \in fresh /\ i - Len(old) \in 1..Len(list)
  <2>1. \A i \in 1..Len(old) : i \in 1..(Len(old) + most) /\ i <= Len(old) /\ i \in DOMAIN old
    BY <1>3, <1>4
  <2>2. \A i \in (Len(old) + 1)..(Len(old) + most) :
          /\ i \in 1..(Len(old) + most) /\ ~(i <= Len(old))
          /\ i - Len(old) \in 1..most /\ i - Len(old) \in 1..Len(list)
    BY <1>3, <1>4
  <2> QED
    BY <1>3, <1>4, <1>5, <1>6, <1>7, <2>1, <2>2 DEF ToSet
<1> HIDE DEF all
<1>9. \A i \in DOMAIN all : i \in 1..Len(old) \/ i \in (Len(old) + 1)..(Len(old) + most)
  BY <1>3, <1>4, <1>8
<1>10. IsInjective(all)
  <2> SUFFICES ASSUME NEW i \in DOMAIN all, NEW j \in DOMAIN all, all[i] = all[j] PROVE i = j
    BY DEF IsInjective
  <2>1. CASE i \in 1..Len(old) /\ j \in 1..Len(old)
    <3>1. old[i] = old[j] /\ i \in DOMAIN old /\ j \in DOMAIN old
      BY <1>8, <2>1
    <3> QED
      BY <3>1 DEF IsInjective
  <2>2. CASE /\ i \in (Len(old) + 1)..(Len(old) + most)
             /\ j \in (Len(old) + 1)..(Len(old) + most)
    <3>1. /\ list[i - Len(old)] = list[j - Len(old)]
          /\ i - Len(old) \in DOMAIN list /\ j - Len(old) \in DOMAIN list
      BY <1>2, <1>8, <2>2
    <3>2. i - Len(old) = j - Len(old)
      BY <1>2, <3>1 DEF IsInjective
    <3> QED
      BY <1>3, <1>4, <2>2, <3>2
  <2>3. \A m \in 1..Len(old), n \in (Len(old) + 1)..(Len(old) + most) : all[m] # all[n]
    BY <1>8
  <2> QED
    BY <1>9, <2>1, <2>2, <2>3
<1>11. ToSet(old) \subseteq ToSet(all) /\ ToSet(all) \subseteq ToSet(old) \cup got
  <2>1. ASSUME NEW x \in ToSet(old) PROVE x \in ToSet(all)
    <3>1. PICK i \in 1..Len(old) : x = old[i]
      BY <2>1 DEF ToSet
    <3>2. all[i] = x /\ i \in DOMAIN all
      BY <1>3, <1>4, <1>8, <3>1
    <3> QED
      BY <3>2 DEF ToSet
  <2>2. ASSUME NEW x \in ToSet(all) PROVE x \in ToSet(old) \cup got
    BY <1>8, <1>9, <2>2 DEF ToSet
  <2> QED
    BY <2>1, <2>2
<1>12. AddAll(old, got) = all
  BY <1>1 DEF all
<1>13. Len(all) <= MaxSources
  BY <1>3, <1>4, <1>8, TurnAssumption
<1> QED
  BY <1>8, <1>10, <1>11, <1>12, <1>13

-----------------------------------------------------------------------------
(* What the operators make of a memory.                                    *)

\* The calls a memory has counted stay as they were.
Same(t, u) == u.calls = t.calls /\ u.requests = t.requests /\ u.searches = t.searches

\* What may follow a call that did not fail the Run.
Follows(t, u, chunks) ==
  u.at \in Live \ {"recall"} /\ Same(t, u) /\ Good(u, chunks)

LEMMA MemoryFields ==
  ASSUME NEW t \in Memory
  PROVE  /\ t.at \in Places /\ t.todo \in Seq(Agents) /\ t.call \in Tools \cup {"none"}
         /\ t.entries \in Seq(Sources) /\ t.excluded \in SUBSET Sources
         /\ t.cached \in BOOLEAN /\ t.schema \in BOOLEAN
         /\ t.searches \in Nat /\ t.requests \in Nat /\ t.rewrites \in Nat
         /\ t.delegated \in [Agents -> Nat] /\ t.known \in BOOLEAN
         /\ t.calls \in Nat /\ t.fallback \in BOOLEAN
         /\ t.found \in SUBSET Chunks /\ t.accepted \in SUBSET Sources
         /\ t.approved \in SUBSET Chunks /\ t.queries \in Nat /\ t.rewritten \in BOOLEAN
         /\ t.draft \in [kind : Kinds, cites : SUBSET Sources]
BY DEF Memory

\* Two memories with the same fields are one.
LEMMA SameFields ==
  ASSUME NEW t \in Memory, NEW u \in Memory,
         t.at = u.at, t.todo = u.todo, t.call = u.call, t.entries = u.entries,
         t.excluded = u.excluded, t.cached = u.cached, t.schema = u.schema,
         t.searches = u.searches, t.requests = u.requests, t.rewrites = u.rewrites,
         t.delegated = u.delegated, t.known = u.known, t.calls = u.calls,
         t.fallback = u.fallback, t.found = u.found, t.accepted = u.accepted,
         t.approved = u.approved, t.queries = u.queries, t.rewritten = u.rewritten,
         t.draft = u.draft
  PROVE  t = u
BY DEF Memory

\* What a change of some fields leaves alone.
Beside(t, u) ==
  /\ u \in Memory /\ u.requests = t.requests /\ u.rewrites = t.rewrites /\ u.calls = t.calls
  /\ u.todo = t.todo /\ u.excluded = t.excluded /\ u.queries = t.queries
  /\ u.accepted = t.accepted /\ u.approved = t.approved /\ u.draft = t.draft

PutAt(t, at, call, u) ==
  Beside(t, u) /\ u.at = at /\ u.call = call /\ u.entries = t.entries /\ u.searches = t.searches

PutBody(t, new, searches, cached, schema, u) ==
  /\ Beside(t, u) /\ u.at = t.at /\ u.call = t.call
  /\ u.entries = new /\ u.searches = searches /\ u.cached = cached /\ u.schema = schema

LEMMA PutsAt ==
  ASSUME NEW t \in Memory, NEW at \in Places
  PROVE  PutAt(t, at, t.call, [t EXCEPT !.at = at])
BY DEF Memory, PutAt, Beside

LEMMA PutsBack ==
  ASSUME NEW t \in Memory
  PROVE  PutAt(t, "work", "none", [t EXCEPT !.at = "work", !.call = "none"])
BY DEF Memory, PutAt, Beside, Places

LEMMA PutsBody ==
  ASSUME NEW t \in Memory, NEW new \in Seq(Sources), NEW searches \in Nat,
         NEW cached \in BOOLEAN, NEW schema \in BOOLEAN
  PROVE  PutBody(t, new, searches, cached, schema,
                 [t EXCEPT !.entries = new, !.searches = searches, !.cached = cached,
                           !.schema = schema])
BY DEF Memory, PutBody, Beside

LEMMA PutsEntries ==
  ASSUME NEW t \in Memory, NEW new \in Seq(Sources)
  PROVE  PutBody(t, new, t.searches, t.cached, t.schema, [t EXCEPT !.entries = new])
BY DEF Memory, PutBody, Beside

LEMMA SameExcluded ==
  ASSUME NEW t \in Memory, NEW new, NEW searches, NEW cached, NEW schema
  PROVE  [t EXCEPT !.entries = new, !.excluded = t.excluded, !.searches = searches,
                   !.cached = cached, !.schema = schema]
           = [t EXCEPT !.entries = new, !.searches = searches, !.cached = cached, !.schema = schema]
BY DEF Memory

LEMMA RegisteredSources ==
  ASSUME NEW t \in Memory
  PROVE  /\ Registered(t) \subseteq Sources
         /\ \A i \in DOMAIN t.entries : t.entries[i] \in Registered(t)
<1>1. t.entries \in Seq(Sources)
  BY MemoryFields
<1> QED
  BY <1>1 DEF Registered, ToSet

\* A memory that only turns to something else.
LEMMA Turned ==
  ASSUME NEW chunks, NEW t, Good(t, chunks), NEW at \in Live \ {"recall"},
         Poised([t EXCEPT !.at = at])
  PROVE  Follows(t, [t EXCEPT !.at = at], chunks)
<1> DEFINE u == [t EXCEPT !.at = at]
<1>1. t \in Memory /\ at \in Places
  BY DEF Good, Sound, Live, Calling, Asking, Places
<1>2. /\ u \in Memory /\ u.at = at /\ u.entries = t.entries /\ u.excluded = t.excluded
      /\ u.calls = t.calls /\ u.requests = t.requests /\ u.searches = t.searches
      /\ u.rewrites = t.rewrites
      /\ u.accepted = t.accepted /\ u.approved = t.approved /\ u.draft = t.draft
  BY <1>1 DEF Memory
<1> HIDE DEF u
<1>3. Fits(u) /\ Vouched(u, chunks) /\ Same(t, u)
  BY <1>2 DEF Good, Sound, Fits, Vouched, Same, Registered, Eligible
<1> QED
  BY <1>2, <1>3 DEF Good, Sound, Follows, u

\* A delegation ends.
Ending(t, chunks) ==
  t \in Memory /\ Fits(t) /\ Vouched(t, chunks) /\ t.call = "none" /\ t.todo # <<>>

LEMMA DoneStep ==
  ASSUME NEW chunks, NEW t, Ending(t, chunks)
  PROVE  /\ Follows(t, Done(t), chunks) /\ Done(t).at \in {"supervisor", "delegate"}
<1> DEFINE at == IF Len(t.todo) = 1 THEN "supervisor" ELSE "delegate"
           rest == Tail(t.todo)
           u == [t EXCEPT !.todo = rest, !.at = at]
<1>1. Done(t) = u
  BY DEF Done
<1>2. rest \in Seq(Agents) /\ (Len(t.todo) # 1 => rest # <<>>)
  <2>1. t.todo \in Seq(Agents) /\ t.todo # <<>>
    BY MemoryFields DEF Ending
  <2>2. Tail(t.todo) \in Seq(Agents) /\ Len(Tail(t.todo)) = Len(t.todo) - 1 /\ Len(t.todo) \in Nat
    BY <2>1, HeadTailProperties, LenProperties
  <2>3. Tail(t.todo) = <<>> => Len(Tail(t.todo)) = 0
    BY EmptySeq
  <2> QED
    BY <2>2, <2>3
<1> HIDE DEF rest
<1>3. at \in Places /\ at \in {"supervisor", "delegate"} /\ (at = "delegate" => rest # <<>>)
  BY <1>2 DEF Places
<1> HIDE DEF at
<1>4. /\ u \in Memory /\ u.at = at /\ u.todo = rest /\ u.call = t.call
      /\ u.entries = t.entries /\ u.excluded = t.excluded
      /\ u.calls = t.calls /\ u.requests = t.requests /\ u.searches = t.searches
      /\ u.rewrites = t.rewrites
      /\ u.accepted = t.accepted /\ u.approved = t.approved /\ u.draft = t.draft
  BY <1>2, <1>3 DEF Ending, Memory
<1> HIDE DEF u
<1>5. Fits(u) /\ Vouched(u, chunks) /\ Same(t, u)
  BY <1>4 DEF Ending, Fits, Vouched, Same, Registered, Eligible
<1>6. Poised(u)
  BY <1>3, <1>4 DEF Ending, Poised, InDelegation
<1> QED
  BY <1>1, <1>3, <1>4, <1>5, <1>6 DEF Good, Sound, Follows, Live, Calling, Asking

\* What no grade accepted is excluded at the end of a graded delegation.
LEMMA SettledStep ==
  ASSUME NEW chunks, NEW t, Ending(t, chunks)
  PROVE  Follows(t, Settled(t), chunks)
<1> DEFINE out == t.excluded \cup ((Registered(t) \cap Chunks) \ (t.accepted \cup t.approved))
           u == [t EXCEPT !.excluded = out]
<1>1. Settled(t) = Done(u)
  BY DEF Settled
<1>2. /\ t \in Memory /\ out \in SUBSET Sources /\ t.excluded \subseteq out
      /\ out \subseteq Registered(t)
  BY RegisteredSources DEF Ending, Fits
<1> HIDE DEF out
<1>3. /\ u \in Memory /\ u.todo = t.todo /\ u.call = t.call
      /\ u.entries = t.entries /\ u.excluded = out
      /\ u.calls = t.calls /\ u.requests = t.requests /\ u.searches = t.searches
      /\ u.rewrites = t.rewrites
      /\ u.accepted = t.accepted /\ u.approved = t.approved /\ u.draft = t.draft
  BY <1>2 DEF Memory
<1> HIDE DEF u
<1>4. Ending(u, chunks) /\ Same(t, u)
  BY <1>2, <1>3 DEF Ending, Fits, Vouched, Same, Registered, Eligible
<1>5. Follows(u, Done(u), chunks)
  BY <1>4, DoneStep
<1> QED
  BY <1>1, <1>4, <1>5 DEF Follows, Same

LEMMA SettledKeeps ==
  ASSUME NEW t \in Memory
  PROVE  Settled(t).approved = t.approved
BY DEF Settled, Done, Memory

LEMMA MoreChunks ==
  ASSUME NEW chunks, NEW more, NEW t, NEW u, Follows(t, u, chunks)
  PROVE  Follows(t, u, chunks \cup more)
BY DEF Follows, Good, Vouched

\* The specialists' places: a delegation that may end.
LEMMA MayEnd ==
  ASSUME NEW chunks, NEW t, Good(t, chunks), t.at \in InDelegation \ {"tool"}
  PROVE  Ending(t, chunks)
BY DEF Good, Sound, Poised, Ending

LEMMA PlannedStep ==
  ASSUME NEW chunks, NEW t, Good(t, chunks), t.at = "plan", NEW said
  PROVE  Follows(t, Planned(t, said), chunks)
<1>1. Ending(t, chunks)
  BY MayEnd DEF InDelegation
<1>2. CASE said.say \in {"clarify", "malformed"}
  BY <1>1, <1>2, SettledStep DEF Planned
<1>3. CASE said.say \notin {"clarify", "malformed"}
  <2> DEFINE queries == IF said.say = "one" THEN 1 ELSE 2
             u == [t EXCEPT !.at = "search", !.queries = queries]
  <2>1. Planned(t, said) = u
    BY <1>3 DEF Planned
  <2>2. queries \in Nat /\ queries > 0
    OBVIOUS
  <2> HIDE DEF queries
  <2>3. /\ u \in Memory /\ u.at = "search" /\ u.queries = queries /\ u.todo = t.todo
        /\ u.call = t.call /\ u.entries = t.entries /\ u.excluded = t.excluded
        /\ u.calls = t.calls /\ u.requests = t.requests /\ u.searches = t.searches
        /\ u.rewrites = t.rewrites
        /\ u.accepted = t.accepted /\ u.approved = t.approved /\ u.draft = t.draft
    BY <1>1, <2>2 DEF Ending, Memory, Places
  <2> HIDE DEF u
  <2>4. Good(u, chunks) /\ Same(t, u)
    BY <1>1, <2>2, <2>3
    DEF Ending, Good, Sound, Fits, Vouched, Poised, Same, Registered, Eligible
  <2> QED
    BY <2>1, <2>3, <2>4 DEF Follows, Live, Calling, Asking
<1> QED
  BY <1>2, <1>3

LEMMA GradedStep ==
  ASSUME NEW chunks, NEW t, Good(t, chunks), t.at = "grade",
         NEW said, said.of \subseteq Chunks
  PROVE  Follows(t, Graded(t, said), chunks \cup Graded(t, said).approved)
<1>1. Ending(t, chunks)
  BY MayEnd DEF InDelegation
<1>2. CASE said.say \in {"clarify", "none", "malformed"}
  <2>1. Follows(t, Settled(t), chunks)
    BY <1>1, SettledStep
  <2> QED
    BY <1>2, <2>1, MoreChunks DEF Graded
<1>3. CASE said.say \in {"rewrite", "hyde"}
  <2>1. CASE NoRewrite(t)
    <3>1. Follows(t, Settled(t), chunks)
      BY <1>1, SettledStep
    <3> QED
      BY <1>3, <2>1, <3>1, MoreChunks DEF Graded
  <2>2. CASE ~NoRewrite(t)
    <3> DEFINE at == IF said.say = "hyde" THEN "rewriter" ELSE "search"
               u == [t EXCEPT !.rewrites = @ + 1, !.rewritten = TRUE, !.queries = 1, !.at = at]
    <3>1. Graded(t, said) = u
      BY <1>3, <2>2 DEF Graded
    <3>2. at \in {"rewriter", "search"} /\ at \in Places
      BY DEF Places
    <3> HIDE DEF at
    <3>3. t \in Memory /\ t.rewrites \in Nat /\ t.rewrites + 1 \in Nat /\ t.rewrites + 1 <= 1
      BY <1>1, <2>2, MemoryFields DEF Ending, NoRewrite
    <3>4. /\ u \in Memory /\ u.at = at /\ u.queries = 1 /\ u.todo = t.todo
          /\ u.call = t.call /\ u.entries = t.entries /\ u.excluded = t.excluded
          /\ u.calls = t.calls /\ u.requests = t.requests /\ u.searches = t.searches
          /\ u.rewrites = t.rewrites + 1
          /\ u.accepted = t.accepted /\ u.approved = t.approved /\ u.draft = t.draft
      BY <3>2, <3>3 DEF Memory
    <3> HIDE DEF u
    <3>5. Good(u, chunks) /\ Same(t, u)
      BY <1>1, <3>2, <3>3, <3>4
      DEF Ending, Good, Sound, Fits, Vouched, Poised, Same, Registered, Eligible
    <3>6. Follows(t, u, chunks)
      BY <3>2, <3>4, <3>5 DEF Follows, Live, Calling, Asking
    <3> QED
      BY <3>1, <3>6, MoreChunks
  <2> QED
    BY <2>1, <2>2
<1>4. CASE said.say \notin {"clarify", "none", "malformed", "rewrite", "hyde"}
  <2> DEFINE u == [t EXCEPT !.approved = said.of, !.excluded = @ \ said.of]
  <2>1. Graded(t, said) = Settled(u)
    BY <1>4 DEF Graded
  <2>2. t \in Memory /\ t.excluded \ said.of \in SUBSET Sources
    BY <1>1, MemoryFields DEF Ending
  <2>3. /\ u \in Memory /\ u.approved = said.of /\ u.excluded = t.excluded \ said.of
        /\ u.todo = t.todo /\ u.call = t.call /\ u.entries = t.entries
        /\ u.calls = t.calls /\ u.requests = t.requests /\ u.searches = t.searches
        /\ u.rewrites = t.rewrites /\ u.accepted = t.accepted /\ u.draft = t.draft
    BY <2>2 DEF Memory
  <2> HIDE DEF u
  <2>4. Ending(u, chunks \cup said.of) /\ Same(t, u)
    BY <1>1, <2>3 DEF Ending, Fits, Vouched, Same, Registered, Eligible
  <2>5. Follows(u, Settled(u), chunks \cup said.of)
    BY <2>4, SettledStep
  <2>6. Settled(u).approved = said.of
    BY <2>3, SettledKeeps
  <2> QED
    BY <2>1, <2>4, <2>5, <2>6 DEF Follows, Same
<1> QED
  BY <1>2, <1>3, <1>4

LEMMA RewrittenStep ==
  ASSUME NEW chunks, NEW t, Good(t, chunks), t.at = "rewriter", NEW said
  PROVE  Follows(t, Rewritten(t, said), chunks)
<1>1. Ending(t, chunks)
  BY MayEnd DEF InDelegation
<1>2. CASE said.say = "malformed"
  BY <1>1, <1>2, SettledStep DEF Rewritten
<1>3. CASE said.say # "malformed"
  <2> DEFINE u == [t EXCEPT !.at = "search"]
  <2>1. u.at = "search" /\ u.queries = t.queries /\ u.todo = t.todo /\ u.call = t.call
    BY MemoryFields DEF Good, Sound, Memory
  <2>2. Poised(u)
    BY <2>1 DEF Good, Sound, Poised, InDelegation
  <2> QED
    BY <1>3, <2>2, Turned DEF Rewritten, Live, Calling, Asking
<1> QED
  BY <1>2, <1>3

LEMMA ReportedStep ==
  ASSUME NEW chunks, NEW t, Good(t, chunks), t.at = "work", NEW said,
         said.say \in ToolsOf(Agent(t)) \cup {"report", "malformed"}
  PROVE  Follows(t, Reported(t, said), chunks)
<1>1. Ending(t, chunks)
  BY MayEnd DEF InDelegation
<1>2. CASE said.say \in {"report", "malformed"}
  BY <1>1, <1>2, DoneStep DEF Reported
<1>3. CASE said.say \notin {"report", "malformed"}
  <2> DEFINE u == [t EXCEPT !.at = "tool", !.call = said.say]
  <2>1. Reported(t, said) = u
    BY <1>3 DEF Reported
  <2>2. Agent(t) \in Agents
    <3>1. t.todo \in Seq(Agents) /\ t.todo # <<>>
      BY <1>1, MemoryFields DEF Ending
    <3> QED
      BY <3>1, HeadTailProperties DEF Agent
  <2>3. said.say \in Tools /\ said.say \in ToolsOf(Agent(t)) /\ t \in Memory
    BY <1>1, <1>3, <2>2 DEF Tools, Ending
  <2>4. /\ u \in Memory /\ u.at = "tool" /\ u.call = said.say
        /\ u.todo = t.todo /\ u.entries = t.entries /\ u.excluded = t.excluded
        /\ u.calls = t.calls /\ u.requests = t.requests /\ u.searches = t.searches
        /\ u.rewrites = t.rewrites
        /\ u.accepted = t.accepted /\ u.approved = t.approved /\ u.draft = t.draft
    BY <2>3 DEF Memory, Places
  <2> HIDE DEF u
  <2>5. Fits(u) /\ Vouched(u, chunks) /\ Same(t, u)
    BY <1>1, <2>4 DEF Ending, Fits, Vouched, Same, Registered, Eligible
  <2>6. Poised(u)
    BY <1>1, <2>3, <2>4 DEF Ending, Good, Sound, Poised, Agent, InDelegation
  <2> QED
    BY <2>1, <2>4, <2>5, <2>6 DEF Follows, Good, Sound, Live, Calling
<1> QED
  BY <1>2, <1>3

\* A final message: published, repaired once, or the end of the Run.
LEMMA FinalizeStep ==
  ASSUME NEW chunks, NEW t, Good(t, chunks), t.at \in {"supervisor", "repair"}, NEW said, NEW again
  PROVE  Finalize(t, said, again) = Failed \/ Follows(t, Finalize(t, said, again), chunks)
<1>1. t \in Memory /\ Fits(t) /\ t.call = "none"
  BY DEF Good, Sound, Poised
<1>2. CASE Acceptable(t, said.say, said.of)
  <2> DEFINE draft == [kind |-> said.say, cites |-> {t.entries[n] : n \in said.of}]
             u == [t EXCEPT !.at = "publish", !.draft = draft]
  <2>1. Finalize(t, said, again) = u
    BY <1>2 DEF Finalize
  <2>2. /\ said.say \in Kinds
        /\ \A n \in said.of : n \in DOMAIN t.entries /\ t.entries[n] \notin t.excluded
    BY <1>2 DEF Acceptable, Kinds
  <2>3. {t.entries[n] : n \in said.of} \subseteq Eligible(t) /\ Eligible(t) \subseteq Sources
    BY <1>1, <2>2, RegisteredSources DEF Eligible
  <2>4. /\ draft \in [kind : Kinds, cites : SUBSET Sources] /\ draft.cites \subseteq Eligible(t)
    BY <2>2, <2>3
  <2> HIDE DEF draft
  <2>5. /\ u \in Memory /\ u.at = "publish" /\ u.draft = draft /\ u.call = t.call
        /\ u.entries = t.entries /\ u.excluded = t.excluded
        /\ u.calls = t.calls /\ u.requests = t.requests /\ u.searches = t.searches
        /\ u.rewrites = t.rewrites /\ u.accepted = t.accepted /\ u.approved = t.approved
    BY <1>1, <2>4 DEF Memory, Places
  <2> HIDE DEF u
  <2>6. Fits(u) /\ Vouched(u, chunks) /\ Same(t, u) /\ Poised(u)
    BY <1>1, <2>4, <2>5
    DEF Good, Fits, Vouched, Same, Registered, Eligible, Poised, InDelegation
  <2> QED
    BY <2>1, <2>5, <2>6 DEF Follows, Good, Sound, Live
<1>3. CASE ~Acceptable(t, said.say, said.of) /\ again
  <2> DEFINE u == [t EXCEPT !.at = "repair"]
  <2>1. u.at = "repair" /\ u.call = t.call
    BY <1>1 DEF Memory
  <2>2. Poised(u)
    BY <1>1, <2>1 DEF Poised, InDelegation
  <2>3. Follows(t, u, chunks)
    BY <2>2, Turned DEF Live, Calling, Asking
  <2> QED
    BY <1>3, <2>3 DEF Finalize
<1>4. CASE ~Acceptable(t, said.say, said.of) /\ ~again
  BY <1>4 DEF Finalize
<1> QED
  BY <1>2, <1>3, <1>4

LEMMA SupervisedStep ==
  ASSUME NEW chunks, NEW t, Good(t, chunks), t.at = "supervisor",
         NEW said, said.say = "tools" => said.tasks \in Seq(Agents) \ {<<>>}
  PROVE  Supervised(t, said) = Failed \/ Follows(t, Supervised(t, said), chunks)
<1>1. CASE said.say = "tools"
  <2> DEFINE u == [t EXCEPT !.at = "delegate", !.todo = said.tasks]
  <2>1. Supervised(t, said) = u
    BY <1>1 DEF Supervised
  <2>2. t \in Memory /\ Fits(t) /\ t.call = "none"
    BY DEF Good, Sound, Poised
  <2>3. /\ u \in Memory /\ u.at = "delegate" /\ u.todo = said.tasks /\ u.call = t.call
        /\ u.entries = t.entries /\ u.excluded = t.excluded
        /\ u.calls = t.calls /\ u.requests = t.requests /\ u.searches = t.searches
        /\ u.rewrites = t.rewrites
        /\ u.accepted = t.accepted /\ u.approved = t.approved /\ u.draft = t.draft
    BY <1>1, <2>2 DEF Memory, Places
  <2> HIDE DEF u
  <2>4. Fits(u) /\ Vouched(u, chunks) /\ Same(t, u) /\ Poised(u)
    BY <1>1, <2>2, <2>3
    DEF Good, Fits, Vouched, Same, Registered, Eligible, Poised, InDelegation
  <2> QED
    BY <2>1, <2>3, <2>4 DEF Follows, Good, Sound, Live
<1>2. CASE said.say # "tools"
  BY <1>2, FinalizeStep DEF Supervised
<1> QED
  BY <1>1, <1>2

-----------------------------------------------------------------------------
(* Calls of models.                                                        *)

\* What a model may say where it is asked.
Sayable(t, said) ==
  /\ t.at = "supervisor" /\ said.say = "tools" => said.tasks \in Seq(Agents) \ {<<>>}
  /\ t.at = "grade" => said.of \subseteq Chunks
  /\ t.at = "work" => said.say \in ToolsOf(Agent(t)) \cup {"report", "malformed", "unavailable"}

\* Without a model the call is repeated with the second one, or has failed.
LEMMA UnavailableStep ==
  ASSUME NEW chunks, NEW t, Good(t, chunks), t.at \in Asking,
         NEW broken, broken = Failed \/ Follows(t, broken, chunks)
  PROVE  Unavailable(t, broken) = Failed \/ Follows(t, Unavailable(t, broken), chunks)
<1>1. CASE t.fallback
  BY <1>1 DEF Unavailable
<1>2. CASE ~t.fallback
  <2> DEFINE u == [t EXCEPT !.fallback = TRUE]
  <2>1. Unavailable(t, broken) = u
    BY <1>2 DEF Unavailable
  <2>2. /\ u \in Memory /\ u.at = t.at /\ u.todo = t.todo /\ u.call = t.call
        /\ u.entries = t.entries /\ u.excluded = t.excluded /\ u.queries = t.queries
        /\ u.calls = t.calls /\ u.requests = t.requests /\ u.searches = t.searches
        /\ u.rewrites = t.rewrites
        /\ u.accepted = t.accepted /\ u.approved = t.approved /\ u.draft = t.draft
    BY DEF Good, Sound, Memory
  <2> HIDE DEF u
  <2>3. Good(u, chunks) /\ Same(t, u)
    BY <2>2 DEF Good, Sound, Fits, Poised, Vouched, Same, Registered, Eligible, Agent
  <2> QED
    BY <2>1, <2>2, <2>3 DEF Follows, Live, Calling, Asking
<1> QED
  BY <1>1, <1>2

LEMMA HeardStep ==
  ASSUME NEW chunks, NEW t, Good(t, chunks), t.at \in Asking, NEW said, Sayable(t, said)
  PROVE  \/ Heard(t, said) = Failed
         \/ Follows(t, Heard(t, said), chunks \cup Heard(t, said).approved)
<1>1. CASE said.say = "unavailable"
  <2> DEFINE broken == IF t.at \in {"supervisor", "repair"} THEN Failed
                       ELSE IF t.at = "work" THEN Done(t) ELSE Settled(t)
  <2>1. Heard(t, said) = Unavailable(t, broken)
    BY <1>1 DEF Heard
  <2>2. broken = Failed \/ Follows(t, broken, chunks)
    <3>1. CASE t.at \notin {"supervisor", "repair"}
      <4>1. Ending(t, chunks)
        BY <3>1, MayEnd DEF Asking, InDelegation
      <4> QED
        BY <3>1, <4>1, DoneStep, SettledStep
    <3> QED
      BY <3>1
  <2> HIDE DEF broken
  <2>3. Unavailable(t, broken) = Failed \/ Follows(t, Unavailable(t, broken), chunks)
    BY <2>2, UnavailableStep
  <2> QED
    BY <2>1, <2>3, MoreChunks
<1>2. CASE said.say # "unavailable" /\ t.at = "supervisor"
  <2>1. Heard(t, said) = Supervised(t, said)
    BY <1>2 DEF Heard
  <2>2. Supervised(t, said) = Failed \/ Follows(t, Supervised(t, said), chunks)
    BY <1>2, SupervisedStep DEF Sayable
  <2> QED
    BY <2>1, <2>2, MoreChunks
<1>3. CASE said.say # "unavailable" /\ t.at = "repair"
  <2>1. Heard(t, said) = Finalize(t, said, FALSE)
    BY <1>3 DEF Heard
  <2>2. Finalize(t, said, FALSE) = Failed \/ Follows(t, Finalize(t, said, FALSE), chunks)
    BY <1>3, FinalizeStep
  <2> QED
    BY <2>1, <2>2, MoreChunks
<1>4. CASE said.say # "unavailable" /\ t.at = "plan"
  <2>1. Heard(t, said) = Planned(t, said)
    BY <1>4 DEF Heard
  <2>2. Follows(t, Planned(t, said), chunks)
    BY <1>4, PlannedStep
  <2> QED
    BY <2>1, <2>2, MoreChunks
<1>5. CASE said.say # "unavailable" /\ t.at = "grade"
  <2>1. Heard(t, said) = Graded(t, said)
    BY <1>5 DEF Heard
  <2> QED
    BY <1>5, <2>1, GradedStep DEF Sayable
<1>6. CASE said.say # "unavailable" /\ t.at = "rewriter"
  <2>1. Heard(t, said) = Rewritten(t, said)
    BY <1>6 DEF Heard
  <2>2. Follows(t, Rewritten(t, said), chunks)
    BY <1>6, RewrittenStep
  <2> QED
    BY <2>1, <2>2, MoreChunks
<1>7. CASE said.say # "unavailable" /\ t.at = "work"
  <2>1. Heard(t, said) = Reported(t, said)
    BY <1>7 DEF Heard
  <2>2. Follows(t, Reported(t, said), chunks)
    BY <1>7, ReportedStep DEF Sayable
  <2> QED
    BY <2>1, <2>2, MoreChunks
<1> QED
  BY <1>1, <1>2, <1>3, <1>4, <1>5, <1>6, <1>7 DEF Asking

\* One more call of a model is counted.
LEMMA CalledStep ==
  ASSUME NEW chunks, NEW t, Good(t, chunks), t.at \in Asking, ~Exhausted(t)
  PROVE  LET called == [t EXCEPT !.calls = @ + 1]
         IN /\ Good(called, chunks) /\ called.at = t.at /\ called.calls = t.calls + 1
            /\ called.requests = t.requests /\ called.searches = t.searches
            /\ called.fallback = t.fallback /\ called.calls <= MaxModelCalls
            /\ called.todo = t.todo /\ called.entries = t.entries /\ called.found = t.found
            /\ called = [t EXCEPT !.calls = called.calls, !.fallback = called.fallback]
<1>1. t \in Memory /\ t.calls \in Nat /\ t.calls + 1 \in Nat /\ MaxModelCalls \in Nat
  BY MemoryFields, TurnAssumption DEF Good, Sound
<1>2. t.calls + 1 <= MaxModelCalls
  BY <1>1 DEF Exhausted
<1> DEFINE more == t.calls + 1
           u == [t EXCEPT !.calls = more]
<1> HIDE DEF more
<1>3. /\ u \in Memory /\ u.at = t.at /\ u.todo = t.todo /\ u.call = t.call
      /\ u.entries = t.entries /\ u.excluded = t.excluded /\ u.queries = t.queries
      /\ u.calls = more /\ u.requests = t.requests /\ u.searches = t.searches
      /\ u.rewrites = t.rewrites /\ u.fallback = t.fallback /\ u.found = t.found
      /\ u.accepted = t.accepted /\ u.approved = t.approved /\ u.draft = t.draft
  BY <1>1 DEF Memory, more
<1>4. u = [t EXCEPT !.calls = u.calls, !.fallback = u.fallback]
  BY <1>1, <1>3 DEF Memory
<1>5. [t EXCEPT !.calls = @ + 1] = u
  BY DEF more
<1> HIDE DEF u
<1>6. Good(u, chunks)
  BY <1>2, <1>3 DEF more, Good, Sound, Fits, Poised, Vouched, Registered, Eligible, Agent
<1> QED
  BY <1>2, <1>3, <1>4, <1>5, <1>6 DEF more

-----------------------------------------------------------------------------
(* Calls of tools.                                                         *)

\* What tools return is finite, and comes from the kind of source they read.
LEMMA Getting ==
  ASSUME NEW t \in Memory, t.at = "search" => t.call = "none",
         NEW got \in Gets(t), got # {"failed"}
  PROVE  /\ got \in SUBSET Sources /\ IsFiniteSet(got)
         /\ ~Searching(t) => got \cap Chunks = {}
<1>1. Searching(t) => got \in SUBSET Chunks
  <2> SUFFICES ASSUME Searching(t) PROVE got \in SUBSET Chunks
    OBVIOUS
  <2>1. Gets(t) = (SUBSET Chunks) \cup {{"failed"}}
    <3>1. t.call \in {"none", "search_knowledge"}
      BY DEF Searching
    <3> QED
      BY <3>1 DEF Gets
  <2> QED
    BY <2>1
<1>2. ~Searching(t) => got \in SUBSET Others
  BY DEF Gets, Others
<1>3. IsFiniteSet(Chunks) /\ Chunks \cap Others = {}
  BY TurnAssumption
<1>4. IsFiniteSet(Others)
  <2>1. Others = {"memory"} \cup {"web"} \cup {"sql"} \cup {"tool"}
    BY DEF Others
  <2> QED
    BY <2>1, FS_Singleton, FS_Union
<1>5. got \in SUBSET Chunks \/ got \in SUBSET Others
  BY <1>1, <1>2
<1> QED
  BY <1>2, <1>3, <1>4, <1>5, FS_Subset DEF Sources

LEMMA SearchesChunks ==
  ASSUME NEW t, t.at = "search", t.call = "none", NEW got \in Gets(t)
  PROVE  got \subseteq Chunks \/ got = {"failed"}
BY DEF Gets, Searching

\* A tool registers what it found and counts; the rest is as it was.
UsedFor(t, got, u) ==
  /\ u \in Memory /\ Fits(u)
  /\ \E new \in Seq(Sources) : u = [t EXCEPT !.entries = new, !.searches = u.searches,
                                             !.cached = u.cached, !.schema = u.schema]
  /\ u.at = t.at /\ u.todo = t.todo /\ u.call = t.call /\ u.excluded = t.excluded
  /\ u.calls = t.calls /\ u.requests = t.requests /\ u.rewrites = t.rewrites
  /\ u.accepted = t.accepted /\ u.approved = t.approved /\ u.draft = t.draft
  /\ u.queries = t.queries
  /\ Registered(u) \subseteq Registered(t) \cup (IF got = {"failed"} THEN {} ELSE got)

LEMMA UsedStep ==
  ASSUME NEW t \in Memory, Fits(t), t.at = "search" => t.call = "none", NEW got \in Gets(t),
         Searching(t) => t.searches < MaxSearches, NEW u, u = Used(t, got)
  PROVE  UsedFor(t, got, u)
<1> DEFINE new == IF got = {"failed"} THEN t.entries ELSE AddAll(t.entries, got)
           searches == t.searches + (IF Searching(t) THEN 1 ELSE 0)
           cached == t.cached \/ (t.call = "search_web" /\ got # {"failed"})
           schema == t.schema \/ (t.call = "describe_sql_schema" /\ got # {"failed"})
<1>1. u = [t EXCEPT !.entries = new, !.searches = searches, !.cached = cached, !.schema = schema]
  BY DEF Used
<1>2. /\ new \in Seq(Sources) /\ IsInjective(new) /\ Len(new) <= MaxSources
      /\ ToSet(t.entries) \subseteq ToSet(new)
      /\ ToSet(new) \subseteq ToSet(t.entries) \cup (IF got = {"failed"} THEN {} ELSE got)
  <2>1. t.entries \in Seq(Sources) /\ IsInjective(t.entries) /\ Len(t.entries) <= MaxSources
    BY MemoryFields DEF Fits
  <2>2. CASE got = {"failed"}
    BY <2>1, <2>2
  <2>3. CASE got # {"failed"}
    <3>1. got \in SUBSET Sources /\ IsFiniteSet(got)
      BY <2>3, Getting
    <3>2. new = AddAll(t.entries, got)
      BY <2>3
    <3> HIDE DEF new
    <3> QED
      BY <2>1, <2>3, <3>1, <3>2, Registering
  <2> QED
    BY <2>2, <2>3
<1> HIDE DEF new
<1>3. searches \in Nat /\ searches <= MaxSearches
  <2>1. t.searches \in Nat /\ t.searches <= MaxSearches /\ MaxSearches \in Nat
    BY MemoryFields, TurnAssumption DEF Fits
  <2> QED
    BY <2>1
<1> HIDE DEF searches
<1>4. cached \in BOOLEAN /\ schema \in BOOLEAN
  OBVIOUS
<1> HIDE DEF cached, schema
<1>5. /\ u \in Memory /\ u.entries = new /\ u.searches = searches
      /\ u.cached = cached /\ u.schema = schema
      /\ u.at = t.at /\ u.todo = t.todo /\ u.call = t.call /\ u.excluded = t.excluded
      /\ u.calls = t.calls /\ u.requests = t.requests /\ u.rewrites = t.rewrites
      /\ u.accepted = t.accepted /\ u.approved = t.approved /\ u.draft = t.draft
      /\ u.queries = t.queries
  <2>1. new \in Seq(Sources) /\ searches \in Nat /\ cached \in BOOLEAN /\ schema \in BOOLEAN
    BY <1>2, <1>3, <1>4
  <2>2. PutBody(t, new, searches, cached, schema,
                [t EXCEPT !.entries = new, !.searches = searches, !.cached = cached,
                          !.schema = schema])
    BY <2>1, PutsBody, Zenon
  <2>3. PutBody(t, new, searches, cached, schema, u)
    BY <1>1, <2>2, Zenon
  <2> QED
    BY <2>3 DEF PutBody, Beside
<1>6. u = [t EXCEPT !.entries = new, !.searches = u.searches, !.cached = u.cached,
                    !.schema = u.schema]
  BY <1>1, <1>5
<1>7. Fits(u)
  BY <1>2, <1>3, <1>5 DEF Fits, Registered
<1> QED
  BY <1>2, <1>5, <1>6, <1>7 DEF UsedFor, Registered

\* The candidates of a graded search are excluded.
LEMMA RetrievedStep ==
  ASSUME NEW chunks, NEW t, Good(t, chunks), t.at = "search",
         NEW got, got \subseteq Chunks \/ got = {"failed"},
         NEW u \in Memory, Fits(u), u.at = t.at, u.todo = t.todo, u.call = t.call,
         u.excluded = t.excluded, u.accepted = t.accepted, u.approved = t.approved,
         u.draft = t.draft, u.queries = t.queries,
         Registered(u) \subseteq Registered(t) \cup (IF got = {"failed"} THEN {} ELSE got)
  PROVE  Follows(u, Retrieved(u, got), chunks)
<1> DEFINE hits == Found(u, got)
           left == u.queries - 1
           all == u.found \cup hits
           out == u.excluded \cup (hits \ u.accepted)
           now == [u EXCEPT !.found = all, !.queries = left, !.excluded = out]
<1>1. now = [u EXCEPT !.found = @ \cup Found(u, got), !.queries = @ - 1,
                      !.excluded = @ \cup (Found(u, got) \ u.accepted)]
  OBVIOUS
<1>2. /\ hits \subseteq Chunks /\ hits \subseteq Registered(u)
      /\ Registered(u) \subseteq Registered(t) \cup hits
  <2>1. CASE got = {"failed"}
    BY <2>1 DEF Found
  <2>2. CASE got # {"failed"}
    <3>1. hits = got \cap Registered(u) /\ got \subseteq Chunks
      BY <2>2 DEF Found
    <3> QED
      BY <2>2, <3>1
  <2> QED
    BY <2>1, <2>2
<1>3. left \in Nat
  <2>1. u.queries \in Nat /\ u.queries > 0
    BY MemoryFields DEF Good, Sound, Poised
  <2> QED
    BY <2>1
<1>4. all \in SUBSET Chunks /\ out \in SUBSET Sources /\ out \subseteq Registered(u)
  BY <1>2, MemoryFields, RegisteredSources DEF Fits
<1> HIDE DEF hits, left
<1>5. u.todo # <<>> /\ u.call = "none" /\ Vouched(t, chunks)
  BY DEF Good, Sound, Poised, InDelegation
<1>6. Chunks \cap ((Registered(u) \ out) \cup u.accepted)
        \subseteq Chunks \cap (Eligible(t) \cup t.accepted)
  BY <1>2 DEF Eligible
<1> HIDE DEF all, out
<1>7. /\ now \in Memory /\ now.at = u.at
      /\ now.found = all /\ now.queries = left /\ now.excluded = out
      /\ now.todo = u.todo /\ now.call = u.call /\ now.entries = u.entries
      /\ now.calls = u.calls /\ now.requests = u.requests /\ now.searches = u.searches
      /\ now.rewrites = u.rewrites
      /\ now.accepted = u.accepted /\ now.approved = u.approved /\ now.draft = u.draft
  BY <1>3, <1>4 DEF Memory
<1>8. Retrieved(u, got) = IF got = {"failed"} THEN Settled(now)
                          ELSE IF now.queries > 0 THEN now
                          ELSE IF now.found = {} THEN Settled(now)
                          ELSE [now EXCEPT !.at = "grade"]
  BY <1>1 DEF Retrieved
<1> HIDE DEF now
<1>9. Fits(now) /\ Same(u, now) /\ Registered(now) = Registered(u)
  BY <1>4, <1>7 DEF Fits, Same, Registered
<1>10. Vouched(now, chunks)
  BY <1>5, <1>6, <1>7, <1>9 DEF Vouched, Eligible
<1>11. Ending(now, chunks)
  BY <1>5, <1>7, <1>9, <1>10 DEF Ending
<1>12. Follows(now, Settled(now), chunks)
  BY <1>11, SettledStep
<1>13. CASE now.queries > 0
  <2>1. Poised(now)
    BY <1>5, <1>7, <1>13 DEF Poised
  <2>2. Follows(now, now, chunks)
    BY <1>7, <1>9, <1>10, <2>1 DEF Follows, Good, Sound, Same, Live, Calling
  <2> QED
    BY <1>8, <1>9, <1>12, <1>13, <2>2 DEF Follows, Same
<1>14. CASE ~(now.queries > 0)
  <2> DEFINE v == [now EXCEPT !.at = "grade"]
  <2>1. /\ v \in Memory /\ v.at = "grade" /\ v.todo = now.todo /\ v.call = now.call
        /\ v.entries = now.entries /\ v.excluded = now.excluded
        /\ v.calls = now.calls /\ v.requests = now.requests /\ v.searches = now.searches
        /\ v.rewrites = now.rewrites
        /\ v.accepted = now.accepted /\ v.approved = now.approved /\ v.draft = now.draft
    BY <1>7 DEF Memory, Places
  <2>2. Retrieved(u, got) = Settled(now) \/ Retrieved(u, got) = v
    BY <1>8, <1>14
  <2> HIDE DEF v
  <2>3. Fits(v) /\ Vouched(v, chunks) /\ Same(now, v)
    BY <1>9, <1>10, <2>1 DEF Fits, Vouched, Same, Registered, Eligible
  <2>4. Poised(v)
    BY <1>5, <1>7, <2>1 DEF Poised
  <2>5. Follows(now, v, chunks)
    BY <2>1, <2>3, <2>4 DEF Follows, Good, Sound, Live, Calling, Asking
  <2> QED
    BY <1>9, <1>12, <2>2, <2>5 DEF Follows, Same
<1> QED
  BY <1>13, <1>14

\* A call of a tool that was made, and its receipt read again.
LEMMA ToolStep ==
  ASSUME NEW chunks, NEW t, Good(t, chunks), t.at \in {"search", "tool"},
         t.requests < MaxToolCalls, Searching(t) => t.searches < MaxSearches, NEW got \in Gets(t)
  PROVE  LET asked == [t EXCEPT !.requests = @ + 1]
             done == Used(asked, got)
             u == Received(done, got)
         IN /\ Good(u, chunks) /\ u.at \in Live \ {"recall"}
            /\ u.calls = t.calls /\ u.requests = t.requests + 1 /\ u.searches = done.searches
            /\ done.searches \in Nat /\ done.searches <= MaxSearches
            /\ u.requests <= MaxToolCalls
            /\ done \in Memory /\ RestoreBody(asked, Body(done)) = done
<1>1. /\ t \in Memory /\ Fits(t) /\ Poised(t) /\ Vouched(t, chunks)
      /\ t.requests \in Nat /\ t.requests + 1 \in Nat /\ t.requests + 1 <= MaxToolCalls
  <2>1. t \in Memory /\ Fits(t) /\ Poised(t) /\ Vouched(t, chunks)
    BY DEF Good, Sound
  <2>2. t.requests \in Nat /\ MaxToolCalls \in Nat
    BY <2>1, MemoryFields, TurnAssumption
  <2> QED
    BY <2>1, <2>2
<1> DEFINE more == t.requests + 1
           asked == [t EXCEPT !.requests = more]
           done == Used(asked, got)
           u == Received(done, got)
<1>2. more \in Nat /\ more <= MaxToolCalls
  BY <1>1
<1> HIDE DEF more
<1>3. /\ asked \in Memory /\ asked.at = t.at /\ asked.todo = t.todo /\ asked.call = t.call
      /\ asked.entries = t.entries /\ asked.excluded = t.excluded
      /\ asked.cached = t.cached /\ asked.schema = t.schema
      /\ asked.calls = t.calls /\ asked.requests = more /\ asked.searches = t.searches
      /\ asked.rewrites = t.rewrites /\ asked.queries = t.queries
      /\ asked.accepted = t.accepted /\ asked.approved = t.approved /\ asked.draft = t.draft
  BY <1>1, <1>2 DEF Memory
<1> HIDE DEF asked
<1>4. /\ Fits(asked) /\ got \in Gets(asked) /\ Searching(asked) = Searching(t)
      /\ Registered(asked) = Registered(t)
  BY <1>1, <1>2, <1>3 DEF Fits, Gets, Searching, Registered
<1>5. asked.at = "search" => asked.call = "none"
  BY <1>1, <1>3 DEF Poised
<1>6. /\ done \in Memory /\ Fits(done)
      /\ \E new \in Seq(Sources) : done = [asked EXCEPT !.entries = new, !.searches = done.searches,
                                                        !.cached = done.cached, !.schema = done.schema]
      /\ done.at = asked.at /\ done.todo = asked.todo /\ done.call = asked.call
      /\ done.excluded = asked.excluded
      /\ done.calls = asked.calls /\ done.requests = asked.requests /\ done.rewrites = asked.rewrites
      /\ done.accepted = asked.accepted /\ done.approved = asked.approved /\ done.draft = asked.draft
      /\ done.queries = asked.queries
      /\ Registered(done) \subseteq Registered(t) \cup (IF got = {"failed"} THEN {} ELSE got)
  <2>1. Searching(asked) => asked.searches < MaxSearches
    BY <1>3, <1>4
  <2> HIDE DEF done
  <2>2. done = Used(asked, got)
    BY DEF done
  <2>3. asked \in Memory /\ Fits(asked) /\ got \in Gets(asked)
    BY <1>3, <1>4
  <2>4. UsedFor(asked, got, done)
    BY <1>5, <2>1, <2>2, <2>3, UsedStep
  <2> QED
    BY <1>4, <2>4 DEF UsedFor
<1> HIDE DEF done
<1>7. RestoreBody(asked, Body(done)) = done
  <2>1. PICK new \in Seq(Sources) :
          done = [asked EXCEPT !.entries = new, !.searches = done.searches,
                               !.cached = done.cached, !.schema = done.schema]
    BY <1>6
  <2>2. done.entries = new
    BY <1>3, <2>1 DEF Memory
  <2> DEFINE v == [asked EXCEPT !.entries = new, !.excluded = done.excluded, !.searches = done.searches,
                                !.cached = done.cached, !.schema = done.schema]
  <2>3. RestoreBody(asked, Body(done)) = v
    BY <2>2 DEF RestoreBody, Body
  <2>4. v = [asked EXCEPT !.entries = new, !.searches = done.searches,
                          !.cached = done.cached, !.schema = done.schema]
    <3>1. [asked EXCEPT !.entries = new, !.excluded = asked.excluded, !.searches = done.searches,
                        !.cached = done.cached, !.schema = done.schema]
            = [asked EXCEPT !.entries = new, !.searches = done.searches,
                            !.cached = done.cached, !.schema = done.schema]
      BY <1>3, SameExcluded, Zenon
    <3> QED
      BY <1>6, <3>1
  <2> QED
    BY <2>1, <2>3, <2>4
<1>8. done.searches \in Nat /\ done.searches <= MaxSearches
  BY <1>6, MemoryFields DEF Fits
<1>9. /\ Good(u, chunks) /\ u.at \in Live \ {"recall"}
      /\ u.calls = t.calls /\ u.requests = more /\ u.searches = done.searches
  <2>1. CASE t.at = "search"
    <3>1. u = Retrieved(done, got)
      BY <1>3, <1>6, <2>1 DEF Received
    <3>2. got \subseteq Chunks \/ got = {"failed"}
      BY <1>3, <1>4, <1>5, <2>1, Getting, TurnAssumption, SearchesChunks
    <3>3. /\ done \in Memory /\ Fits(done) /\ done.at = t.at /\ done.todo = t.todo
          /\ done.call = t.call /\ done.excluded = t.excluded /\ done.accepted = t.accepted
          /\ done.approved = t.approved /\ done.draft = t.draft /\ done.queries = t.queries
      BY <1>3, <1>6
    <3>4. Follows(done, u, chunks)
      <4>1. Registered(done) \subseteq Registered(t) \cup (IF got = {"failed"} THEN {} ELSE got)
        BY <1>6
      <4>2. Follows(done, Retrieved(done, got), chunks)
        BY <2>1, <3>2, <3>3, <4>1, RetrievedStep, Zenon
      <4> QED
        BY <3>1, <4>2
    <3> QED
      BY <1>3, <1>6, <3>4 DEF Follows, Same
  <2>2. CASE t.at = "tool"
    <3>1. u = [done EXCEPT !.at = "work", !.call = "none"]
      BY <1>3, <1>6, <2>2 DEF Received
    <3>2. /\ u \in Memory /\ u.at = "work" /\ u.call = "none" /\ u.todo = done.todo
          /\ u.entries = done.entries /\ u.excluded = done.excluded
          /\ u.calls = done.calls /\ u.requests = done.requests /\ u.searches = done.searches
          /\ u.rewrites = done.rewrites
          /\ u.accepted = done.accepted /\ u.approved = done.approved /\ u.draft = done.draft
      <4>1. PutAt(done, "work", "none", u)
        BY <1>6, <3>1, PutsBack, Zenon
      <4> QED
        BY <4>1 DEF PutAt, Beside
    <3> HIDE DEF u
    <3>3. Fits(u) /\ Registered(u) = Registered(done)
      BY <1>6, <3>2 DEF Fits, Registered
    <3>4. Poised(u)
      BY <1>1, <1>3, <1>6, <2>2, <3>2 DEF Poised, Agent, InDelegation
    <3>5. context.quality => ~Searching(asked)
      BY <1>1, <1>4, <2>2 DEF Poised, ToolsOf, Searching
    <3>6. context.quality /\ got # {"failed"} => got \cap Chunks = {}
      BY <1>3, <1>4, <1>5, <3>5, Getting
    <3>7. Vouched(u, chunks)
      BY <1>1, <1>3, <1>6, <3>2, <3>3, <3>6 DEF Vouched, Eligible
    <3> QED
      BY <1>3, <1>6, <3>2, <3>3, <3>4, <3>7 DEF Good, Sound, Live, Calling, Asking
  <2> QED
    BY <2>1, <2>2
<1>10. asked = [t EXCEPT !.requests = @ + 1]
  BY DEF asked, more
<1> HIDE DEF u
<1> QED
  BY <1>2, <1>6, <1>7, <1>8, <1>9, <1>10 DEF more, done, u

\* A specialist begins.
LEMMA DelegatedStep ==
  ASSUME NEW chunks, NEW t, Good(t, chunks), t.at = "delegate"
  PROVE  /\ Delegated(t).at \in {"plan", "work"} /\ Good(Delegated(t), chunks)
         /\ Same(t, Delegated(t))
<1> DEFINE a == Agent(t)
           graded_rag == a = "rag" /\ context.quality
           at == IF graded_rag THEN "plan" ELSE "work"
           known == t.known \/ graded_rag
           delegated == [t.delegated EXCEPT ![a] = @ + (IF a = "public" THEN 0 ELSE 1)]
           u == [t EXCEPT !.at = at, !.known = known, !.delegated = delegated,
                          !.accepted = Eligible(t), !.found = {}, !.approved = {}, !.queries = 0,
                          !.rewritten = FALSE]
<1>1. t \in Memory /\ Fits(t) /\ Vouched(t, chunks) /\ t.todo # <<>> /\ t.call = "none"
  BY DEF Good, Sound, Poised, InDelegation
<1>2. /\ at \in {"plan", "work"} /\ at \in Places /\ known \in BOOLEAN
      /\ context.quality /\ at = "work" => a # "rag"
  BY DEF Places
<1>3. delegated \in [Agents -> Nat]
  <2>1. t.delegated \in [Agents -> Nat]
    BY <1>1, MemoryFields
  <2>2. a \in Agents
    <3>1. t.todo \in Seq(Agents)
      BY <1>1, MemoryFields
    <3> QED
      BY <1>1, <3>1, HeadTailProperties DEF Agent
  <2>3. t.delegated[a] + (IF a = "public" THEN 0 ELSE 1) \in Nat
    BY <2>1, <2>2
  <2> HIDE DEF a
  <2> QED
    BY <2>1, <2>2, <2>3
<1>4. Eligible(t) \in SUBSET Sources
  BY <1>1, RegisteredSources DEF Eligible
<1>5. Delegated(t) = u
  BY <1>1, MemoryFields DEF Delegated
<1> HIDE DEF at, known, delegated
<1>6. /\ u \in Memory /\ u.at = at /\ u.todo = t.todo /\ u.call = t.call
      /\ u.entries = t.entries /\ u.excluded = t.excluded
      /\ u.calls = t.calls /\ u.requests = t.requests /\ u.searches = t.searches
      /\ u.rewrites = t.rewrites
      /\ u.accepted = Eligible(t) /\ u.approved = {} /\ u.draft = t.draft
  BY <1>1, <1>2, <1>3, <1>4 DEF Memory
<1> HIDE DEF u
<1>7. Fits(u) /\ Vouched(u, chunks) /\ Same(t, u)
  BY <1>1, <1>6 DEF Fits, Vouched, Same, Registered, Eligible
<1>8. Poised(u)
  BY <1>1, <1>2, <1>6 DEF Poised, InDelegation, Agent
<1> QED
  BY <1>2, <1>5, <1>6, <1>7, <1>8 DEF Good, Sound

-----------------------------------------------------------------------------
(* The memories of a round.                                                *)

LEMMA ReadyStep ==
  ASSUME NEW chunks, NEW t, Good(t, chunks)
  PROVE  /\ Good(Ready(t), chunks) /\ Same(t, Ready(t))
         /\ t.at # "delegate" => Ready(t) = t
         /\ t.at = "delegate" => Ready(t).at \in {"plan", "work"}
BY DelegatedStep DEF Ready, Same

\* While the request is frozen, a receipt means the same.
LEMMA Frozen ==
  ASSUME context' = context, NEW t, NEW r, NEW chunks
  PROVE  /\ Ready(t)' = Ready(t) /\ After(t, r)' = After(t, r)
         /\ Good(t, chunks)' <=> Good(t, chunks)
<1>1. \A u, kind, cites : Acceptable(u, kind, cites)' <=> Acceptable(u, kind, cites)
  BY DEF Acceptable
<1>2. \A u, said, again : Finalize(u, said, again)' = Finalize(u, said, again)
  BY <1>1 DEF Finalize
<1>3. \A u, said : Supervised(u, said)' = Supervised(u, said)
  BY <1>2 DEF Supervised
<1>4. \A u, said : Heard(u, said)' = Heard(u, said)
  <2> DEFINE By(u, said, supervised, repaired) ==
               IF said.say = "unavailable"
               THEN Unavailable(u, IF u.at \in {"supervisor", "repair"} THEN Failed
                                   ELSE IF u.at = "work" THEN Done(u) ELSE Settled(u))
               ELSE CASE u.at = "supervisor" -> supervised
                      [] u.at = "repair" -> repaired
                      [] u.at = "plan" -> Planned(u, said)
                      [] u.at = "grade" -> Graded(u, said)
                      [] u.at = "rewriter" -> Rewritten(u, said)
                      [] u.at = "work" -> Reported(u, said)
  <2> TAKE u, said
  <2>1. Heard(u, said) = By(u, said, Supervised(u, said), Finalize(u, said, FALSE))
    BY Zenon DEF Heard
  <2>2. Heard(u, said)' = By(u, said, Supervised(u, said)', Finalize(u, said, FALSE)')
    BY Zenon DEF Heard
  <2> HIDE DEF By
  <2> QED
    BY <1>2, <1>3, <2>1, <2>2
<1>5. After(t, r)' = After(t, r)
  BY <1>4 DEF After
<1>6. Ready(t)' = Ready(t)
  BY DEF Ready, Delegated
<1>7. Good(t, chunks)' <=> Good(t, chunks)
  BY DEF Good, Sound, Poised, Vouched
<1> QED
  BY <1>5, <1>6, <1>7

LEMMA GoodGrows ==
  ASSUME NEW chunks, NEW more, chunks \subseteq more, NEW t, Good(t, chunks)
  PROVE  Good(t, more)
BY DEF Good, Vouched

\* Where a process is in its round.
Round(tr) == Typed /\ tr \in [Nat -> Memory] /\ Chain(tr) /\ Abreast(tr)

LEMMA Here ==
  ASSUME NEW tr, Round(tr), turn.at \in Live
  PROVE  /\ turn \in {tr[pos], Ready(tr[pos])}
         /\ turn.at # "delegate" => turn = Ready(tr[pos])
         /\ turn.at = "delegate" => turn = tr[pos]
         /\ turn.at = "recall" => pos = 0
         /\ pos \in Nat /\ Len(log) \in Nat /\ pos <= Len(log)
         /\ pos = Len(log) => spent = Counted(turn)
         /\ turn.at = "publish" => pos = Len(log)
         /\ turn.at \in Calling /\ pos # Len(log) =>
              /\ tr[pos + 1] = After(turn, log[pos + 1]) /\ pos + 1 <= Len(log)
              /\ Good(tr[pos + 1], graded) /\ tr[pos + 1].at \in Live
              /\ pos + 1 = Len(log) => tr[pos + 1] = front
<1>1. pos \in Nat /\ Len(log) \in Nat /\ pos <= Len(log) /\ pos \in 0..Len(log)
  BY LenProperties DEF Round, Typed
<1>2. turn \in {tr[pos], Ready(tr[pos])}
  BY DEF Round, Abreast, Live, Calling, Asking
<1>3. Good(tr[pos], graded) /\ (tr[pos].at = "recall" => pos = 0)
  BY <1>1 DEF Round, Chain
<1>4. /\ tr[pos].at # "delegate" => Ready(tr[pos]) = tr[pos]
      /\ tr[pos].at = "delegate" => Ready(tr[pos]).at \in {"plan", "work"}
      /\ Same(tr[pos], Ready(tr[pos]))
  BY <1>3, ReadyStep
<1>5. /\ turn.at # "delegate" => turn = Ready(tr[pos])
      /\ turn.at = "delegate" => turn = tr[pos]
      /\ turn.at = "recall" => pos = 0
  BY <1>2, <1>3, <1>4
<1>6. pos = Len(log) => spent = Counted(turn)
  BY <1>2, <1>4 DEF Round, Chain, Counted, Same
<1>7. pos # Len(log) => /\ Ready(tr[pos]).at \in Calling
                        /\ tr[pos + 1] = After(Ready(tr[pos]), log[pos + 1])
  BY <1>1 DEF Round, Chain
<1>8. turn.at = "publish" => pos = Len(log)
  BY <1>5, <1>7 DEF Calling, Asking
<1>9. pos # Len(log) => /\ pos + 1 \in 0..Len(log) /\ pos + 1 <= Len(log)
                        /\ pos + 1 = Len(log) => log # <<>>
  <2>1. log = <<>> => Len(log) = 0
    BY EmptySeq
  <2> QED
    BY <1>1, <2>1
<1>10. pos # Len(log) => /\ Good(tr[pos + 1], graded) /\ tr[pos + 1].at \in Live
                         /\ pos + 1 = Len(log) => tr[pos + 1] = front
  BY <1>9 DEF Round, Chain
<1>11. turn.at \in Calling => turn.at # "delegate"
  BY DEF Calling, Asking
<1> QED
  BY <1>1, <1>2, <1>5, <1>6, <1>7, <1>8, <1>9, <1>10, <1>11

\* The round so far is not touched.
LEMMA ChainKept ==
  ASSUME NEW tr, Round(tr), UNCHANGED <<context, saved, log, spent, front>>, graded \subseteq graded'
  PROVE  Chain(tr)'
<1>1. First' = First
  BY DEF First
<1>2. ASSUME NEW i \in 0..Len(log)
      PROVE  /\ Good(tr[i], graded)' /\ tr[i].at \in Live /\ (tr[i].at = "recall" => i = 0)
             /\ i # Len(log) =>
                  Ready(tr[i])'.at \in Calling /\ tr[i + 1] = After(Ready(tr[i]), log[i + 1])'
  <2>1. /\ Good(tr[i], graded) /\ tr[i].at \in Live /\ (tr[i].at = "recall" => i = 0)
        /\ i # Len(log) =>
             Ready(tr[i]).at \in Calling /\ tr[i + 1] = After(Ready(tr[i]), log[i + 1])
    BY DEF Round, Chain
  <2>2. Ready(tr[i])' = Ready(tr[i])
    BY Frozen
  <2>3. PICK t, r, chunks : t = Ready(tr[i]) /\ r = log[i + 1] /\ chunks = graded'
    OBVIOUS
  <2>4. After(t, r)' = After(t, r)
    BY Frozen
  <2>5. Good(tr[i], chunks)' /\ chunks = graded'
    <3>1. Good(tr[i], chunks)
      BY <2>1, <2>3, GoodGrows
    <3> QED
      BY <2>3, <3>1, Frozen
  <2> QED
    BY <2>1, <2>2, <2>3, <2>4, <2>5
<1>3. Counted(tr[Len(log)])' = Counted(tr[Len(log)])
  BY DEF Counted
<1> QED
  BY <1>1, <1>2, <1>3 DEF Round, Chain

\* A receipt that is read again leads where the call led.
LEMMA ReplayStep ==
  ASSUME NEW tr, Round(tr), turn.at \in Calling, pos # Len(log),
         UNCHANGED <<context, saved, log, spent, front>>, graded \subseteq graded',
         turn' = After(turn, log[pos + 1]), pos' = pos + 1
  PROVE  /\ Chain(tr)' /\ Abreast(tr)' /\ Good(turn, graded)' /\ turn'.at \in Live
         /\ pos' \in 0..Len(log)'
         /\ pos' = Len(log)' => turn' = front
<1>1. turn.at \in Live
  BY DEF Live
<1>2. /\ tr[pos + 1] = After(turn, log[pos + 1]) /\ pos + 1 <= Len(log)
      /\ Good(tr[pos + 1], graded) /\ tr[pos + 1].at \in Live
      /\ pos + 1 = Len(log) => tr[pos + 1] = front
      /\ pos \in Nat /\ Len(log) \in Nat
  BY <1>1, Here
<1>3. turn' = tr[pos'] /\ turn' = tr[pos + 1]
  BY <1>2
<1>4. PICK t, chunks : t = turn' /\ chunks = graded'
  OBVIOUS
<1>5. Good(t, chunks)'
  <2>1. Good(t, chunks)
    BY <1>2, <1>3, <1>4, GoodGrows
  <2> QED
    BY <2>1, Frozen
<1>6. Good(turn, graded)'
  BY <1>4, <1>5
<1>7. Abreast(tr)'
  BY <1>3 DEF Abreast
<1> QED
  BY <1>2, <1>3, <1>6, <1>7, ChainKept

\* A call that is made adds a memory to the round.
LEMMA CallStep ==
  ASSUME NEW tr, Round(tr), turn.at \in Calling, pos = Len(log),
         UNCHANGED <<context, saved>>, graded \subseteq graded',
         NEW r \in Receipt, log' = Append(log, r), pos' = pos + 1,
         NEW u, turn' = u, u = After(turn, r), Good(u, graded'), u.at \in Live \ {"recall"},
         spent' = Counted(u), front' = u
  PROVE  /\ log' \in Seq(Receipt) /\ pos' \in 0..Len(log') /\ Good(turn, graded)'
         /\ \E s \in [Nat -> Memory] : Chain(s)' /\ Abreast(s)'
<1>0. PICK n \in Nat : n = Len(log)
  BY LenProperties DEF Round, Typed
<1>1. log \in Seq(Receipt) /\ n = Len(log) /\ turn.at \in Live /\ tr \in [Nat -> Memory]
  BY <1>0 DEF Round, Typed, Live
<1>2. /\ log' \in Seq(Receipt) /\ Len(log') = n + 1 /\ log' # <<>>
      /\ \A i \in 1..n : log'[i] = log[i]
      /\ log'[n + 1] = r
  BY <1>1, AppendProperties
<1>3. turn = Ready(tr[n])
  BY <1>1, Here DEF Calling, Asking
<1>4. PICK chunks : chunks = graded'
  OBVIOUS
<1>5. u \in Memory
  BY DEF Good, Sound
<1>6. PICK s \in [Nat -> Memory] : s[n + 1] = u /\ \A i \in 0..n : s[i] = tr[i]
  <2> DEFINE longer == [tr EXCEPT ![n + 1] = u]
  <2>1. longer \in [Nat -> Memory] /\ longer[n + 1] = u /\ \A i \in 0..n : longer[i] = tr[i]
    BY <1>1, <1>5
  <2> HIDE DEF longer
  <2> QED
    BY <2>1
<1>7. s[0] = First'
  <2>1. First' = First
    BY DEF First
  <2> QED
    BY <1>1, <1>6, <2>1 DEF Round, Chain
<1>8. ASSUME NEW i \in 0..(n + 1)
      PROVE  /\ Good(s[i], chunks)' /\ s[i].at \in Live /\ (s[i].at = "recall" => i = 0)
             /\ i # n + 1 => /\ Ready(s[i])'.at \in Calling
                             /\ s[i + 1] = After(Ready(s[i]), log[i + 1])'
  <2>1. CASE i = n + 1
    <3>1. Good(u, chunks)'
      BY <1>4, Frozen
    <3> QED
      BY <1>6, <2>1, <3>1
  <2>2. CASE i # n + 1
    <3>1. i \in 0..n /\ s[i] = tr[i]
      BY <1>1, <1>6, <2>2
    <3>2. Good(tr[i], graded) /\ tr[i].at \in Live /\ (tr[i].at = "recall" => i = 0)
      BY <1>1, <3>1 DEF Round, Chain
    <3>3. Good(tr[i], chunks)'
      BY <1>4, <3>2, GoodGrows, Frozen
    <3>4. Ready(tr[i])' = Ready(tr[i])
      BY Frozen
    <3>5. Ready(tr[i]).at \in Calling /\ s[i + 1] = After(Ready(tr[i]), log'[i + 1])
      <4>1. CASE i = n
        BY <1>2, <1>3, <1>6, <4>1
      <4>2. CASE i # n
        <5>1. i + 1 \in 0..n /\ i + 1 \in 1..n
          BY <1>1, <3>1, <4>2
        <5>2. Ready(tr[i]).at \in Calling /\ tr[i + 1] = After(Ready(tr[i]), log[i + 1])
          BY <1>1, <3>1, <4>2 DEF Round, Chain
        <5> QED
          BY <1>2, <1>6, <5>1, <5>2
      <4> QED
        BY <4>1, <4>2
    <3>6. PICK t, q : t = Ready(tr[i]) /\ q = log'[i + 1]
      OBVIOUS
    <3>7. After(t, q)' = After(t, q)
      BY Frozen
    <3> QED
      BY <3>1, <3>2, <3>3, <3>4, <3>5, <3>6, <3>7
  <2> QED
    BY <2>1, <2>2
<1>9. spent' = Counted(s[n + 1]) /\ Counted(s[n + 1])' = Counted(s[n + 1])
  BY <1>6 DEF Counted
<1>10. Chain(s)'
  BY <1>2, <1>4, <1>6, <1>7, <1>8, <1>9 DEF Chain
<1>11. Abreast(s)'
  <2>1. turn' = s[pos']
    BY <1>1, <1>6
  <2> QED
    BY <2>1 DEF Abreast
<1>12. Good(turn, graded)'
  <2>1. Good(u, chunks)'
    BY <1>4, Frozen
  <2> QED
    BY <1>4, <2>1
<1> QED
  BY <1>1, <1>2, <1>6, <1>10, <1>11, <1>12

LEMMA BlankIsMemory ==
  /\ Blank \in Memory /\ Blank.at = "down" /\ Blank.call = "none"
  /\ Blank.entries = <<>> /\ Blank.excluded = {} /\ Blank.searches = 0 /\ Blank.requests = 0
  /\ Blank.rewrites = 0 /\ Blank.calls = 0
  /\ Blank.accepted = {} /\ Blank.approved = {} /\ Blank.draft = NoAnswer
<1>1. <<>> \in Seq(Agents) /\ <<>> \in Seq(Sources)
  BY EmptySeq
<1>2. NoAnswer \in [kind : Kinds, cites : SUBSET Sources]
  BY DEF NoAnswer, Kinds
<1> DEFINE none == [a \in Agents |-> 0]
<1>3. Blank = [at |-> "down", todo |-> <<>>, call |-> "none",
               entries |-> <<>>, excluded |-> {}, cached |-> FALSE, schema |-> FALSE,
               searches |-> 0, requests |-> 0, rewrites |-> 0, delegated |-> none, known |-> FALSE,
               calls |-> 0, fallback |-> FALSE,
               found |-> {}, accepted |-> {}, approved |-> {}, queries |-> 0, rewritten |-> FALSE,
               draft |-> NoAnswer]
  BY DEF Blank
<1>4. none \in [Agents -> Nat]
  OBVIOUS
<1> HIDE DEF none
<1>5. Blank \in Memory
  BY <1>1, <1>2, <1>3, <1>4 DEF Memory, Places
<1> QED
  BY <1>3, <1>5

\* A memory that has nothing in it yet, or any more.
LEMMA BlankIsGood ==
  ASSUME NEW chunks, NEW at \in {"down", "recall", "paused", "published", "failed"},
         NEW t, t = [Blank EXCEPT !.at = at]
  PROVE  Good(t, chunks) /\ t.at = at /\ Counted(t) = [calls |-> 0, requests |-> 0, searches |-> 0]
<1>1. Len(<<>>) = 0 /\ DOMAIN <<>> = {}
  BY EmptySeq
<1>2. /\ t \in Memory /\ t.at = at
      /\ t.entries = <<>> /\ t.excluded = {} /\ t.searches = 0
      /\ t.requests = 0 /\ t.rewrites = 0 /\ t.calls = 0 /\ t.call = "none"
      /\ t.accepted = {} /\ t.approved = {} /\ t.draft = NoAnswer
  BY BlankIsMemory DEF Memory, Places
<1>3. Fits(t)
  BY <1>1, <1>2, TurnAssumption DEF Fits, IsInjective, Registered, ToSet
<1>4. Poised(t)
  BY <1>2 DEF Poised, InDelegation
<1>5. Vouched(t, chunks)
  BY <1>1, <1>2 DEF Vouched, Eligible, Registered, ToSet, NoAnswer
<1> QED
  BY <1>2, <1>3, <1>4, <1>5 DEF Good, Sound, Counted

\* A Run that fails keeps what it has published and spent.
LEMMA FailedIsGood ==
  ASSUME NEW chunks
  PROVE  Good(Failed, chunks) /\ Failed.at = "failed"
BY BlankIsGood DEF Failed

LEMMA AnswerStays ==
  ASSUME CitationsGraded, UNCHANGED <<context, answer>>, graded \subseteq graded'
  PROVE  CitationsGraded'
BY DEF CitationsGraded

LEMMA FailStep ==
  ASSUME IInv, turn' = Failed, pos' = 0, log' = <<>>, BudgetSpansRun',
         UNCHANGED <<context, answer, rounds>>, faults' \in 0..MaxFaults, graded \subseteq graded'
  PROVE  IInv'
<1>1. Good(turn, graded)'
  <2>1. PICK t, chunks : t = turn' /\ chunks = graded'
    OBVIOUS
  <2>2. Good(t, chunks)'
    BY <2>1, FailedIsGood, Frozen
  <2> QED
    BY <2>1, <2>2
<1>2. turn'.at = "failed"
  BY FailedIsGood
<1>3. Typed'
  <2>1. log' \in Seq(Receipt) /\ pos' \in 0..Len(log')
    BY EmptySeq
  <2> QED
    BY <2>1 DEF IInv, Typed
<1> QED
  BY <1>1, <1>2, <1>3, AnswerStays DEF IInv

\* The round of a process that has one.
LEMMA RoundOf ==
  ASSUME IInv, turn.at \notin {"published", "failed"}
  PROVE  /\ \E tr : Round(tr)
         /\ Typed /\ Good(turn, graded) /\ BudgetSpansRun /\ CitationsGraded
BY DEF IInv, Round

\* What goes on in the round keeps the invariant.
LEMMA RoundGoesOn ==
  ASSUME IInv, UNCHANGED <<context, answer, rounds>>, graded \subseteq graded',
         faults' \in 0..MaxFaults, BudgetSpansRun', Good(turn, graded)',
         log' \in Seq(Receipt), pos' \in 0..Len(log'),
         NEW tr \in [Nat -> Memory], Chain(tr)', Abreast(tr)'
  PROVE  IInv'
<1>1. Typed'
  BY DEF IInv, Typed
<1> QED
  BY <1>1, AnswerStays DEF IInv

\* ReplayExact for one step.
Exactly == pos' = pos + 1 /\ pos' = Len(log') /\ log' = log => turn' = front

\* A model is asked, or its receipt read.
LEMMA AskStep ==
  ASSUME IInv, NEW at \in Asking, NEW Sayings,
         turn.at = at => \A said \in Sayings :
           said \in Saying /\ Sayable(turn, said) /\ said.say # "unavailable",
         AskModel(at, Sayings)
  PROVE  IInv' /\ Exactly
<1>1. /\ turn.at = at /\ turn.at \in Calling /\ turn.at \in Live
      /\ UNCHANGED <<context, saved, scope, answer, rounds>> /\ graded' = graded \cup turn'.approved
  BY DEF AskModel, Live, Calling
<1>2. PICK tr : Round(tr)
  BY <1>1, RoundOf DEF Live, Calling, Asking
<1>3. /\ Typed /\ Good(turn, graded) /\ BudgetSpansRun /\ CitationsGraded
      /\ log \in Seq(Receipt) /\ pos \in Nat /\ Len(log) \in Nat /\ tr \in [Nat -> Memory]
      /\ faults \in 0..MaxFaults
  BY <1>2, LenProperties DEF IInv, Typed, Round
<1>4. CASE pos < Len(log)
  <2> DEFINE r == log[pos + 1]
  <2>1. /\ turn' = Heard([turn EXCEPT !.calls = r.calls, !.fallback = r.fallback], r.said)
        /\ Advance(log) /\ UNCHANGED <<spent, front, faults>>
    BY <1>3, <1>4 DEF AskModel
  <2>2. turn' = After(turn, r)
    BY <1>1, <2>1 DEF After, Asking
  <2>3. tr[pos + 1] = After(turn, r) /\ tr[pos + 1].at \in Live
    BY <1>1, <1>2, <1>4, <1>3, Here
  <2>4. pos' = pos + 1 /\ log' = log
    BY <2>1, <2>2, <2>3 DEF Advance, Live, Calling, Asking
  <2>5. /\ Chain(tr)' /\ Abreast(tr)' /\ Good(turn, graded)' /\ turn'.at \in Live
        /\ pos' \in 0..Len(log)'
        /\ pos' = Len(log)' => turn' = front
    <3>1. /\ pos # Len(log) /\ UNCHANGED <<context, saved, log, spent, front>>
          /\ graded \subseteq graded' /\ turn' = After(turn, log[pos + 1]) /\ pos' = pos + 1
      BY <1>1, <1>3, <1>4, <2>1, <2>2, <2>4
    <3> QED
      BY <1>1, <1>2, <3>1, ReplayStep
  <2>6. BudgetSpansRun'
    BY <1>3, <2>1 DEF BudgetSpansRun
  <2>7. IInv'
    <3>1. UNCHANGED <<context, answer, rounds>> /\ graded \subseteq graded'
      BY <1>1
    <3>2. faults' \in 0..MaxFaults
      BY <1>3, <2>1
    <3>3. log' \in Seq(Receipt)
      BY <1>3, <2>4
    <3>4. pos' \in 0..Len(log')
      BY <2>5
    <3> QED
      BY <1>3, <2>5, <2>6, <3>1, <3>2, <3>3, <3>4, RoundGoesOn
  <2> QED
    BY <2>4, <2>5, <2>7 DEF Exactly
<1>5. CASE pos = Len(log) /\ ~Exhausted(turn)
  <2>1. PICK said \in Sayings \cup Words(IF faults < MaxFaults THEN {"unavailable"} ELSE {}) :
          /\ faults' = faults + (IF said.say = "unavailable" THEN 1 ELSE 0)
          /\ LET called == [turn EXCEPT !.calls = @ + 1]
             IN /\ turn' = Heard(called, said)
                /\ Advance(Append(log, [said |-> said, calls |-> called.calls,
                                        fallback |-> called.fallback]))
          /\ front' = IF turn'.at = "failed" THEN Blank ELSE turn'
          /\ spent' = [spent EXCEPT !.calls = @ + 1]
    <3>1. ~(pos < Len(log)) /\ ~(pos = Len(log) /\ Exhausted(turn))
      BY <1>3, <1>5
    <3> QED
      BY <3>1, Zenon DEF AskModel
  <2> DEFINE called == [turn EXCEPT !.calls = @ + 1]
             u == Heard(called, said)
             r == [said |-> said, calls |-> called.calls, fallback |-> called.fallback]
  <2>2. turn' = u /\ Advance(Append(log, r))
    BY <2>1, Zenon
  <2>3. /\ Good(called, graded) /\ called.at = turn.at /\ called.calls = turn.calls + 1
        /\ called.requests = turn.requests /\ called.searches = turn.searches
        /\ called.fallback = turn.fallback /\ called.calls <= MaxModelCalls
        /\ called.todo = turn.todo
        /\ called = [turn EXCEPT !.calls = called.calls, !.fallback = called.fallback]
    BY <1>1, <1>3, <1>5, CalledStep
  <2> HIDE DEF called
  <2>4. said \in Saying /\ Sayable(called, said) /\ (said.say = "unavailable" => faults < MaxFaults)
    <3>1. CASE said \in Sayings
      <4>1. said \in Saying /\ Sayable(turn, said) /\ said.say # "unavailable"
        BY <1>1, <3>1
      <4> QED
        BY <2>3, <4>1 DEF Sayable, Agent
    <3>2. CASE said \notin Sayings
      <4>1. said \in Words({"unavailable"}) /\ faults < MaxFaults
        BY <2>1, <3>2 DEF Words
      <4>2. said.say = "unavailable" /\ said.tasks = <<>> /\ said.of = {}
        BY <4>1 DEF Words
      <4>3. said \in Saying
        <5>1. <<>> \in Seq(Agents)
          BY EmptySeq
        <5>4. {} \in SUBSET (Nat \cup Chunks)
          OBVIOUS
        <5>2. said \in [say : {"unavailable"}, tasks : {<<>>}, of : {{}}]
          BY <4>1 DEF Words
        <5>3. said = [say |-> "unavailable", tasks |-> <<>>, of |-> {}]
          BY <5>2
        <5> QED
          BY <5>1, <5>3, <5>4 DEF Saying, Wording
      <4> QED
        BY <4>1, <4>2, <4>3 DEF Sayable
    <3> QED
      BY <3>1, <3>2
  <2>12. faults' \in 0..MaxFaults
    BY <1>3, <2>1, <2>4, TurnAssumption
  <2>5. u = Failed \/ Follows(called, u, graded \cup u.approved)
    BY <1>1, <2>3, <2>4, HeardStep
  <2>6. u = After(turn, r)
    <3>1. After(turn, r) = Heard([turn EXCEPT !.calls = r.calls, !.fallback = r.fallback], r.said)
      BY <1>1 DEF After, Asking
    <3> QED
      BY <2>3, <3>1
  <2> HIDE DEF u
  <2>7. spent = Counted(turn)
    BY <1>1, <1>2, <1>5, Here
  <2>8. spent' = [calls |-> called.calls, requests |-> turn.requests, searches |-> turn.searches]
    BY <2>1, <2>3, <2>7 DEF Counted
  <2>9. BudgetSpansRun'
    BY <1>3, <2>3, <2>7, <2>8 DEF BudgetSpansRun, Counted
  <2>10. CASE u = Failed
    <3>1. turn' = Failed /\ pos' = 0 /\ log' = <<>>
      BY <2>2, <2>10, FailedIsGood DEF Advance
    <3> QED
      BY <1>1, <1>3, <2>9, <2>12, <3>1, FailStep DEF Exactly
  <2>11. CASE Follows(called, u, graded \cup u.approved)
    <3>1. u.at \in Live \ {"recall"} /\ Same(called, u) /\ Good(u, graded')
      BY <1>1, <2>2, <2>11 DEF Follows
    <3>2. pos' = pos + 1 /\ log' = Append(log, r) /\ front' = u
      BY <2>1, <2>2, <3>1 DEF Advance, Live, Calling, Asking
    <3>3. r \in Receipt
      <4>1. called.calls \in Nat /\ called.fallback \in BOOLEAN
        BY <2>3, MemoryFields DEF Good, Sound
      <4> QED
        BY <2>4, <4>1 DEF Receipt
    <3>4. spent' = Counted(u)
      BY <2>3, <2>8, <3>1 DEF Counted, Same
    <3> HIDE DEF r
    <3>5. Len(log') = Len(log) + 1 /\ log' # log
      <4>1. Len(log') = Len(log) + 1
        BY <1>3, <3>2, <3>3, AppendProperties
      <4> QED
        BY <1>3, <4>1
    <3>6. /\ log' \in Seq(Receipt) /\ pos' \in 0..Len(log') /\ Good(turn, graded)'
          /\ \E s \in [Nat -> Memory] : Chain(s)' /\ Abreast(s)'
      <4>1. UNCHANGED <<context, saved>> /\ graded \subseteq graded'
        BY <1>1
      <4> QED
        BY <1>1, <1>2, <1>5, <2>2, <2>6, <3>1, <3>2, <3>3, <3>4, <4>1, CallStep
    <3>7. IInv'
      BY <1>1, <2>9, <2>12, <3>6, RoundGoesOn
    <3> QED
      BY <3>5, <3>7 DEF Exactly
  <2> QED
    BY <2>5, <2>10, <2>11
<1>6. CASE pos = Len(log) /\ Exhausted(turn)
  <2>1. Fail /\ UNCHANGED faults
    BY <1>3, <1>6 DEF AskModel
  <2>2. BudgetSpansRun'
    BY <1>3, <2>1 DEF BudgetSpansRun, Fail
  <2> QED
    BY <1>1, <1>3, <2>1, <2>2, FailStep DEF Fail, Exactly
<1> QED
  BY <1>1, <1>2, <1>4, <1>5, <1>6, Here

-----------------------------------------------------------------------------
(* The steps.                                                              *)

LEMMA Saids ==
  ASSUME NEW word \in Wording, NEW tasks \in Seq(Agents), NEW of \in SUBSET (Nat \cup Chunks)
  PROVE  [say |-> word, tasks |-> tasks, of |-> of] \in Saying
BY DEF Saying

LEMMA WordsSaid ==
  ASSUME NEW words \in SUBSET Wording, NEW said \in Words(words)
  PROVE  said \in Saying /\ said.say \in words /\ said.of = {}
<1>1. <<>> \in Seq(Agents)
  BY EmptySeq
<1>2. {} \in SUBSET (Nat \cup Chunks)
  OBVIOUS
<1>3. PICK word \in words : said = [say |-> word, tasks |-> <<>>, of |-> {}]
  BY DEF Words
<1>4. said \in Saying
  BY <1>1, <1>2, <1>3, Saids
<1>5. said.say = word /\ said.of = {}
  BY <1>3
<1> QED
  BY <1>4, <1>5

LEMMA FinalsSaid ==
  ASSUME NEW t \in Memory, NEW said \in Finals(t)
  PROVE  said \in Saying /\ said.say \notin {"tools", "unavailable"}
<1>1. CASE said \in Words({"malformed"})
  BY <1>1, WordsSaid DEF Wording
<1>2. CASE said \notin Words({"malformed"})
  <2> DEFINE numbers == {{}} \cup {{n} : n \in 1..(Len(t.entries) + 1)}
  <2>1. said \in [say : {"grounded", "smalltalk", "clarification", "insufficient"},
                  tasks : {<<>>}, of : numbers]
    BY <1>2 DEF Finals
  <2>2. numbers \subseteq SUBSET (Nat \cup Chunks)
    <3>1. Len(t.entries) \in Nat
      BY MemoryFields, LenProperties
    <3> QED
      BY <3>1
  <2>3. <<>> \in Seq(Agents)
    BY EmptySeq
  <2> HIDE DEF numbers
  <2>4. /\ said.say \in {"grounded", "smalltalk", "clarification", "insufficient"}
        /\ said.of \in numbers /\ said = [say |-> said.say, tasks |-> <<>>, of |-> said.of]
    BY <2>1
  <2> QED
    <3>1. said.say \in Wording /\ said.say \notin {"tools", "unavailable"}
      BY <2>4 DEF Wording, Kinds
    <3>2. said.of \in SUBSET (Nat \cup Chunks)
      BY <2>2, <2>4
    <3> QED
      BY <2>3, <2>4, <3>1, <3>2, Saids
<1> QED
  BY <1>1, <1>2

LEMMA MessagesSaid ==
  ASSUME NEW t \in Memory, NEW said \in Messages(t)
  PROVE  /\ said \in Saying /\ said.say # "unavailable"
         /\ said.say = "tools" => said.tasks \in Seq(Agents) \ {<<>>}
<1>1. CASE said \in Finals(t)
  BY <1>1, FinalsSaid
<1>2. CASE said \notin Finals(t)
  <2>1. said \in [say : {"tools"}, tasks : SeqOf(Offered, MaxTasks) \ {<<>>}, of : {{}}]
    BY <1>2 DEF Messages
  <2>2. SeqOf(Offered, MaxTasks) \subseteq Seq(Agents)
    <3>1. MaxTasks \in Nat /\ Offered \subseteq Agents
      BY TurnAssumption DEF Offered
    <3>2. ASSUME NEW q \in SeqOf(Offered, MaxTasks) PROVE q \in Seq(Agents)
      <4>1. PICK m \in 0..MaxTasks : q \in [1..m -> Offered]
        BY DEF SeqOf
      <4>2. m \in Nat /\ q \in [1..m -> Agents]
        BY <3>1, <4>1
      <4> QED
        BY <4>2, SeqDef
    <3> QED
      BY <3>2
  <2>3. {} \in SUBSET (Nat \cup Chunks)
    OBVIOUS
  <2>4. /\ said.tasks \in Seq(Agents) \ {<<>>}
        /\ said = [say |-> "tools", tasks |-> said.tasks, of |-> {}]
    BY <2>1, <2>2
  <2> QED
    BY <2>3, <2>4, Saids DEF Wording
<1> QED
  BY <1>1, <1>2

\* Every call of a model is asked something it may answer.
LEMMA Answers ==
  ASSUME NEW chunks, NEW t, Good(t, chunks)
  PROVE  /\ t.at = "supervisor" => \A said \in Messages(t) :
              said \in Saying /\ Sayable(t, said) /\ said.say # "unavailable"
         /\ t.at = "repair" => \A said \in Finals(t) :
              said \in Saying /\ Sayable(t, said) /\ said.say # "unavailable"
         /\ t.at = "plan" => \A said \in Words({"clarify", "one", "two", "malformed"}) :
              said \in Saying /\ Sayable(t, said) /\ said.say # "unavailable"
         /\ t.at = "grade" => \A said \in Grades(t) :
              said \in Saying /\ Sayable(t, said) /\ said.say # "unavailable"
         /\ t.at = "rewriter" => \A said \in Words({"hypothesis", "malformed"}) :
              said \in Saying /\ Sayable(t, said) /\ said.say # "unavailable"
         /\ t.at = "work" => \A said \in Words(ToolsOf(Agent(t)) \cup {"report", "malformed"}) :
              said \in Saying /\ Sayable(t, said) /\ said.say # "unavailable"
<1>1. t \in Memory
  BY DEF Good, Sound
<1>2. ASSUME t.at = "supervisor", NEW said \in Messages(t)
      PROVE  said \in Saying /\ Sayable(t, said) /\ said.say # "unavailable"
  BY <1>1, <1>2, MessagesSaid DEF Sayable
<1>3. ASSUME t.at = "repair", NEW said \in Finals(t)
      PROVE  said \in Saying /\ Sayable(t, said) /\ said.say # "unavailable"
  BY <1>1, <1>3, FinalsSaid DEF Sayable
<1>4. ASSUME t.at = "plan", NEW said \in Words({"clarify", "one", "two", "malformed"})
      PROVE  said \in Saying /\ Sayable(t, said) /\ said.say # "unavailable"
  BY <1>4, WordsSaid DEF Sayable, Wording
<1>5. ASSUME t.at = "grade", NEW said \in Grades(t)
      PROVE  said \in Saying /\ Sayable(t, said) /\ said.say # "unavailable"
  <2>1. CASE said \in Words({"clarify", "none", "rewrite", "hyde", "malformed"})
    <3>1. said \in Saying /\ said.say # "unavailable" /\ said.of = {}
      BY <2>1, WordsSaid DEF Wording, Kinds
    <3> QED
      BY <1>5, <3>1 DEF Sayable
  <2>2. CASE said \notin Words({"clarify", "none", "rewrite", "hyde", "malformed"})
    <3>1. said \in [say : {"answer"}, tasks : {<<>>}, of : (SUBSET t.found) \ {{}}]
      BY <1>5, <2>2 DEF Grades
    <3>2. t.found \subseteq Chunks
      BY <1>1, MemoryFields
    <3>3. said.of \subseteq Chunks /\ said.of \in SUBSET (Nat \cup Chunks)
      BY <3>1, <3>2
    <3>4. <<>> \in Seq(Agents) /\ said = [say |-> "answer", tasks |-> <<>>, of |-> said.of]
      BY <3>1, EmptySeq
    <3>5. said \in Saying /\ said.say = "answer"
      <4>1. "answer" \in Wording
        BY DEF Wording
      <4>2. [say |-> "answer", tasks |-> <<>>, of |-> said.of] \in Saying
        BY <3>3, <3>4, <4>1, Saids
      <4> QED
        BY <3>4, <4>2
    <3> QED
      BY <1>5, <3>3, <3>5 DEF Sayable
  <2> QED
    BY <2>1, <2>2
<1>6. ASSUME t.at = "rewriter", NEW said \in Words({"hypothesis", "malformed"})
      PROVE  said \in Saying /\ Sayable(t, said) /\ said.say # "unavailable"
  BY <1>6, WordsSaid DEF Sayable, Wording
<1>7. ASSUME t.at = "work", NEW said \in Words(ToolsOf(Agent(t)) \cup {"report", "malformed"})
      PROVE  said \in Saying /\ Sayable(t, said) /\ said.say # "unavailable"
  <2>1. Agent(t) \in Agents
    <3>1. t.todo \in Seq(Agents) /\ t.todo # <<>>
      BY <1>1, <1>7, MemoryFields DEF Good, Sound, Poised, InDelegation
    <3> QED
      BY <3>1, HeadTailProperties DEF Agent
  <2>2. ToolsOf(Agent(t)) \subseteq Tools /\ "unavailable" \notin ToolsOf(Agent(t))
    BY <2>1 DEF Tools, ToolsOf, Agents
  <2>3. /\ said \in Saying /\ said.say \in ToolsOf(Agent(t)) \cup {"report", "malformed"}
    BY <1>7, <2>2, WordsSaid DEF Wording
  <2> QED
    BY <1>7, <2>2, <2>3 DEF Sayable
<1> QED
  BY <1>2, <1>3, <1>4, <1>5, <1>6, <1>7, Zenon

LEMMA AskSteps ==
  ASSUME IInv, Supervise \/ Repair \/ Plan \/ Grade \/ Rewrite \/ Work
  PROVE  IInv' /\ Exactly
<1>1. Good(turn, graded)
  BY DEF IInv
<1>2. CASE Supervise
  BY <1>1, <1>2, Answers, AskStep DEF Supervise, Asking
<1>3. CASE Repair
  BY <1>1, <1>3, Answers, AskStep DEF Repair, Asking
<1>4. CASE Plan
  BY <1>1, <1>4, Answers, AskStep DEF Plan, Asking
<1>5. CASE Grade
  BY <1>1, <1>5, Answers, AskStep DEF Grade, Asking
<1>6. CASE Rewrite
  BY <1>1, <1>6, Answers, AskStep DEF Rewrite, Asking
<1>7. CASE Work
  BY <1>1, <1>7, Answers, AskStep DEF Work, Asking
<1> QED
  BY <1>2, <1>3, <1>4, <1>5, <1>6, <1>7

LEMMA AfterTool ==
  ASSUME NEW t, t.at \in {"search", "tool"}, NEW r,
         NEW asked, asked = [t EXCEPT !.requests = @ + 1]
  PROVE  After(t, r) = Received(RestoreBody(asked, r.body), r.got)
<1>1. CASE t.at = "search"
  BY <1>1 DEF After, Asking
<1>2. CASE t.at = "tool"
  BY <1>2 DEF After, Asking
<1> QED
  BY <1>1, <1>2

\* A call of a tool, or its receipt.
LEMMA ToolCalled ==
  ASSUME IInv, NEW at \in {"search", "tool"}, CallTool(at),
         Searching(turn) => turn.searches < MaxSearches
  PROVE  IInv' /\ Exactly
<1>1. /\ turn.at = at /\ turn.at \in Calling /\ turn.at \in Live
      /\ turn.at \in {"search", "tool"}
      /\ UNCHANGED <<context, saved, scope, answer, rounds, faults>> /\ graded' = graded
  BY DEF CallTool, Live, Calling
<1>2. PICK tr : Round(tr)
  BY <1>1, RoundOf
<1>3. /\ Typed /\ Good(turn, graded) /\ BudgetSpansRun /\ CitationsGraded
      /\ log \in Seq(Receipt) /\ pos \in Nat /\ Len(log) \in Nat /\ tr \in [Nat -> Memory]
      /\ faults \in 0..MaxFaults
  BY <1>2, LenProperties DEF IInv, Typed, Round
<1> DEFINE asked == [turn EXCEPT !.requests = @ + 1]
<1>0. turn.requests \in Nat /\ MaxToolCalls \in Nat
  BY <1>3, MemoryFields, TurnAssumption DEF Good, Sound
<1>4. CASE turn.requests < MaxToolCalls /\ pos < Len(log)
  <2>1. /\ turn' = Received(RestoreBody(asked, log[pos + 1].body), log[pos + 1].got)
        /\ pos' = pos + 1 /\ UNCHANGED <<log, spent, front>>
    <3>1. ~(pos = Len(log)) /\ ~(turn.requests >= MaxToolCalls)
      BY <1>0, <1>3, <1>4
    <3> QED
      BY <3>1, Zenon DEF CallTool
  <2>2. turn' = After(turn, log[pos + 1])
    BY <1>1, <2>1, AfterTool
  <2>3. /\ Chain(tr)' /\ Abreast(tr)' /\ Good(turn, graded)' /\ turn'.at \in Live
        /\ pos' \in 0..Len(log)'
        /\ pos' = Len(log)' => turn' = front
    <3>1. pos # Len(log) /\ UNCHANGED <<context, saved, log, spent, front>> /\ graded \subseteq graded'
      BY <1>1, <1>3, <1>4, <2>1
    <3> QED
      BY <1>1, <1>2, <2>1, <2>2, <3>1, ReplayStep
  <2>4. BudgetSpansRun'
    BY <1>3, <2>1 DEF BudgetSpansRun
  <2>5. faults' \in 0..MaxFaults /\ log' \in Seq(Receipt)
    BY <1>1, <1>3, <2>1
  <2>6. UNCHANGED <<context, answer, rounds>> /\ graded \subseteq graded'
    BY <1>1
  <2>7. IInv'
    BY <1>3, <2>3, <2>4, <2>5, <2>6, RoundGoesOn
  <2> QED
    BY <2>3, <2>7 DEF Exactly
<1>5. CASE turn.requests < MaxToolCalls /\ pos = Len(log)
  <2>1. PICK got \in Gets(turn) :
          LET done == Used(asked, got)
          IN /\ log' = Append(log, [got |-> got, body |-> Body(done)])
             /\ turn' = Received(done, got)
             /\ spent' = [spent EXCEPT !.requests = @ + 1,
                                       !.searches = @ + (done.searches - turn.searches)]
             /\ pos' = pos + 1 /\ front' = turn'
    <3>1. ~(pos < Len(log)) /\ ~(turn.requests >= MaxToolCalls)
      BY <1>0, <1>3, <1>5
    <3> QED
      BY <3>1 DEF CallTool
  <2> DEFINE done == Used(asked, got)
             u == Received(done, got)
             r == [got |-> got, body |-> Body(done)]
  <2>2. /\ log' = Append(log, r) /\ turn' = u /\ pos' = pos + 1 /\ front' = u
        /\ spent' = [spent EXCEPT !.requests = @ + 1,
                                  !.searches = @ + (done.searches - turn.searches)]
    BY <2>1
  <2>3. /\ Good(u, graded) /\ u.at \in Live \ {"recall"}
        /\ u.calls = turn.calls /\ u.requests = turn.requests + 1 /\ u.searches = done.searches
        /\ done.searches \in Nat /\ done.searches <= MaxSearches
        /\ u.requests <= MaxToolCalls
        /\ done \in Memory /\ RestoreBody(asked, Body(done)) = done
    BY <1>1, <1>3, <1>5, ToolStep
  <2>4. u = After(turn, r)
    <3>1. After(turn, r) = Received(RestoreBody(asked, r.body), r.got)
      BY <1>1, AfterTool
    <3> QED
      BY <2>3, <3>1
  <2>5. r \in Receipt
    <3>1. got \in SUBSET (Sources \cup {"failed"})
      <4>1. turn \in Memory /\ (turn.at = "search" => turn.call = "none")
        BY <1>3 DEF Good, Sound, Poised
      <4> QED
        BY <4>1, Getting
    <3>2. Body(done) \in [entries : Seq(Sources), excluded : SUBSET Sources, searches : Nat,
                          cached : BOOLEAN, schema : BOOLEAN]
      BY <2>3, MemoryFields DEF Body
    <3> QED
      BY <3>1, <3>2 DEF Receipt
  <2>6. spent' = Counted(u)
    <3>1. spent = [calls |-> turn.calls, requests |-> turn.requests, searches |-> turn.searches]
      BY <1>1, <1>2, <1>5, Here DEF Counted
    <3>2. turn.searches \in Nat
      BY <1>3, MemoryFields DEF Good, Sound
    <3>3. turn.searches + (done.searches - turn.searches) = done.searches
      BY <2>3, <3>2
    <3> HIDE DEF done
    <3>4. spent' = [calls |-> turn.calls, requests |-> turn.requests + 1, searches |-> done.searches]
      BY <2>2, <3>1, <3>3
    <3> QED
      BY <2>3, <3>4 DEF Counted
  <2> HIDE DEF u, r, done
  <2>7. BudgetSpansRun'
    <3>1. /\ u \in Memory /\ u.calls <= MaxModelCalls
          /\ u.requests <= MaxToolCalls /\ u.searches <= MaxSearches
      BY <2>3 DEF Good, Sound, Fits
    <3> QED
      BY <2>6, <3>1 DEF BudgetSpansRun, Counted
  <2>8. Len(log') = Len(log) + 1 /\ log' # log
    <3>1. Len(log') = Len(log) + 1
      BY <1>3, <2>2, <2>5, AppendProperties
    <3> QED
      BY <1>3, <3>1
  <2>9. UNCHANGED <<context, saved, answer, rounds>> /\ graded \subseteq graded' /\ Good(u, graded')
    BY <1>1, <2>3
  <2>10. /\ log' \in Seq(Receipt) /\ pos' \in 0..Len(log') /\ Good(turn, graded)'
         /\ \E s \in [Nat -> Memory] : Chain(s)' /\ Abreast(s)'
    <3>1. UNCHANGED <<context, saved>>
      BY <2>9
    <3> QED
      BY <1>1, <1>2, <1>5, <2>2, <2>3, <2>4, <2>5, <2>6, <2>9, <3>1, CallStep
  <2>11. faults' \in 0..MaxFaults
    BY <1>1, <1>3
  <2>12. UNCHANGED <<context, answer, rounds>> /\ graded \subseteq graded'
    BY <2>9
  <2>13. IInv'
    BY <2>7, <2>10, <2>11, <2>12, RoundGoesOn
  <2> QED
    BY <2>8, <2>13 DEF Exactly
<1>6. CASE turn.requests >= MaxToolCalls
  <2>1. Fail
    <3>1. ~(turn.requests < MaxToolCalls)
      BY <1>0, <1>6
    <3> QED
      BY <3>1, Zenon DEF CallTool
  <2>2. BudgetSpansRun'
    BY <1>3, <2>1 DEF BudgetSpansRun, Fail
  <2>3. faults' \in 0..MaxFaults /\ graded \subseteq graded' /\ UNCHANGED <<context, answer, rounds>>
    BY <1>1, <1>3
  <2>4. turn' = Failed /\ pos' = 0 /\ log' = <<>> /\ pos' # pos + 1
    BY <1>3, <2>1 DEF Fail
  <2> QED
    BY <2>2, <2>3, <2>4, FailStep DEF Exactly
<1>7. /\ pos < Len(log) \/ pos = Len(log)
      /\ turn.requests < MaxToolCalls \/ turn.requests >= MaxToolCalls
  <2>1. pos <= Len(log)
    BY <1>1, <1>2, Here
  <2> QED
    BY <1>0, <1>3, <2>1
<1> QED
  BY <1>4, <1>5, <1>6, <1>7

\* A Run that ends here and now.
LEMMA Fails ==
  ASSUME IInv, Fail, UNCHANGED <<context, answer, rounds, faults, graded>>
  PROVE  IInv' /\ Exactly
<1>1. BudgetSpansRun' /\ faults' \in 0..MaxFaults
  BY DEF IInv, Typed, BudgetSpansRun, Fail
<1>2. turn' = Failed /\ pos' = 0 /\ log' = <<>> /\ pos \in Nat /\ pos' # pos + 1
  BY DEF Fail, IInv, Typed
<1>3. IInv'
  BY <1>1, <1>2, FailStep
<1> QED
  BY <1>2, <1>3 DEF Exactly

LEMMA SearchStep ==
  ASSUME IInv, Search
  PROVE  IInv' /\ Exactly
<1>1. CASE SearchLimit
  BY <1>1, Fails DEF SearchLimit
<1>2. CASE turn.searches < MaxSearches /\ CallTool("search")
  BY <1>2, ToolCalled
<1> QED
  BY <1>1, <1>2 DEF Search

LEMMA UseToolStep ==
  ASSUME IInv, UseTool
  PROVE  IInv' /\ Exactly
<1>1. CASE SearchLimit
  BY <1>1, Fails DEF SearchLimit
<1>2. CASE (Searching(turn) => turn.searches < MaxSearches) /\ CallTool("tool")
  BY <1>2, ToolCalled
<1> QED
  BY <1>1, <1>2 DEF UseTool

\* What a Run remembers enters its registry before the first call.
LEMMA RecalledStep ==
  ASSUME NEW chunks, NEW t, Good(t, chunks), t.at = "recall", NEW got \in {{}, {"memory"}},
         NEW done, done = [t EXCEPT !.entries = AddAll(@, got)],
         NEW u, u = [done EXCEPT !.at = "supervisor"]
  PROVE  /\ done \in Memory /\ RestoreBody(t, Body(done)) = done
         /\ Good(u, chunks) /\ u.at = "supervisor" /\ Same(t, u)
<1>1. /\ t \in Memory /\ Fits(t) /\ Vouched(t, chunks) /\ t.call = "none"
      /\ t.entries \in Seq(Sources) /\ IsInjective(t.entries) /\ Len(t.entries) <= MaxSources
  BY MemoryFields DEF Good, Sound, Fits, Poised
<1>2. got \in SUBSET Sources /\ IsFiniteSet(got) /\ got \cap Chunks = {}
  <2>1. "memory" \in Sources /\ "memory" \notin Chunks
    BY TurnAssumption DEF Sources, Others
  <2>2. IsFiniteSet({}) /\ IsFiniteSet({"memory"})
    BY FS_EmptySet, FS_Singleton
  <2> QED
    BY <2>1, <2>2
<1> DEFINE new == AddAll(t.entries, got)
<1>3. /\ new \in Seq(Sources) /\ IsInjective(new) /\ Len(new) <= MaxSources
      /\ ToSet(t.entries) \subseteq ToSet(new) /\ ToSet(new) \subseteq ToSet(t.entries) \cup got
  BY <1>1, <1>2, Registering
<1>4. done = [t EXCEPT !.entries = new]
  OBVIOUS
<1> HIDE DEF new
<1>5. /\ done \in Memory /\ done.entries = new /\ done.excluded = t.excluded
      /\ done.searches = t.searches /\ done.cached = t.cached /\ done.schema = t.schema
      /\ done.call = t.call /\ done.calls = t.calls /\ done.requests = t.requests
      /\ done.rewrites = t.rewrites
      /\ done.accepted = t.accepted /\ done.approved = t.approved /\ done.draft = t.draft
  <2>1. t \in Memory /\ new \in Seq(Sources)
    BY <1>1, <1>3
  <2>2. PutBody(t, new, t.searches, t.cached, t.schema, [t EXCEPT !.entries = new])
    BY <2>1, PutsEntries, Zenon
  <2>3. PutBody(t, new, t.searches, t.cached, t.schema, done)
    BY <1>4, <2>2, Zenon
  <2> QED
    BY <2>3 DEF PutBody, Beside
<1>6. RestoreBody(t, Body(done)) = done
  <2>1. RestoreBody(t, Body(done)) =
          [t EXCEPT !.entries = new, !.excluded = t.excluded, !.searches = t.searches,
                    !.cached = t.cached, !.schema = t.schema]
    BY <1>5 DEF RestoreBody, Body
  <2>2. [t EXCEPT !.entries = new, !.excluded = t.excluded, !.searches = t.searches,
                  !.cached = t.cached, !.schema = t.schema] = [t EXCEPT !.entries = new]
    BY <1>1 DEF Memory
  <2> QED
    BY <1>4, <2>1, <2>2
<1>7. /\ u \in Memory /\ u.at = "supervisor" /\ u.entries = new /\ u.excluded = t.excluded
      /\ u.call = t.call /\ u.calls = t.calls /\ u.requests = t.requests
      /\ u.searches = t.searches /\ u.rewrites = t.rewrites
      /\ u.accepted = t.accepted /\ u.approved = t.approved /\ u.draft = t.draft
  <2>1. "supervisor" \in Places
    BY DEF Places
  <2>2. PutAt(done, "supervisor", done.call, u)
    BY <1>5, <2>1, PutsAt, Zenon
  <2> QED
    BY <1>5, <2>2 DEF PutAt, Beside
<1>8. Fits(u) /\ Poised(u) /\ Vouched(u, chunks) /\ Same(t, u)
  BY <1>1, <1>2, <1>3, <1>7 DEF Fits, Poised, Vouched, Same, Registered, Eligible, InDelegation
<1> QED
  BY <1>5, <1>6, <1>7, <1>8 DEF Good, Sound

LEMMA AfterRecall ==
  ASSUME NEW t, t.at = "recall", NEW r
  PROVE  After(t, r) = [RestoreBody(t, r.body) EXCEPT !.at = "supervisor"]
BY DEF After, Asking

LEMMA RecallStep ==
  ASSUME IInv, Recall
  PROVE  IInv' /\ Exactly
<1>1. /\ turn.at = "recall" /\ turn.at \in Calling /\ turn.at \in Live
      /\ UNCHANGED <<context, saved, scope, answer, rounds, faults, graded, spent>> /\ pos' = 1
  BY DEF Recall, Live, Calling
<1>2. PICK tr : Round(tr)
  BY <1>1, RoundOf
<1>3. /\ Typed /\ Good(turn, graded) /\ BudgetSpansRun /\ CitationsGraded
      /\ log \in Seq(Receipt) /\ Len(log) \in Nat /\ tr \in [Nat -> Memory]
      /\ faults \in 0..MaxFaults /\ pos = 0 /\ pos + 1 = 1 /\ pos' = pos + 1 /\ pos <= Len(log)
  BY <1>1, <1>2, Here, LenProperties DEF IInv, Typed, Round
<1>4. BudgetSpansRun' /\ faults' \in 0..MaxFaults
  BY <1>1, <1>3 DEF BudgetSpansRun
<1>5. UNCHANGED <<context, answer, rounds>> /\ graded \subseteq graded' /\ UNCHANGED <<context, saved>>
  BY <1>1
<1>6. CASE pos < Len(log)
  <2>1. turn' = [RestoreBody(turn, log[1].body) EXCEPT !.at = "supervisor"] /\ UNCHANGED <<log, front>>
    BY <1>3, <1>6 DEF Recall
  <2>2. turn' = After(turn, log[pos + 1])
    <3>1. turn' = [RestoreBody(turn, log[pos + 1].body) EXCEPT !.at = "supervisor"]
      BY <1>3, <2>1, Zenon
    <3> QED
      BY <1>1, <3>1, AfterRecall
  <2>3. /\ Chain(tr)' /\ Abreast(tr)' /\ Good(turn, graded)' /\ turn'.at \in Live
        /\ pos' \in 0..Len(log)'
        /\ pos' = Len(log)' => turn' = front
    <3>1. pos # Len(log) /\ UNCHANGED <<context, saved, log, spent, front>>
      BY <1>1, <1>3, <1>6, <2>1
    <3> QED
      BY <1>1, <1>2, <1>3, <1>5, <2>2, <3>1, ReplayStep
  <2>4. log' \in Seq(Receipt)
    BY <1>3, <2>1
  <2>5. IInv'
    BY <1>3, <1>4, <1>5, <2>3, <2>4, RoundGoesOn
  <2> QED
    BY <2>3, <2>5 DEF Exactly
<1>7. CASE pos = Len(log)
  <2>1. PICK got \in {{}, {"memory"}} :
          LET done == [turn EXCEPT !.entries = AddAll(@, got)]
          IN /\ log' = <<[got |-> got, body |-> Body(done)]>>
             /\ turn' = [done EXCEPT !.at = "supervisor"] /\ front' = turn'
    <3>1. ~(pos < Len(log))
      BY <1>3, <1>7
    <3> QED
      BY <3>1 DEF Recall
  <2> DEFINE done == [turn EXCEPT !.entries = AddAll(@, got)]
             u == [done EXCEPT !.at = "supervisor"]
             r == [got |-> got, body |-> Body(done)]
  <2>2. log' = <<r>> /\ turn' = u /\ front' = u
    BY <2>1
  <2>3. /\ done \in Memory /\ RestoreBody(turn, Body(done)) = done
        /\ Good(u, graded) /\ u.at = "supervisor" /\ Same(turn, u)
    BY <1>1, <1>3, RecalledStep
  <2>4. u = After(turn, r)
    <3>1. After(turn, r) = [RestoreBody(turn, r.body) EXCEPT !.at = "supervisor"]
      BY <1>1, AfterRecall
    <3> QED
      BY <2>3, <3>1
  <2>5. r \in Receipt
    <3>1. got \in SUBSET (Sources \cup {"failed"})
      BY DEF Sources, Others
    <3>2. Body(done) \in [entries : Seq(Sources), excluded : SUBSET Sources, searches : Nat,
                          cached : BOOLEAN, schema : BOOLEAN]
      BY <2>3, MemoryFields DEF Body
    <3> QED
      BY <3>1, <3>2 DEF Receipt
  <2>6. spent' = Counted(u)
    BY <1>1, <1>2, <1>7, <2>3, Here DEF Counted, Same
  <2> HIDE DEF u, r, done
  <2>7. log' = Append(log, r)
    <3>1. log = <<>>
      BY <1>3, <1>7, EmptySeq
    <3> QED
      BY <2>2, <3>1
  <2>8. Len(log') = Len(log) + 1 /\ log' # log
    <3>1. Len(log') = Len(log) + 1
      BY <1>3, <2>5, <2>7, AppendProperties
    <3> QED
      BY <1>3, <3>1
  <2>9. Good(u, graded') /\ u.at \in Live \ {"recall"}
    BY <1>1, <2>3 DEF Live, Calling, Asking
  <2>10. /\ log' \in Seq(Receipt) /\ pos' \in 0..Len(log') /\ Good(turn, graded)'
         /\ \E s \in [Nat -> Memory] : Chain(s)' /\ Abreast(s)'
    BY <1>1, <1>2, <1>3, <1>5, <1>7, <2>2, <2>4, <2>5, <2>6, <2>7, <2>9, CallStep
  <2>11. IInv'
    BY <1>4, <1>5, <2>10, RoundGoesOn
  <2> QED
    BY <2>8, <2>11 DEF Exactly
<1> QED
  BY <1>3, <1>6, <1>7

\* A step that leaves the round as it is: only the place of the process changes.
LEMMA MovesInRound ==
  ASSUME IInv, NEW tr, Round(tr), turn.at \notin {"published", "failed"},
         UNCHANGED <<context, saved, log, answer, rounds, faults, graded, spent, front>>,
         NEW chunks, chunks = graded, NEW t, turn' = t, Good(t, chunks),
         pos' \in 0..Len(log),
         (t.at \in {"down", "paused"} /\ pos' = 0) \/ t \in {tr[pos'], Ready(tr[pos'])}
  PROVE  IInv'
<1>1. Chain(tr)'
  BY ChainKept
<1>2. Good(turn, graded)'
  <2>1. Good(t, chunks)'
    BY Frozen
  <2> QED
    BY <2>1
<1>3. Abreast(tr)'
  <2>1. PICK q : q = tr[pos']
    OBVIOUS
  <2>2. Ready(q)' = Ready(q)
    BY Frozen
  <2> QED
    BY <2>1, <2>2 DEF Abreast
<1>4. BudgetSpansRun' /\ faults' \in 0..MaxFaults /\ log' \in Seq(Receipt) /\ pos' \in 0..Len(log')
  BY DEF IInv, BudgetSpansRun, Typed
<1>5. tr \in [Nat -> Memory]
  BY DEF Round
<1> QED
  BY <1>1, <1>2, <1>3, <1>4, <1>5, RoundGoesOn

\* The memory a round begins with is the first of its memories.
LEMMA Begins ==
  ASSUME NEW tr, Round(tr)
  PROVE  Good(First, graded) /\ tr[0] = First /\ 0 \in 0..Len(log)
<1>1. 0 \in 0..Len(log)
  BY LenProperties DEF Round, Typed
<1> QED
  BY <1>1 DEF Round, Chain

LEMMA StartStep ==
  ASSUME IInv, Start
  PROVE  IInv' /\ Exactly
<1>1. /\ turn.at = "down" /\ turn' = First /\ pos' = 0
      /\ UNCHANGED <<context, saved, log, answer, rounds, faults, graded, spent, front>>
  BY DEF Start, First, durable, history
<1>2. PICK tr : Round(tr)
  BY <1>1, RoundOf
<1>3. PICK t, chunks : t = turn' /\ chunks = graded
  OBVIOUS
<1>4. Good(t, chunks) /\ t = tr[pos'] /\ pos' \in 0..Len(log)
  BY <1>1, <1>2, <1>3, Begins
<1>5. IInv'
  BY <1>1, <1>2, <1>3, <1>4, MovesInRound
<1>6. pos' # pos + 1
  BY <1>1 DEF IInv, Typed
<1> QED
  BY <1>5, <1>6 DEF Exactly

LEMMA DelegateStep ==
  ASSUME IInv, Delegate
  PROVE  IInv' /\ Exactly
<1>1. /\ turn.at = "delegate" /\ turn.at \in Live
      /\ UNCHANGED <<context, saved, scope, answer, rounds, faults, graded>>
  BY DEF Delegate, Live
<1>2. CASE Fail
  BY <1>1, <1>2, Fails
<1>3. CASE turn' = Delegated(turn) /\ UNCHANGED <<pos, log, spent, front>>
  <2>1. PICK tr : Round(tr)
    BY <1>1, RoundOf
  <2>2. PICK t, chunks : t = turn' /\ chunks = graded
    OBVIOUS
  <2>3. t = Ready(tr[pos']) /\ t = Ready(turn)
    BY <1>1, <1>3, <2>1, <2>2, Here DEF Ready
  <2>4. Good(t, chunks)
    BY <2>2, <2>3, ReadyStep DEF IInv
  <2>5. pos' \in 0..Len(log) /\ pos' # pos + 1
    BY <1>3 DEF IInv, Typed
  <2>6. IInv'
    BY <1>1, <1>3, <2>1, <2>2, <2>3, <2>4, <2>5, MovesInRound
  <2> QED
    BY <2>5, <2>6 DEF Exactly
<1> QED
  BY <1>2, <1>3 DEF Delegate

LEMMA DeniedStep ==
  ASSUME IInv, Denied
  PROVE  IInv' /\ Exactly
BY Fails DEF Denied

\* The state of a Run that waits for its user: what it resumes with.
LEMMA PausedStep ==
  ASSUME NEW chunks, NEW t, Good(t, chunks), t.at = "publish",
         NEW first, first = [Resumed([t EXCEPT !.at = "paused"]) EXCEPT !.at = "supervisor"]
  PROVE  Good(first, chunks) /\ first.at = "supervisor" /\ Counted(first) = Counted(t)
<1>1. /\ t \in Memory /\ Fits(t) /\ Vouched(t, chunks) /\ t.call = "none"
      /\ t.rewrites \in Nat /\ t.requests \in Nat /\ t.calls \in Nat
      /\ t.delegated \in [Agents -> Nat] /\ t.known \in BOOLEAN /\ t.fallback \in BOOLEAN
  BY MemoryFields DEF Good, Sound, Poised
<1> DEFINE p == [t EXCEPT !.at = "paused"]
           b == RestoreBody(Blank, Body(p))
<1>2. /\ p.entries = t.entries /\ p.excluded = t.excluded /\ p.searches = t.searches
      /\ p.cached = t.cached /\ p.schema = t.schema /\ p.requests = t.requests
      /\ p.rewrites = t.rewrites /\ p.delegated = t.delegated /\ p.known = t.known
      /\ p.calls = t.calls /\ p.fallback = t.fallback
  BY <1>1 DEF Memory
<1>3. first = [b EXCEPT !.requests = t.requests, !.rewrites = t.rewrites, !.delegated = t.delegated,
                        !.known = t.known, !.calls = t.calls, !.fallback = t.fallback,
                        !.at = "supervisor"]
  BY <1>2 DEF Resumed
<1>4. b = [Blank EXCEPT !.entries = t.entries, !.excluded = t.excluded, !.searches = t.searches,
                        !.cached = t.cached, !.schema = t.schema]
  BY <1>2 DEF RestoreBody, Body
<1>5. /\ Blank \in Memory /\ Blank.call = "none" /\ Blank.accepted = {} /\ Blank.approved = {}
      /\ Blank.draft.cites = {}
  BY BlankIsMemory DEF NoAnswer
<1>6. /\ b \in Memory /\ b.call = "none" /\ b.accepted = {} /\ b.approved = {}
      /\ b.draft.cites = {} /\ b.entries = t.entries /\ b.excluded = t.excluded
      /\ b.searches = t.searches
  <2> HIDE DEF b
  <2> QED
    BY <1>1, <1>4, <1>5, MemoryFields DEF Memory
<1> HIDE DEF b, p
<1>7. /\ first \in Memory /\ first.at = "supervisor" /\ first.call = "none"
      /\ first.accepted = {} /\ first.approved = {} /\ first.draft.cites = {}
      /\ first.entries = t.entries /\ first.excluded = t.excluded /\ first.searches = t.searches
      /\ first.requests = t.requests /\ first.rewrites = t.rewrites /\ first.calls = t.calls
  <2> DEFINE c == [b EXCEPT !.requests = t.requests, !.rewrites = t.rewrites,
                            !.delegated = t.delegated, !.known = t.known, !.calls = t.calls,
                            !.fallback = t.fallback]
  <2>1. /\ c \in Memory /\ c.call = b.call
        /\ c.accepted = b.accepted /\ c.approved = b.approved /\ c.draft = b.draft
        /\ c.entries = b.entries /\ c.excluded = b.excluded /\ c.searches = b.searches
        /\ c.requests = t.requests /\ c.rewrites = t.rewrites /\ c.calls = t.calls
    BY <1>1, <1>6 DEF Memory
  <2>2. first = [c EXCEPT !.at = "supervisor"]
    BY <1>3
  <2> HIDE DEF c
  <2>3. /\ first \in Memory /\ first.at = "supervisor" /\ first.call = c.call
        /\ first.accepted = c.accepted /\ first.approved = c.approved /\ first.draft = c.draft
        /\ first.entries = c.entries /\ first.excluded = c.excluded /\ first.searches = c.searches
        /\ first.requests = c.requests /\ first.rewrites = c.rewrites /\ first.calls = c.calls
    <3>1. "supervisor" \in Places
      BY DEF Places
    <3>2. c \in Memory
      BY <2>1
    <3>3. PutAt(c, "supervisor", c.call, [c EXCEPT !.at = "supervisor"])
      BY <3>1, <3>2, PutsAt, Zenon
    <3>4. PutAt(c, "supervisor", c.call, first)
      BY <2>2, <3>3, Zenon
    <3> QED
      BY <3>4 DEF PutAt, Beside
  <2> QED
    BY <1>6, <2>1, <2>3
<1>8. Fits(first) /\ Poised(first) /\ Vouched(first, chunks) /\ Counted(first) = Counted(t)
  BY <1>1, <1>7 DEF Fits, Poised, Vouched, Counted, Registered, Eligible, InDelegation
<1> QED
  BY <1>7, <1>8 DEF Good, Sound

\* A round that has made no call yet.
LEMMA NewRound ==
  ASSUME NEW chunks, NEW first, Good(first, chunks), first.at \in Live,
         context' \in Contexts, graded' = chunks, First' = first, log' = <<>>, pos' = 0,
         Good(first, chunks)', spent' = Counted(first), turn'.at \in {"down", "paused"}
  PROVE  \E tr \in [Nat -> Memory] : Chain(tr)' /\ Abreast(tr)'
<1> DEFINE tr == [i \in Nat |-> first]
<1>1. tr \in [Nat -> Memory] /\ \A i \in Nat : tr[i] = first
  BY DEF Good, Sound
<1> HIDE DEF tr
<1>2. Len(log') = 0 /\ \A i \in 0..Len(log') : i = 0
  BY EmptySeq
<1>3. Counted(first)' = Counted(first)
  BY DEF Counted
<1>4. Chain(tr)'
  BY <1>1, <1>2, <1>3 DEF Chain
<1>5. Abreast(tr)'
  BY DEF Abreast
<1> QED
  BY <1>1, <1>4, <1>5

\* A memory that is blank again is good whatever the request.
LEMMA BlankAfter ==
  ASSUME context' = context, NEW at \in {"down", "paused", "published"},
         turn' = [Blank EXCEPT !.at = at]
  PROVE  Good(turn, graded)' /\ turn'.at = at
<1>1. PICK t, chunks : t = turn' /\ chunks = graded'
  OBVIOUS
<1>2. Good(t, chunks) /\ t.at = at
  BY <1>1, BlankIsGood
<1>3. Good(t, chunks)'
  BY <1>2, Frozen
<1> QED
  BY <1>1, <1>2, <1>3

LEMMA PublishStep ==
  ASSUME IInv, Publish
  PROVE  IInv' /\ Exactly
<1>1. /\ turn.at = "publish" /\ turn.at \in Live /\ answer' = turn.draft
      /\ pos' = 0 /\ log' = <<>> /\ front' = Blank
      /\ UNCHANGED <<context, scope, rounds, faults, graded, spent>>
  BY DEF Publish, Live
<1>2. PICK tr : Round(tr)
  BY <1>1, RoundOf
<1>3. /\ Typed /\ Good(turn, graded) /\ BudgetSpansRun /\ CitationsGraded
      /\ spent = Counted(turn)
  BY <1>1, <1>2, Here DEF IInv
<1>4. Typed'
  <2>1. log' \in Seq(Receipt) /\ pos' \in 0..Len(log')
    BY <1>1, EmptySeq
  <2>2. answer' \in [kind : Kinds, cites : SUBSET Sources]
    BY <1>1, <1>3, MemoryFields DEF Good, Sound
  <2> QED
    BY <1>1, <1>3, <2>1, <2>2 DEF Typed
<1>5. CitationsGraded'
  BY <1>1, <1>3 DEF Good, Vouched, CitationsGraded
<1>6. BudgetSpansRun'
  BY <1>1, <1>3 DEF BudgetSpansRun
<1>7. pos' # pos + 1
  BY <1>1, <1>3 DEF Typed
<1>8. CASE turn.draft.kind = "clarification"
  <2>1. saved' = [turn EXCEPT !.at = "paused"] /\ turn' = [Blank EXCEPT !.at = "paused"]
    BY <1>8 DEF Publish
  <2>2. Good(turn, graded)' /\ turn'.at = "paused"
    BY <1>1, <2>1, BlankAfter
  <2>3. PICK first : first = [Resumed([turn EXCEPT !.at = "paused"]) EXCEPT !.at = "supervisor"]
    OBVIOUS
  <2>4. Good(first, graded) /\ first.at = "supervisor" /\ Counted(first) = Counted(turn)
    BY <1>1, <1>3, <2>3, PausedStep
  <2>5. First' = first
    <3>1. saved'.at = "paused"
      BY <1>3, <2>1 DEF Good, Sound, Memory
    <3>2. First' = [Resumed(saved') EXCEPT !.at = "supervisor"]
      BY <3>1 DEF First, Resumed, RestoreBody, Body
    <3> QED
      BY <2>1, <2>3, <3>2
  <2>6. PICK chunks : chunks = graded
    OBVIOUS
  <2>7. Good(first, chunks)'
    BY <1>1, <2>4, <2>6, Frozen
  <2>8. \E s \in [Nat -> Memory] : Chain(s)' /\ Abreast(s)'
    <3>1. context' \in Contexts
      BY <1>1, <1>3 DEF Typed
    <3>2. first.at \in Live /\ spent' = Counted(first)
      BY <1>1, <1>3, <2>4 DEF Live, Calling, Asking
    <3> QED
      BY <1>1, <2>2, <2>4, <2>5, <2>6, <2>7, <3>1, <3>2, NewRound
  <2> QED
    BY <1>4, <1>5, <1>6, <1>7, <2>2, <2>8 DEF IInv, Exactly
<1>9. CASE turn.draft.kind # "clarification"
  <2>1. turn' = [Blank EXCEPT !.at = "published"]
    BY <1>9 DEF Publish
  <2>2. Good(turn, graded)' /\ turn'.at = "published"
    BY <1>1, <2>1, BlankAfter
  <2> QED
    BY <1>4, <1>5, <1>6, <1>7, <2>2 DEF IInv, Exactly
<1> QED
  BY <1>8, <1>9

\* A process that has nothing in memory: no step of the round is lost.
LEMMA BlankInRound ==
  ASSUME IInv, turn.at \notin {"published", "failed"}, turn' = Blank, pos' = 0,
         UNCHANGED <<context, saved, log, answer, graded, spent, front>>,
         rounds' \in 0..MaxRounds, faults' \in 0..MaxFaults
  PROVE  IInv'
<1>1. PICK tr : Round(tr)
  BY RoundOf
<1>2. Chain(tr)' /\ tr \in [Nat -> Memory] /\ 0 \in 0..Len(log)
  BY <1>1, ChainKept, Begins DEF Round
<1>3. Good(turn, graded)' /\ turn'.at = "down"
  <2>1. PICK t, chunks : t = turn' /\ chunks = graded'
    OBVIOUS
  <2>2. Blank = [Blank EXCEPT !.at = "down"]
    BY BlankIsMemory DEF Memory
  <2>3. Good(t, chunks) /\ t.at = "down"
    BY <2>1, <2>2, BlankIsGood
  <2>4. Good(t, chunks)'
    BY <2>3, Frozen
  <2> QED
    BY <2>1, <2>3, <2>4
<1>4. Abreast(tr)'
  BY <1>3 DEF Abreast
<1>5. Typed' /\ BudgetSpansRun' /\ CitationsGraded'
  BY <1>2, AnswerStays DEF IInv, Typed, BudgetSpansRun
<1> QED
  BY <1>2, <1>3, <1>4, <1>5 DEF IInv

LEMMA ResumeStep ==
  ASSUME IInv, Resume
  PROVE  IInv' /\ Exactly
<1>1. /\ turn.at = "paused" /\ rounds < MaxRounds /\ turn' = Blank /\ rounds' = rounds + 1
      /\ UNCHANGED <<context, saved, log, answer, faults, pos, graded, spent, front>>
  BY DEF Resume, history
<1>2. PICK tr : Round(tr)
  BY <1>1, RoundOf
<1>3. pos = 0
  <2>1. pos \in 0..Len(log)
    BY <1>2 DEF Round, Typed
  <2>2. Good(tr[pos], graded) /\ tr[pos].at \in Live
    BY <1>2, <2>1 DEF Round, Chain
  <2>3. tr[pos].at # "paused" /\ Ready(tr[pos]).at # "paused"
    BY <2>2, ReadyStep DEF Live, Calling, Asking
  <2> QED
    BY <1>1, <1>2, <2>3 DEF Round, Abreast
<1>4. rounds' \in 0..MaxRounds /\ faults' \in 0..MaxFaults
  BY <1>1, TurnAssumption DEF IInv, Typed
<1>5. IInv'
  BY <1>1, <1>3, <1>4, BlankInRound
<1> QED
  BY <1>1, <1>3, <1>5 DEF Exactly

LEMMA CrashStep ==
  ASSUME IInv, Crash
  PROVE  IInv' /\ Exactly
<1>1. /\ turn.at \notin {"published", "failed"} /\ faults < MaxFaults
      /\ turn' = Blank /\ pos' = 0 /\ faults' = faults + 1
      /\ UNCHANGED <<context, saved, log, answer, rounds, graded, spent, front>>
  BY DEF Crash, history
<1>2. rounds' \in 0..MaxRounds /\ faults' \in 0..MaxFaults /\ pos' # pos + 1
  BY <1>1, TurnAssumption DEF IInv, Typed
<1>3. IInv'
  BY <1>1, <1>2, BlankInRound
<1> QED
  BY <1>2, <1>3 DEF Exactly

\* Nothing of the Run changes.
LEMMA QuietStep ==
  ASSUME IInv,
         UNCHANGED <<context, saved, log, answer, rounds, faults, pos, turn, graded, spent, front>>
  PROVE  IInv' /\ Exactly
<1>1. /\ UNCHANGED <<context, saved, log, answer, rounds, faults, graded, spent, front>>
      /\ pos' = pos /\ turn' = turn
  OBVIOUS
<1>2. PICK t, chunks : t = turn /\ chunks = graded
  OBVIOUS
<1>3. Good(t, chunks) /\ Good(t, chunks)'
  BY <1>1, <1>2, Frozen DEF IInv
<1>4. ASSUME turn.at \in {"published", "failed"} PROVE IInv'
  <2>1. Typed' /\ BudgetSpansRun' /\ CitationsGraded'
    BY <1>1, AnswerStays DEF IInv, Typed, BudgetSpansRun
  <2>2. Good(turn, graded)'
    BY <1>1, <1>2, <1>3
  <2> QED
    BY <1>1, <1>4, <2>1, <2>2 DEF IInv
<1>5. ASSUME turn.at \notin {"published", "failed"} PROVE IInv'
  <2>1. PICK tr : Round(tr)
    BY <1>5, RoundOf
  <2>2. (t.at \in {"down", "paused"} /\ pos' = 0) \/ t \in {tr[pos'], Ready(tr[pos'])}
    BY <1>1, <1>2, <2>1 DEF Round, Abreast
  <2>3. turn' = t /\ pos' \in 0..Len(log)
    BY <1>1, <1>2 DEF IInv, Typed
  <2>4. chunks = graded /\ Good(t, chunks)
    BY <1>2, <1>3
  <2> QED
    BY <1>1, <1>5, <2>1, <2>2, <2>3, <2>4, MovesInRound
<1>6. pos' # pos + 1
  BY <1>1 DEF IInv, Typed
<1> QED
  BY <1>4, <1>5, <1>6 DEF Exactly

LEMMA Initially ==
  ASSUME Init
  PROVE  IInv
<1>1. PICK first, chunks : first = [Blank EXCEPT !.at = "recall"] /\ chunks = graded
  OBVIOUS
<1>2. /\ Good(first, chunks) /\ first.at = "recall"
      /\ Counted(first) = [calls |-> 0, requests |-> 0, searches |-> 0]
  BY <1>1, BlankIsGood
<1>3. Blank = [Blank EXCEPT !.at = "down"] /\ Blank.at = "down"
  BY BlankIsMemory DEF Memory
<1>4. Good(turn, graded) /\ turn.at = "down"
  BY <1>3, BlankIsGood DEF Init
<1>5. First = first
  BY <1>1, <1>3 DEF Init, First
<1> DEFINE tr == [i \in Nat |-> first]
<1>6. tr \in [Nat -> Memory] /\ \A i \in Nat : tr[i] = first
  BY <1>2 DEF Good, Sound
<1> HIDE DEF tr
<1>7. Len(log) = 0 /\ log \in Seq(Receipt) /\ \A i \in 0..Len(log) : i = 0
  BY EmptySeq DEF Init
<1>8. Chain(tr)
  <2>1. tr[0] = First
    BY <1>5, <1>6
  <2>2. \A i \in 0..Len(log) : /\ Good(tr[i], graded) /\ tr[i].at \in Live
                               /\ tr[i].at = "recall" => i = 0
    <3>1. tr[0] = first /\ first.at \in Live /\ Good(first, graded)
      BY <1>1, <1>2, <1>6 DEF Live, Calling
    <3> QED
      BY <1>7, <3>1
  <2>3. spent = Counted(tr[Len(log)])
    BY <1>2, <1>6, <1>7 DEF Init
  <2>4. log = <<>>
    BY DEF Init
  <2> QED
    BY <1>7, <2>1, <2>2, <2>3, <2>4 DEF Chain
<1>9. Abreast(tr)
  BY <1>4 DEF Init, Abreast
<1>10. NoAnswer \in [kind : Kinds, cites : SUBSET Sources] /\ NoAnswer.cites = {}
  BY DEF NoAnswer, Kinds
<1>11. Typed /\ CitationsGraded /\ BudgetSpansRun
  BY <1>7, <1>10, TurnAssumption DEF Init, Typed, CitationsGraded, BudgetSpansRun
<1> QED
  BY <1>4, <1>6, <1>8, <1>9, <1>11 DEF IInv

LEMMA Inductive ==
  ASSUME IInv, [Next]_vars
  PROVE  IInv' /\ Exactly
<1>1. CASE Start
  BY <1>1, StartStep
<1>2. CASE Recall
  BY <1>2, RecallStep
<1>3. CASE Supervise \/ Repair \/ Plan \/ Grade \/ Rewrite \/ Work
  BY <1>3, AskSteps
<1>4. CASE Delegate
  BY <1>4, DelegateStep
<1>5. CASE Search
  BY <1>5, SearchStep
<1>6. CASE UseTool
  BY <1>6, UseToolStep
<1>7. CASE Publish
  BY <1>7, PublishStep
<1>8. CASE Denied
  BY <1>8, DeniedStep
<1>9. CASE Resume
  BY <1>9, ResumeStep
<1>10. CASE Crash
  BY <1>10, CrashStep
<1>11. CASE Revoke
  BY <1>11, QuietStep DEF Revoke, history
<1>12. CASE UNCHANGED vars
  BY <1>12, QuietStep DEF vars, durable, history
<1> QED
  BY <1>1, <1>2, <1>3, <1>4, <1>5, <1>6, <1>7, <1>8, <1>9, <1>10, <1>11, <1>12 DEF Next, Step

-----------------------------------------------------------------------------
(* The theorems.                                                           *)

\* The invariant holds in every reachable state: the memory of a process that
\* answers a Run is the one its receipts lead to.
THEOREM Invariance == Spec => []IInv
<1>1. Init => IInv
  BY Initially
<1>2. IInv /\ [Next]_vars => IInv'
  BY Inductive
<1> QED
  BY <1>1, <1>2, PTL DEF Spec

\* The registry and the counters of a process stay within the settings
\* (evidence.py _add, agent_runtime.py _reserve, supervisor.py instrument).
THEOREM TypesHold == Spec => []TypeOK
<1>1. IInv => TypeOK
  <2> SUFFICES ASSUME IInv PROVE TypeOK
    OBVIOUS
  <2>1. turn \in Memory /\ Fits(turn) /\ Typed
    BY DEF IInv, Good, Sound
  <2>2. turn.at \in Places /\ Registered(turn) \subseteq Sources
    BY <2>1, MemoryFields, RegisteredSources
  <2>3. pos <= Len(log) /\ rounds <= MaxRounds /\ faults <= MaxFaults
    BY <2>1, TurnAssumption, LenProperties DEF Typed
  <2> QED
    BY <2>1, <2>2, <2>3 DEF TypeOK, Fits
<1> QED
  BY <1>1, Invariance, PTL

\* A published answer of a graded Run cites chunks that a grade accepted, in
\* whatever order delegations fail, processes crash and users supplement
\* (knowledge.py run, chat.py publication).
THEOREM AnswersAreGraded == Spec => []CitationsGraded
<1>1. IInv => CitationsGraded
  BY DEF IInv
<1> QED
  BY <1>1, Invariance, PTL

\* The limits of the settings hold for all processes and rounds of a Run
\* together (agent_runtime.py, run_checkpoint.py).
THEOREM BudgetForTheRun == Spec => []BudgetSpansRun
<1>1. IInv => BudgetSpansRun
  BY DEF IInv
<1> QED
  BY <1>1, Invariance, PTL

\* A process that takes a Run over and reads its last receipt is exactly where
\* the process that wrote it was (run_checkpoint.py, evidence.py restore_body).
THEOREM TakeoversAreExact == Spec => ReplayExact
<1>1. IInv /\ [Next]_vars =>
        [pos' = pos + 1 /\ pos' = Len(log') /\ log' = log => turn' = front]_vars
  BY Inductive DEF Exactly
<1> QED
  BY <1>1, Invariance, PTL DEF Spec, ReplayExact
=============================================================================
