------------------------ MODULE RunOperationsProofs ------------------------
(***************************************************************************)
(* What the receipts of a Run promise, for any number of slots, claims,    *)
(* results and limits: a side effect goes out at most once and a call      *)
(* without side effects at most MaxReads times (SentAtMost), and an answer *)
(* knows every side effect of the Run (AnswerKnowsEffects).                *)
(*                                                                         *)
(* The first is a matter of counting: the executions that went out and the *)
(* attempts that still may send are together no more than the executions  *)
(* begun, also while owners that lost the fence are late.  The second is a *)
(* matter of replay: as long as no event was refused, all that any attempt *)
(* has seen are confirmed results, so that the calls of all attempts lie   *)
(* on one line, of which the answer is the end.                            *)
(***************************************************************************)
EXTENDS RunOperations, FiniteSetTheorems, SequenceTheorems, TLAPS

-----------------------------------------------------------------------------
(* The inductive invariant.                                                *)

Calls == {"model", "read", "write"}

\* Attempts that may still send the request of call k.
Pending(k) == {w \in Slots : attempt[w].pc \in {"begun", "checked"} /\ CallOf(w) = k}

\* An attempt that works at a call has its receipt; one that publishes has an answer.
AttemptOK(w) ==
  /\ attempt[w].pc \in {"begun", "checked", "called"} =>
       Known(CallOf(w)) /\ Kind(CallOf(w)) \in Calls
  /\ attempt[w].pc = "called" => attempt[w].result \in Outcomes
  /\ attempt[w].pc = "publishing" => Kind(CallOf(w)) = "answer"

\* A receipt is one of a call, and counts at least what went out and still may.
ReceiptOK(k) ==
  /\ Kind(k) \in Calls
  /\ op[k].state = "succeeded" => op[k].result \in Outcomes
  /\ op[k].sent + Cardinality(Pending(k)) <= op[k].attempts
  /\ op[k].attempts <= IF Kind(k) = "write" THEN 1 ELSE MaxReads

Counted ==
  /\ \A w \in Slots : AttemptOK(w)
  /\ \A k \in DOMAIN op : ReceiptOK(k)
  /\ answer # <<>> => Kind(answer) = "answer"

\* What somebody has seen of the Run, up to some call.
Paths == DOMAIN op \cup {CallOf(w) : w \in Slots} \cup {answer}

\* Each outcome on the path is the confirmed result of the call before it.
Replays(q) ==
  \A i \in 1..Len(q) :
    Succeeded(SubSeq(q, 1, i - 1)) /\ op[SubSeq(q, 1, i - 1)].result = q[i]

\* Two paths do not part.
Agree(p, q) == \A i \in 1..Len(p) : i \in 1..Len(q) => p[i] = q[i]

OneLine ==
  /\ \A q \in Paths : Replays(q)
  /\ \A p, q \in Paths : Agree(p, q)

IInv == OperationsTypeOK /\ Counted /\ (~refused => OneLine)

-----------------------------------------------------------------------------
(* Types.                                                                  *)

LEMMA ResultsTyped ==
  ASSUME NEW k, Kind(k) \in Calls
  PROVE  ResultsOf(k) \subseteq Outcomes
  BY DEF Calls, ResultsOf, Outcomes

\* The receipts are a function whatever becomes of them.
LEMMA PutTyped ==
  ASSUME OperationsTypeOK, NEW k \in Seq(Outcomes), NEW receipt \in CallReceipt, Put(k, receipt)
  PROVE  /\ DOMAIN op' = DOMAIN op \cup {k}
         /\ op'[k] = receipt
         /\ \A q \in DOMAIN op : q # k => op'[q] = op[q]
         /\ DOMAIN op' \subseteq Seq(Outcomes)
         /\ \A q \in DOMAIN op' : op'[q] \in CallReceipt
  BY DEF OperationsTypeOK, Put

LEMMA SeeTyped ==
  ASSUME OperationsTypeOK, NEW w \in Slots, NEW outcome \in Outcomes, See(w, outcome)
  PROVE  /\ attempt' \in [Slots -> Attempt]
         /\ attempt'[w].pc = "ready" /\ attempt'[w].at = Append(CallOf(w), outcome)
         /\ \A v \in Slots : v # w => attempt'[v] = attempt[v]
<1>1. attempt[w] \in Attempt
  BY DEF OperationsTypeOK
<1>2. Append(attempt[w].at, outcome) \in Seq(Outcomes)
  BY <1>1 DEF Attempt
<1>3. attempt' = [attempt EXCEPT ![w] =
        [attempt[w] EXCEPT !.pc = "ready", !.at = Append(attempt[w].at, outcome),
                           !.result = "none"]]
  BY DEF See
<1>4. [attempt[w] EXCEPT !.pc = "ready", !.at = Append(attempt[w].at, outcome),
                         !.result = "none"] \in Attempt
  BY <1>1, <1>2 DEF Attempt
<1> QED
  BY <1>1, <1>3, <1>4 DEF OperationsTypeOK, CallOf, Attempt

LEMMA SetPcTyped ==
  ASSUME OperationsTypeOK, NEW w \in Slots, NEW pc, SetPc(w, pc),
         pc \in {"idle", "ready", "begun", "checked", "called", "publishing", "failing"}
  PROVE  /\ attempt' \in [Slots -> Attempt]
         /\ attempt'[w].pc = pc /\ attempt'[w].at = CallOf(w)
         /\ attempt'[w].result = attempt[w].result
         /\ \A v \in Slots : v # w => attempt'[v] = attempt[v]
  BY DEF OperationsTypeOK, SetPc, Attempt, CallOf

LEMMA LogTyped ==
  ASSUME OperationsTypeOK, NEW n \in Nat, Log(n)
  PROVE  room' \in 0 .. MaxRoom
  BY OperationsAssumption DEF OperationsTypeOK, Log, OperationsAssumption

LEMMA RefuseTyped ==
  ASSUME OperationsTypeOK, NEW w \in Slots, NEW n, Refuse(w, n)
  PROVE  OperationsTypeOK'
<1>1. "failed" \in Outcomes
  BY DEF Outcomes
<1>2. attempt' \in [Slots -> Attempt]
  BY <1>1, SeeTyped DEF Refuse
<1> QED
  BY <1>2 DEF OperationsTypeOK, Refuse

\* No step leaves the types.
LEMMA TypeStep ==
  ASSUME OperationsTypeOK, Counted, [OperationsNext]_operationVars
  PROVE  OperationsTypeOK'
<1>1. CASE UNCHANGED operationVars
  BY <1>1 DEF OperationsTypeOK, operationVars
<1>2. CASE LoseFence
  <2>1. fence' \in Fence!Fence
    BY <1>2 DEF LoseFence, OperationsTypeOK, Fence!Fence, Fence!Revoke, Fence!Close, Fence!Over
  <2> QED
    BY <2>1, <1>2 DEF LoseFence, OperationsTypeOK
<1>3. ASSUME NEW w \in Slots, Slot(w) PROVE OperationsTypeOK'
  <2> DEFINE k == CallOf(w)
  <2>0. /\ k \in Seq(Outcomes)
        /\ EventOf(k) \in Nat
        /\ attempt[w].gen \in Nat
        /\ AttemptOK(w)
        /\ Known(k) => op[k] \in CallReceipt
    BY DEF OperationsTypeOK, Attempt, CallOf, EventOf, Counted, Known
  <2>1. CASE TakeRun(w)
    <3>1. fence' \in Fence!Fence
      BY <2>1 DEF TakeRun, OperationsTypeOK, Fence!Fence, Fence!Grant
    <3>2. [pc |-> "ready", gen |-> fence.gen + 1, at |-> <<>>, result |-> "none"] \in Attempt
      BY DEF OperationsTypeOK, Fence!Fence, Attempt
    <3>3. attempt' \in [Slots -> Attempt]
      BY <3>2, <2>1 DEF TakeRun, OperationsTypeOK
    <3> QED
      BY <3>1, <3>3, <2>1 DEF TakeRun, OperationsTypeOK
  <2>2. CASE Reuse(w)
    <3>1. op[k].result \in Outcomes
      BY <2>2 DEF Reuse, Succeeded, Known, Counted, ReceiptOK
    <3>2. attempt' \in [Slots -> Attempt]
      BY <2>2, <3>1, SeeTyped DEF Reuse
    <3> QED
      BY <3>2, <2>2 DEF Reuse, OperationsTypeOK
  <2>3. CASE Begin(w)
    <3>1. CASE Refuse(w, EventOf(k))
      BY <3>1, RefuseTyped
    <3>2. CASE /\ Log(EventOf(k)) /\ Put(k, Begun(w, 1, 0)) /\ SetPc(w, "begun")
               /\ UNCHANGED <<fence, refused, answer>>
      <4>1. Begun(w, 1, 0) \in CallReceipt
        BY <2>0 DEF Begun, CallReceipt
      <4> QED
        BY <3>2, <4>1, <2>0, PutTyped, SetPcTyped, LogTyped DEF OperationsTypeOK
    <3> QED
      BY <2>3, <3>1, <3>2 DEF Begin
  <2>4. CASE Restart(w)
    <3>1. CASE Refuse(w, EventOf(k))
      BY <3>1, RefuseTyped
    <3>2. CASE /\ Log(EventOf(k)) /\ Put(k, Begun(w, op[k].attempts + 1, op[k].sent))
               /\ SetPc(w, "begun") /\ UNCHANGED <<fence, refused, answer>>
      <4>1. Begun(w, op[k].attempts + 1, op[k].sent) \in CallReceipt
        BY <2>4, <2>0 DEF Begun, CallReceipt, Restart, Unconfirmed
      <4> QED
        BY <3>2, <4>1, <2>0, PutTyped, SetPcTyped, LogTyped DEF OperationsTypeOK
    <3> QED
      BY <2>4, <3>1, <3>2 DEF Restart
  <2>5. CASE MarkUncertain(w)
    <3>1. CASE Refuse(w, EventOf(k))
      BY <3>1, RefuseTyped
    <3>2. CASE /\ Log(EventOf(k)) /\ Put(k, [op[k] EXCEPT !.state = "uncertain"])
               /\ SetPc(w, "failing") /\ UNCHANGED <<fence, refused, answer>>
      <4>1. [op[k] EXCEPT !.state = "uncertain"] \in CallReceipt
        BY <2>5, <2>0 DEF CallReceipt, MarkUncertain, Unconfirmed
      <4> QED
        BY <3>2, <4>1, <2>0, PutTyped, SetPcTyped, LogTyped DEF OperationsTypeOK
    <3> QED
      BY <2>5, <3>1, <3>2 DEF MarkUncertain
  <2>6. CASE CallExhausted(w)
    BY <2>6, SetPcTyped DEF CallExhausted, OperationsTypeOK
  <2>7. CASE Recheck(w)
    <3>1. "limit" \in Outcomes
      BY DEF Outcomes
    <3>2. attempt' \in [Slots -> Attempt]
      <4>1. CASE SetPc(w, "checked")
        BY <4>1, SetPcTyped
      <4>2. CASE attempt' = [attempt EXCEPT ![w].pc = "called", ![w].result = "limit"]
        BY <4>2, <3>1 DEF OperationsTypeOK, Attempt
      <4> QED
        BY <2>7, <4>1, <4>2 DEF Recheck
    <3> QED
      BY <3>2, <2>7 DEF Recheck, OperationsTypeOK
  <2>8. CASE Send(w)
    <3>1. PICK result \in ResultsOf(k) :
            attempt' = [attempt EXCEPT ![w].pc = "called", ![w].result = result]
      BY <2>8 DEF Send
    <3>2. result \in Outcomes
      BY <2>8, <2>0, ResultsTyped DEF Send, AttemptOK
    <3>3. attempt' \in [Slots -> Attempt]
      BY <3>1, <3>2 DEF OperationsTypeOK, Attempt
    <3>4. op' = [op EXCEPT ![k] = [op[k] EXCEPT !.sent = op[k].sent + 1]] /\ op[k] \in CallReceipt
      BY <2>8, <2>0 DEF Send, AttemptOK
    <3>5. [op[k] EXCEPT !.sent = op[k].sent + 1] \in CallReceipt
      BY <3>4 DEF CallReceipt
    <3>6. DOMAIN op' = DOMAIN op /\ \A q \in DOMAIN op' : op'[q] \in CallReceipt
      BY <3>4, <3>5 DEF OperationsTypeOK
    <3> QED
      BY <3>3, <3>6, <2>8 DEF Send, OperationsTypeOK
  <2>9. CASE Complete(w)
    <3>1. PICK files \in IF Kind(k) = "write" THEN {0, ArtifactSize} ELSE {0} :
            \/ /\ Log(EventOf(k) + files)
               /\ op' = [op EXCEPT ![k].state = "succeeded", ![k].result = attempt[w].result]
               /\ See(w, attempt[w].result)
               /\ UNCHANGED <<fence, refused, answer>>
            \/ Refuse(w, EventOf(k) + files)
      BY <2>9 DEF Complete
    <3>2. CASE Refuse(w, EventOf(k) + files)
      BY <3>2, RefuseTyped
    <3>3. CASE /\ Log(EventOf(k) + files)
               /\ op' = [op EXCEPT ![k].state = "succeeded", ![k].result = attempt[w].result]
               /\ See(w, attempt[w].result)
               /\ UNCHANGED <<fence, refused, answer>>
      <4>1. attempt[w].result \in Outcomes /\ op[k] \in CallReceipt
        BY <2>9, <2>0 DEF Complete, AttemptOK
      <4>2. attempt' \in [Slots -> Attempt]
        BY <3>3, <4>1, SeeTyped
      <4>3. op' = [op EXCEPT ![k] = [@ EXCEPT !.state = "succeeded", !.result = attempt[w].result]]
        BY <3>3
      <4>4. [op[k] EXCEPT !.state = "succeeded", !.result = attempt[w].result] \in CallReceipt
        BY <4>1 DEF CallReceipt
      <4>5. DOMAIN op' = DOMAIN op /\ \A q \in DOMAIN op' : op'[q] \in CallReceipt
        BY <4>3, <4>4 DEF OperationsTypeOK
      <4>6. room' \in 0 .. MaxRoom
        <5>1. EventOf(k) + files \in Nat
          BY <2>0, OperationsAssumption DEF OperationsAssumption
        <5> QED
          BY <5>1, <3>3, LogTyped
      <4> QED
        BY <3>3, <4>2, <4>5, <4>6 DEF OperationsTypeOK
    <3> QED
      BY <3>1, <3>2, <3>3
  <2>10. CASE Stream(w)
    <3>1. attempt' \in [Slots -> Attempt]
      BY <2>10, SetPcTyped DEF Stream
    <3>2. room' \in 0 .. MaxRoom
      BY <2>10, LogTyped DEF Stream, OperationsTypeOK
    <3> QED
      BY <3>1, <3>2, <2>10 DEF Stream, OperationsTypeOK
  <2>11. CASE Publish(w)
    <3>1. fence' \in Fence!Fence /\ attempt' \in [Slots -> Attempt]
      BY <2>11 DEF Publish, OperationsTypeOK, Fence!Fence, Fence!Over, Attempt, NoAttempt
    <3> QED
      BY <3>1, <2>11, <2>0 DEF Publish, OperationsTypeOK
  <2>12. CASE Raise(w)
    BY <2>12, SetPcTyped DEF Raise, OperationsTypeOK
  <2>13. CASE FinishFailure(w)
    <3>1. fence' \in Fence!Fence /\ attempt' \in [Slots -> Attempt]
      BY <2>13 DEF FinishFailure, OperationsTypeOK, Fence!Fence, Fence!Close, Fence!Over,
                   Attempt, NoAttempt
    <3> QED
      BY <3>1, <2>13 DEF FinishFailure, OperationsTypeOK
  <2>14. CASE AttemptDies(w)
    BY <2>14 DEF AttemptDies, OperationsTypeOK, Attempt, NoAttempt
  <2> QED
    BY <1>3, <2>1, <2>2, <2>3, <2>4, <2>5, <2>6, <2>7, <2>8, <2>9, <2>10, <2>11, <2>12,
       <2>13, <2>14 DEF Slot
<1> QED
  BY <1>1, <1>2, <1>3 DEF OperationsNext

-----------------------------------------------------------------------------
(* Counting.                                                               *)

LEMMA FewSlots ==
  ASSUME NEW S \in SUBSET Slots
  PROVE  IsFiniteSet(S) /\ Cardinality(S) \in Nat
  BY OperationsAssumption, FS_Subset, FS_CardinalityType DEF OperationsAssumption

\* An attempt that may still send counts for one.
LEMMA OneLess ==
  ASSUME NEW S \in SUBSET Slots, NEW w
  PROVE  /\ Cardinality(S \ {w}) <= Cardinality(S)
         /\ w \in S => Cardinality(S) = Cardinality(S \ {w}) + 1
<1>1. IsFiniteSet(S) /\ Cardinality(S) \in Nat
  BY FewSlots
<1>2. Cardinality(S \ {w}) = IF w \in S THEN Cardinality(S) - 1 ELSE Cardinality(S)
  BY <1>1, FS_RemoveElement
<1> QED
  BY <1>1, <1>2

\* Slot w settles: it may no longer send, and what it sent is counted.  No
\* receipt gets an execution.
LEMMA Settle ==
  ASSUME OperationsTypeOK, Counted, NEW w \in Slots,
         \A v \in Slots : v # w => attempt'[v] = attempt[v],
         attempt'[w].pc \notin {"begun", "checked"}, AttemptOK(w)',
         DOMAIN op' = DOMAIN op,
         \A k \in DOMAIN op :
           /\ op'[k].attempts = op[k].attempts
           /\ \/ op'[k].sent = op[k].sent
              \/ op'[k].sent = op[k].sent + 1 /\ w \in Pending(k)
           /\ op'[k].state = "succeeded" => op'[k].result \in Outcomes,
         answer' # <<>> => Kind(answer') = "answer"
  PROVE  Counted'
<1>1. ASSUME NEW v \in Slots PROVE AttemptOK(v)'
  <2>1. CASE v # w
    BY <2>1 DEF Counted, AttemptOK, Known, CallOf
  <2> QED
    BY <2>1
<1>2. ASSUME NEW k \in DOMAIN op' PROVE ReceiptOK(k)'
  <2>1. k \in DOMAIN op /\ op[k] \in CallReceipt /\ ReceiptOK(k)
    BY DEF Counted, OperationsTypeOK
  <2>2. Pending(k)' = Pending(k) \ {w}
    BY DEF Pending, CallOf
  <2>3. Pending(k) \in SUBSET Slots
    BY DEF Pending
  <2>4. /\ Cardinality(Pending(k)) \in Nat
        /\ Cardinality(Pending(k)') \in Nat
        /\ Cardinality(Pending(k)') <= Cardinality(Pending(k))
        /\ w \in Pending(k) => Cardinality(Pending(k)) = Cardinality(Pending(k)') + 1
    BY <2>2, <2>3, FewSlots, OneLess
  <2>5. op[k].sent \in Nat /\ op[k].attempts \in Nat
    BY <2>1 DEF CallReceipt
  <2>6. op'[k].sent + Cardinality(Pending(k)') <= op'[k].attempts
    BY <2>1, <2>4, <2>5 DEF ReceiptOK
  <2> QED
    BY <2>1, <2>6 DEF ReceiptOK
<1> QED
  BY <1>1, <1>2 DEF Counted

\* Slot w is about to execute call k once more: the receipt counts it.
LEMMA Wait ==
  ASSUME OperationsTypeOK, Counted, NEW w \in Slots, NEW k,
         \A v \in Slots : v # w => attempt'[v] = attempt[v],
         k = CallOf(w), attempt'[w].at = k, Kind(k) \in Calls, attempt'[w].pc = "begun",
         attempt[w].pc = "ready",
         DOMAIN op' = DOMAIN op \cup {k}, \A q \in DOMAIN op : q # k => op'[q] = op[q],
         op'[k].state = "started",
         \/ Known(k) /\ op'[k].sent = op[k].sent /\ op'[k].attempts = op[k].attempts + 1
         \/ ~Known(k) /\ op'[k].sent = 0 /\ op'[k].attempts = 1,
         op'[k].attempts <= IF Kind(k) = "write" THEN 1 ELSE MaxReads,
         answer' = answer
  PROVE  Counted'
<1>1. ASSUME NEW v \in Slots PROVE AttemptOK(v)'
  <2>1. CASE v # w
    BY <2>1 DEF Counted, AttemptOK, Known, CallOf
  <2>2. CASE v = w
    BY <2>2 DEF AttemptOK, Known, CallOf
  <2> QED
    BY <2>1, <2>2
<1>2. ASSUME NEW q \in DOMAIN op', q # k PROVE ReceiptOK(q)'
  <2>1. q \in DOMAIN op /\ op'[q] = op[q] /\ ReceiptOK(q)
    BY <1>2 DEF Counted
  <2>2. Pending(q)' = Pending(q)
    BY <1>2 DEF Pending, CallOf
  <2> QED
    BY <2>1, <2>2 DEF ReceiptOK
<1>3. ReceiptOK(k)'
  <2>1. Pending(k)' = Pending(k) \cup {w} /\ w \notin Pending(k)
    BY DEF Pending, CallOf
  <2>2. Pending(k) \in SUBSET Slots
    BY DEF Pending
  <2>3. Cardinality(Pending(k)) \in Nat /\ Cardinality(Pending(k)') = Cardinality(Pending(k)) + 1
    BY <2>1, <2>2, FewSlots, FS_AddElement
  <2>4. CASE Known(k)
    <3>1. op[k].sent \in Nat /\ op[k].attempts \in Nat /\ ReceiptOK(k)
      BY <2>4 DEF Known, Counted, OperationsTypeOK, CallReceipt
    <3>2. op'[k].sent + Cardinality(Pending(k)') <= op'[k].attempts
      BY <2>3, <2>4, <3>1 DEF ReceiptOK
    <3> QED
      BY <3>2 DEF ReceiptOK
  <2>5. CASE ~Known(k)
    <3>1. Pending(k) = {}
      BY <2>5 DEF Pending, Counted, AttemptOK, CallOf
    <3>2. Cardinality(Pending(k)') = 1
      BY <2>3, <3>1, FS_EmptySet
    <3> QED
      BY <2>5, <3>2 DEF ReceiptOK
  <2> QED
    BY <2>4, <2>5
<1> QED
  BY <1>1, <1>2, <1>3 DEF Counted

\* Refused events and calls that are given up: the attempt goes on, or fails.
LEMMA SettleQuietly ==
  ASSUME OperationsTypeOK, Counted, NEW w \in Slots,
         \A v \in Slots : v # w => attempt'[v] = attempt[v],
         attempt'[w].pc \in {"idle", "ready", "failing"},
         UNCHANGED <<op, answer>>
  PROVE  Counted'
<1>1. AttemptOK(w)'
  BY DEF AttemptOK
<1>2. \A k \in DOMAIN op : op[k].state = "succeeded" => op[k].result \in Outcomes
  BY DEF Counted, ReceiptOK
<1> QED
  BY <1>1, <1>2, Settle DEF Counted

LEMMA RefuseSettles ==
  ASSUME OperationsTypeOK, Counted, NEW w \in Slots, NEW n, Refuse(w, n)
  PROVE  Counted'
<1>1. "failed" \in Outcomes
  BY DEF Outcomes
<1> QED
  BY <1>1, SeeTyped, SettleQuietly DEF Refuse

\* No step miscounts: an execution is counted before it can be sent.
LEMMA CountStep ==
  ASSUME OperationsTypeOK, Counted, [OperationsNext]_operationVars
  PROVE  Counted'
<1>1. CASE UNCHANGED <<op, attempt, answer>>
  BY <1>1 DEF Counted, AttemptOK, ReceiptOK, Known, CallOf, Pending
<1>2. ASSUME NEW w \in Slots, Slot(w) PROVE Counted'
  <2> DEFINE k == CallOf(w)
  <2>0. /\ k \in Seq(Outcomes)
        /\ AttemptOK(w)
        /\ Known(k) => op[k] \in CallReceipt /\ ReceiptOK(k)
        /\ \A q \in DOMAIN op : op[q].state = "succeeded" => op[q].result \in Outcomes
    BY DEF OperationsTypeOK, Attempt, CallOf, Counted, Known, ReceiptOK
  <2>1. CASE TakeRun(w)
    BY <2>1, SettleQuietly DEF TakeRun, OperationsTypeOK, Attempt
  <2>2. CASE Reuse(w)
    <3>1. op[k].result \in Outcomes
      BY <2>2, <2>0 DEF Reuse, Succeeded, Known
    <3> QED
      BY <2>2, <3>1, SeeTyped, SettleQuietly DEF Reuse
  <2>3. CASE Begin(w)
    <3>1. CASE Refuse(w, EventOf(k))
      BY <3>1, RefuseSettles
    <3>2. CASE /\ Put(k, Begun(w, 1, 0)) /\ SetPc(w, "begun") /\ UNCHANGED answer
      <4>1. Begun(w, 1, 0) \in CallReceipt
        BY DEF Begun, CallReceipt, OperationsTypeOK, Attempt
      <4>2. /\ DOMAIN op' = DOMAIN op \cup {k} /\ op'[k] = Begun(w, 1, 0)
            /\ \A q \in DOMAIN op : q # k => op'[q] = op[q]
        BY <4>1, <3>2, <2>0, PutTyped
      <4>3. /\ \A v \in Slots : v # w => attempt'[v] = attempt[v]
            /\ attempt'[w].at = k /\ attempt'[w].pc = "begun"
        BY <3>2, SetPcTyped
      <4>4. attempt[w].pc = "ready" /\ Kind(k) \in Calls /\ ~Known(k)
        BY <2>3 DEF Begin, AtCall, Calls
      <4>5. 1 <= IF Kind(k) = "write" THEN 1 ELSE MaxReads
        BY OperationsAssumption DEF OperationsAssumption
      <4> QED
        BY <4>2, <4>3, <4>4, <4>5, <3>2, Wait DEF Begun
    <3> QED
      BY <2>3, <3>1, <3>2 DEF Begin
  <2>4. CASE Restart(w)
    <3>1. CASE Refuse(w, EventOf(k))
      BY <3>1, RefuseSettles
    <3>2. CASE /\ Put(k, Begun(w, op[k].attempts + 1, op[k].sent)) /\ SetPc(w, "begun")
               /\ UNCHANGED answer
      <4>0. /\ attempt[w].pc = "ready" /\ Kind(k) \in Calls \ {"write"} /\ Known(k)
            /\ op[k].attempts < MaxReads
        BY <2>4 DEF Restart, Unconfirmed, AtCall, Calls, Readonly
      <4>1. Begun(w, op[k].attempts + 1, op[k].sent) \in CallReceipt
        BY <4>0, <2>0 DEF Begun, CallReceipt, OperationsTypeOK, Attempt
      <4>2. /\ DOMAIN op' = DOMAIN op \cup {k}
            /\ op'[k] = Begun(w, op[k].attempts + 1, op[k].sent)
            /\ \A q \in DOMAIN op : q # k => op'[q] = op[q]
        BY <4>1, <3>2, <2>0, PutTyped
      <4>3. /\ \A v \in Slots : v # w => attempt'[v] = attempt[v]
            /\ attempt'[w].at = k /\ attempt'[w].pc = "begun"
        BY <3>2, SetPcTyped
      <4>4. op[k].attempts + 1 <= IF Kind(k) = "write" THEN 1 ELSE MaxReads
        BY <4>0, <2>0, OperationsAssumption DEF OperationsAssumption, CallReceipt
      <4> QED
        BY <4>0, <4>2, <4>3, <4>4, <3>2, Wait DEF Begun
    <3> QED
      BY <2>4, <3>1, <3>2 DEF Restart
  <2>5. CASE MarkUncertain(w)
    <3>1. CASE Refuse(w, EventOf(k))
      BY <3>1, RefuseSettles
    <3>2. CASE /\ Put(k, [op[k] EXCEPT !.state = "uncertain"]) /\ SetPc(w, "failing")
               /\ UNCHANGED answer
      <4>0. Known(k)
        BY <2>5 DEF MarkUncertain, Unconfirmed
      <4>1. [op[k] EXCEPT !.state = "uncertain"] \in CallReceipt
        BY <4>0, <2>0 DEF CallReceipt
      <4>2. /\ DOMAIN op' = DOMAIN op \cup {k}
            /\ op'[k] = [op[k] EXCEPT !.state = "uncertain"]
            /\ \A q \in DOMAIN op : q # k => op'[q] = op[q]
        BY <4>1, <3>2, <2>0, PutTyped
      <4>3. /\ \A v \in Slots : v # w => attempt'[v] = attempt[v]
            /\ attempt'[w].pc = "failing"
        BY <3>2, SetPcTyped
      <4>4. AttemptOK(w)'
        BY <4>3 DEF AttemptOK
      <4>5. /\ op'[k].attempts = op[k].attempts /\ op'[k].sent = op[k].sent
            /\ op'[k].state = "uncertain"
        BY <4>0, <4>2, <2>0 DEF CallReceipt
      <4> QED
        BY <4>0, <4>2, <4>3, <4>4, <4>5, <3>2, <2>0, Settle DEF Known, Counted
    <3> QED
      BY <2>5, <3>1, <3>2 DEF MarkUncertain
  <2>6. CASE CallExhausted(w)
    BY <2>6, SetPcTyped, SettleQuietly DEF CallExhausted
  <2>7. CASE Recheck(w)
    <3>1. UNCHANGED <<op, answer>> /\ Known(k) /\ Kind(k) \in Calls
      BY <2>7, <2>0 DEF Recheck, AttemptOK
    <3>2. CASE SetPc(w, "checked")
      <4>1. /\ \A v \in Slots : v # w => attempt'[v] = attempt[v]
            /\ attempt'[w].at = k /\ attempt'[w].pc = "checked"
        BY <3>2, SetPcTyped
      <4>2. ASSUME NEW v \in Slots PROVE AttemptOK(v)'
        <5>1. CASE v # w
          BY <5>1, <4>1, <3>1 DEF Counted, AttemptOK, Known, CallOf
        <5>2. CASE v = w
          BY <5>2, <4>1, <3>1 DEF AttemptOK, Known, CallOf
        <5> QED
          BY <5>1, <5>2
      <4>3. \A q : Pending(q)' = Pending(q)
        BY <4>1, <2>7 DEF Recheck, Pending, CallOf
      <4> QED
        BY <4>2, <4>3, <3>1 DEF Counted, ReceiptOK
    <3>3. CASE attempt' = [attempt EXCEPT ![w].pc = "called", ![w].result = "limit"]
      <4>1. /\ \A v \in Slots : v # w => attempt'[v] = attempt[v]
            /\ attempt'[w].at = k /\ attempt'[w].pc = "called" /\ attempt'[w].result = "limit"
        BY <3>3 DEF OperationsTypeOK, Attempt, CallOf
      <4>2. AttemptOK(w)'
        BY <4>1, <3>1 DEF AttemptOK, Known, CallOf, Outcomes
      <4> QED
        BY <4>1, <4>2, <3>1, <2>0, Settle DEF Counted
    <3> QED
      BY <2>7, <3>2, <3>3 DEF Recheck
  <2>8. CASE Send(w)
    <3>1. PICK result \in ResultsOf(k) :
            attempt' = [attempt EXCEPT ![w].pc = "called", ![w].result = result]
      BY <2>8 DEF Send
    <3>2. result \in Outcomes /\ Known(k) /\ Kind(k) \in Calls
      BY <2>8, <2>0, ResultsTyped DEF Send, AttemptOK
    <3>3. /\ \A v \in Slots : v # w => attempt'[v] = attempt[v]
          /\ attempt'[w].at = k /\ attempt'[w].pc = "called" /\ attempt'[w].result = result
      BY <3>1 DEF OperationsTypeOK, Attempt, CallOf
    <3>4. /\ DOMAIN op' = DOMAIN op
          /\ op'[k] = [op[k] EXCEPT !.sent = op[k].sent + 1]
          /\ \A q \in DOMAIN op : q # k => op'[q] = op[q]
      BY <2>8, <3>2 DEF Send, Known
    <3>5. AttemptOK(w)'
      BY <3>2, <3>3, <3>4 DEF AttemptOK, Known, CallOf
    <3>6. w \in Pending(k)
      BY <2>8 DEF Send, Pending
    <3>7. /\ op'[k].attempts = op[k].attempts /\ op'[k].sent = op[k].sent + 1
          /\ op'[k].state = op[k].state /\ op'[k].result = op[k].result
      BY <3>2, <3>4, <2>0 DEF CallReceipt
    <3> QED
      BY <3>2, <3>3, <3>4, <3>5, <3>6, <3>7, <2>8, <2>0, Settle DEF Send, Counted
  <2>9. CASE Complete(w)
    <3>1. PICK files :
            \/ /\ op' = [op EXCEPT ![k].state = "succeeded", ![k].result = attempt[w].result]
               /\ See(w, attempt[w].result)
               /\ UNCHANGED answer
            \/ Refuse(w, EventOf(k) + files)
      BY <2>9 DEF Complete
    <3>2. CASE Refuse(w, EventOf(k) + files)
      BY <3>2, RefuseSettles
    <3>3. CASE /\ op' = [op EXCEPT ![k].state = "succeeded", ![k].result = attempt[w].result]
               /\ See(w, attempt[w].result) /\ UNCHANGED answer
      <4>1. attempt[w].result \in Outcomes /\ Known(k)
        BY <2>9, <2>0 DEF Complete, AttemptOK
      <4>2. /\ \A v \in Slots : v # w => attempt'[v] = attempt[v]
            /\ attempt'[w].pc = "ready"
        BY <3>3, <4>1, SeeTyped
      <4>3. /\ DOMAIN op' = DOMAIN op
            /\ op'[k] = [op[k] EXCEPT !.state = "succeeded", !.result = attempt[w].result]
            /\ \A q \in DOMAIN op : q # k => op'[q] = op[q]
        BY <3>3, <4>1 DEF Known
      <4>4. /\ op'[k].attempts = op[k].attempts /\ op'[k].sent = op[k].sent
            /\ op'[k].result = attempt[w].result
        BY <4>1, <4>3, <2>0 DEF CallReceipt
      <4>5. AttemptOK(w)'
        BY <4>2 DEF AttemptOK
      <4> QED
        BY <4>1, <4>2, <4>3, <4>4, <4>5, <3>3, <2>0, Settle DEF Counted
    <3> QED
      BY <3>1, <3>2, <3>3
  <2>10. CASE Stream(w)
    <3>1. UNCHANGED <<op, answer>> /\ Kind(k) = "answer"
      BY <2>10 DEF Stream
    <3>2. /\ \A v \in Slots : v # w => attempt'[v] = attempt[v]
          /\ attempt'[w].at = k /\ attempt'[w].pc \in {"publishing", "failing"}
      BY <2>10, SetPcTyped DEF Stream
    <3>3. AttemptOK(w)'
      BY <3>1, <3>2 DEF AttemptOK, CallOf
    <3> QED
      BY <3>1, <3>2, <3>3, <2>0, Settle DEF Counted
  <2>11. CASE Publish(w)
    <3>1. UNCHANGED op /\ answer' = k /\ Kind(k) = "answer"
      BY <2>11, <2>0 DEF Publish, AttemptOK
    <3>2. /\ \A v \in Slots : v # w => attempt'[v] = attempt[v]
          /\ attempt'[w].pc = "idle"
      BY <2>11 DEF Publish, OperationsTypeOK, NoAttempt
    <3>3. AttemptOK(w)'
      BY <3>2 DEF AttemptOK
    <3> QED
      BY <3>1, <3>2, <3>3, <2>0, Settle
  <2>12. CASE Raise(w)
    BY <2>12, SetPcTyped, SettleQuietly DEF Raise
  <2>13. CASE FinishFailure(w)
    BY <2>13, SettleQuietly DEF FinishFailure, OperationsTypeOK, NoAttempt
  <2>14. CASE AttemptDies(w)
    BY <2>14, SettleQuietly DEF AttemptDies, OperationsTypeOK, NoAttempt
  <2> QED
    BY <1>2, <2>1, <2>2, <2>3, <2>4, <2>5, <2>6, <2>7, <2>8, <2>9, <2>10, <2>11, <2>12,
       <2>13, <2>14 DEF Slot
<1> QED
  BY <1>1, <1>2 DEF OperationsNext, LoseFence, operationVars

-----------------------------------------------------------------------------
(* One line.                                                               *)

\* Receipts that were confirmed keep their result.
Kept(k) == Succeeded(k) => Succeeded(k)' /\ op'[k].result = op[k].result

\* The paths after a step are old ones, the empty one and at most one that
\* follows call k by its result r, which is confirmed now and, if it was
\* confirmed before, is the same.
LEMMA LineGrows ==
  ASSUME OperationsTypeOK, OneLine, NEW k \in Paths, k \in Seq(Outcomes), NEW r \in Outcomes,
         \A q : Kept(q),
         \A q \in Paths' :
           \/ q \in Paths \/ q = <<>>
           \/ /\ q = Append(k, r) /\ Succeeded(k)' /\ op'[k].result = r
              /\ Succeeded(k) => op[k].result = r
  PROVE  OneLine'
<1> DEFINE q1 == Append(k, r)
<1>0. ASSUME NEW p \in Paths PROVE p \in Seq(Outcomes)
  BY DEF Paths, OperationsTypeOK, Attempt, CallOf
<1>1. /\ q1 \in Seq(Outcomes) /\ Len(q1) = Len(k) + 1 /\ q1[Len(k) + 1] = r
      /\ \A i \in 1..Len(k) : q1[i] = k[i]
  OBVIOUS
<1>2. ASSUME NEW p \in Paths PROVE Replays(p)'
  BY DEF OneLine, Replays, Kept
<1>3. Replays(<<>>)' /\ \A p : Agree(p, <<>>) /\ Agree(<<>>, p)
  BY DEF Replays, Agree
<1>4. ASSUME Succeeded(k)', op'[k].result = r
      PROVE  Replays(q1)'
  <2>1. ASSUME NEW i \in 1..Len(q1)
        PROVE  Succeeded(SubSeq(q1, 1, i - 1))' /\ op'[SubSeq(q1, 1, i - 1)].result = q1[i]
    <3>1. CASE i = Len(k) + 1
      <4>1. SubSeq(q1, 1, i - 1) = k
        BY <3>1, <1>1
      <4> QED
        BY <4>1, <3>1, <1>1, <1>4
    <3>2. CASE i \in 1..Len(k)
      <4>1. SubSeq(q1, 1, i - 1) = SubSeq(k, 1, i - 1)
        BY <3>2, <1>1
      <4> QED
        BY <4>1, <3>2, <1>1, <1>2 DEF Replays
    <3> QED
      BY <3>1, <3>2, <1>1
  <2> QED
    BY <2>1 DEF Replays
<1>5. ASSUME NEW p \in Paths, Succeeded(k) => op[k].result = r
      PROVE  Agree(p, q1) /\ Agree(q1, p)
  <2>1. ASSUME NEW i \in 1..Len(p), i \in 1..Len(q1) PROVE p[i] = q1[i]
    <3>1. Agree(p, k) /\ Replays(p)
      BY DEF OneLine
    <3>2. CASE i \in 1..Len(k)
      BY <3>2, <3>1, <1>1 DEF Agree
    <3>3. CASE i = Len(k) + 1
      <4>0. p \in Seq(Outcomes)
        BY <1>0
      <4>1. SubSeq(p, 1, i - 1) = k
        BY <4>0, <3>3, <3>1 DEF Agree
      <4>2. Succeeded(k) /\ op[k].result = p[i]
        BY <4>1, <3>1, <2>1 DEF Replays
      <4> QED
        BY <4>2, <3>3, <1>1, <1>5
    <3> QED
      BY <2>1, <3>2, <3>3, <1>1
  <2> QED
    BY <2>1 DEF Agree
<1>6. Agree(q1, q1)
  BY DEF Agree
<1>7. \A q \in Paths' : Replays(q)'
  BY <1>2, <1>3, <1>4
<1>8. ASSUME NEW p \in Paths', NEW q \in Paths' PROVE Agree(p, q)
  BY <1>3, <1>5, <1>6 DEF OneLine
<1> QED
  BY <1>7, <1>8 DEF OneLine

\* Only slot w sees more; a call that gets a receipt and an answer that is
\* committed were what it had seen.
LEMMA PathsAfter ==
  ASSUME NEW w \in Slots, \A v \in Slots : v # w => attempt'[v] = attempt[v],
         DOMAIN op' \subseteq DOMAIN op \cup {CallOf(w)}, answer' \in {answer, CallOf(w)}
  PROVE  \A q \in Paths' : q \in Paths \/ q = attempt'[w].at
  BY DEF Paths, CallOf

\* Nobody sees more.
LEMMA LineStays ==
  ASSUME OperationsTypeOK, OneLine, NEW w \in Slots,
         \A v \in Slots : v # w => attempt'[v] = attempt[v],
         attempt'[w].at \in {<<>>, CallOf(w)},
         DOMAIN op' \subseteq DOMAIN op \cup {CallOf(w)}, answer' \in {answer, CallOf(w)},
         \A q : Kept(q)
  PROVE  OneLine'
<1>1. CallOf(w) \in Paths /\ CallOf(w) \in Seq(Outcomes)
  BY DEF Paths, OperationsTypeOK, Attempt, CallOf
<1>2. \A q \in Paths' : q \in Paths \/ q = <<>>
  BY <1>1, PathsAfter
<1>3. "limit" \in Outcomes
  BY DEF Outcomes
<1> QED
  BY <1>1, <1>2, <1>3, LineGrows

LEMMA NothingLost ==
  ASSUME UNCHANGED op
  PROVE  \A q : Kept(q)
  BY DEF Kept, Succeeded, Known

\* A receipt of a call that is not confirmed may be changed.
LEMMA OthersKept ==
  ASSUME NEW k, ~Succeeded(k), DOMAIN op \subseteq DOMAIN op',
         \A q \in DOMAIN op : q # k => op'[q] = op[q]
  PROVE  \A q : Kept(q)
  BY DEF Kept, Succeeded, Known

\* No step leaves the line, unless an event is refused.
LEMMA LineStep ==
  ASSUME OperationsTypeOK, Counted, ~refused => OneLine, [OperationsNext]_operationVars,
         ~refused'
  PROVE  OneLine'
<1>1. CASE UNCHANGED <<op, attempt, answer, refused>>
  BY <1>1 DEF OneLine, Paths, Replays, Succeeded, Known, CallOf
<1>2. ASSUME NEW w \in Slots, Slot(w) PROVE OneLine'
  <2> SUFFICES ASSUME NEW k, k = CallOf(w) PROVE OneLine'
    OBVIOUS
  <2>0. /\ k \in Seq(Outcomes) /\ k \in Paths
        /\ AttemptOK(w)
        /\ Known(k) => op[k] \in CallReceipt /\ ReceiptOK(k)
    BY DEF OperationsTypeOK, Attempt, CallOf, Counted, Known, Paths
  <2>a. \A n : ~Refuse(w, n)
    BY DEF Refuse
  <2>b. ~refused
    BY <1>2 DEF Slot, TakeRun, Reuse, Begin, Restart, MarkUncertain, CallExhausted, Recheck,
                Send, Complete, Stream, Publish, Raise, FinishFailure, AttemptDies, Refuse
  <2>c. OneLine
    BY <2>b
  <2>1. CASE TakeRun(w)
    <3>1. /\ \A v \in Slots : v # w => attempt'[v] = attempt[v]
          /\ attempt'[w].at = <<>>
      BY <2>1 DEF TakeRun, OperationsTypeOK
    <3> QED
      BY <2>1, <2>c, <3>1, NothingLost, LineStays DEF TakeRun
  <2>2. CASE Reuse(w)
    <3>1. op[k].result \in Outcomes /\ Succeeded(k) /\ UNCHANGED <<op, answer>>
      BY <2>2, <2>0 DEF Reuse, Succeeded, ReceiptOK
    <3>2. /\ \A v \in Slots : v # w => attempt'[v] = attempt[v]
          /\ attempt'[w].at = Append(k, op[k].result)
      BY <2>2, <3>1, SeeTyped DEF Reuse
    <3>3. \A q \in Paths' : q \in Paths \/ q = Append(k, op[k].result)
      BY <3>1, <3>2, PathsAfter
    <3>4. Succeeded(k)'
      BY <3>1 DEF Succeeded, Known
    <3> QED
      BY <2>0, <2>c, <3>1, <3>3, <3>4, NothingLost, LineGrows
  <2>3. CASE Begin(w)
    <3>1. Put(k, Begun(w, 1, 0)) /\ SetPc(w, "begun") /\ UNCHANGED answer /\ ~Known(k)
      BY <2>3, <2>a DEF Begin
    <3>2. /\ \A v \in Slots : v # w => attempt'[v] = attempt[v]
          /\ attempt'[w].at = k
      BY <3>1, SetPcTyped
    <3>3. ~Succeeded(k) /\ DOMAIN op' = DOMAIN op \cup {k}
          /\ \A q \in DOMAIN op : q # k => op'[q] = op[q]
      BY <3>1 DEF Succeeded, Put
    <3> QED
      BY <2>c, <3>1, <3>2, <3>3, OthersKept, LineStays
  <2>4. CASE Restart(w)
    <3>1. /\ Put(k, Begun(w, op[k].attempts + 1, op[k].sent)) /\ SetPc(w, "begun")
          /\ UNCHANGED answer /\ ~Succeeded(k)
      BY <2>4, <2>a DEF Restart, Unconfirmed
    <3>2. /\ \A v \in Slots : v # w => attempt'[v] = attempt[v]
          /\ attempt'[w].at = k
      BY <3>1, SetPcTyped
    <3>3. DOMAIN op' = DOMAIN op \cup {k} /\ \A q \in DOMAIN op : q # k => op'[q] = op[q]
      BY <3>1 DEF Put
    <3> QED
      BY <2>c, <3>1, <3>2, <3>3, OthersKept, LineStays
  <2>5. CASE MarkUncertain(w)
    <3>1. /\ Put(k, [op[k] EXCEPT !.state = "uncertain"]) /\ SetPc(w, "failing")
          /\ UNCHANGED answer /\ ~Succeeded(k)
      BY <2>5, <2>a DEF MarkUncertain, Unconfirmed
    <3>2. /\ \A v \in Slots : v # w => attempt'[v] = attempt[v]
          /\ attempt'[w].at = k
      BY <3>1, SetPcTyped
    <3>3. DOMAIN op' = DOMAIN op \cup {k} /\ \A q \in DOMAIN op : q # k => op'[q] = op[q]
      BY <3>1 DEF Put
    <3> QED
      BY <2>c, <3>1, <3>2, <3>3, OthersKept, LineStays
  <2>6. CASE CallExhausted(w)
    BY <2>6, <2>c, SetPcTyped, NothingLost, LineStays DEF CallExhausted
  <2>7. CASE Recheck(w)
    <3>1. /\ \A v \in Slots : v # w => attempt'[v] = attempt[v]
          /\ attempt'[w].at = k
      <4>1. CASE SetPc(w, "checked")
        BY <4>1, SetPcTyped
      <4>2. CASE attempt' = [attempt EXCEPT ![w].pc = "called", ![w].result = "limit"]
        BY <4>2 DEF OperationsTypeOK, Attempt, CallOf
      <4> QED
        BY <2>7, <4>1, <4>2 DEF Recheck
    <3> QED
      BY <2>7, <2>c, <3>1, NothingLost, LineStays DEF Recheck
  <2>8. CASE Send(w)
    <3>1. /\ \A v \in Slots : v # w => attempt'[v] = attempt[v]
          /\ attempt'[w].at = k
      BY <2>8 DEF Send, OperationsTypeOK, Attempt, CallOf
    <3>2. Known(k) /\ op[k] \in CallReceipt
      BY <2>8, <2>0 DEF Send, AttemptOK
    <3>3. /\ DOMAIN op' = DOMAIN op
          /\ op'[k] = [op[k] EXCEPT !.sent = op[k].sent + 1]
          /\ \A q \in DOMAIN op : q # k => op'[q] = op[q]
      BY <2>8, <3>2 DEF Send, Known
    <3>4. op'[k].state = op[k].state /\ op'[k].result = op[k].result
      BY <3>2, <3>3 DEF CallReceipt
    <3>5. \A q : Kept(q)
      BY <3>3, <3>4 DEF Kept, Succeeded, Known
    <3> QED
      BY <2>8, <2>c, <3>1, <3>3, <3>5, LineStays DEF Send
  <2>9. CASE Complete(w)
    <3>1. /\ op' = [op EXCEPT ![k].state = "succeeded", ![k].result = attempt[w].result]
          /\ See(w, attempt[w].result)
          /\ UNCHANGED answer
      BY <2>9, <2>a DEF Complete
    <3>2. attempt[w].result \in Outcomes /\ Known(k) /\ op[k] \in CallReceipt
      BY <2>9, <2>0 DEF Complete, AttemptOK
    <3>3. ~Succeeded(k)
      BY <2>9 DEF Complete, MayConfirm, Succeeded
    <3>4. /\ \A v \in Slots : v # w => attempt'[v] = attempt[v]
          /\ attempt'[w].at = Append(k, attempt[w].result)
      BY <3>1, <3>2, SeeTyped
    <3>5. /\ DOMAIN op' = DOMAIN op
          /\ op'[k] = [op[k] EXCEPT !.state = "succeeded", !.result = attempt[w].result]
          /\ \A q \in DOMAIN op : q # k => op'[q] = op[q]
      BY <3>1, <3>2 DEF Known
    <3>6. Succeeded(k)' /\ op'[k].result = attempt[w].result
      BY <3>2, <3>5 DEF Succeeded, Known, CallReceipt
    <3>7. \A q \in Paths' : q \in Paths \/ q = Append(k, attempt[w].result)
      BY <3>1, <3>4, <3>5, PathsAfter
    <3>8. \A q : Kept(q)
      BY <3>3, <3>5, OthersKept
    <3> QED
      BY <2>0, <2>c, <3>2, <3>3, <3>6, <3>7, <3>8, LineGrows
  <2>10. CASE Stream(w)
    BY <2>10, <2>c, SetPcTyped, NothingLost, LineStays DEF Stream
  <2>11. CASE Publish(w)
    <3>1. /\ \A v \in Slots : v # w => attempt'[v] = attempt[v]
          /\ attempt'[w].at = <<>>
      BY <2>11 DEF Publish, OperationsTypeOK, NoAttempt
    <3> QED
      BY <2>11, <2>c, <3>1, NothingLost, LineStays DEF Publish
  <2>12. CASE Raise(w)
    BY <2>12, <2>c, SetPcTyped, NothingLost, LineStays DEF Raise
  <2>13. CASE FinishFailure(w)
    <3>1. /\ \A v \in Slots : v # w => attempt'[v] = attempt[v]
          /\ attempt'[w].at = <<>>
      BY <2>13 DEF FinishFailure, OperationsTypeOK, NoAttempt
    <3> QED
      BY <2>13, <2>c, <3>1, NothingLost, LineStays DEF FinishFailure
  <2>14. CASE AttemptDies(w)
    <3>1. /\ \A v \in Slots : v # w => attempt'[v] = attempt[v]
          /\ attempt'[w].at = <<>>
      BY <2>14 DEF AttemptDies, OperationsTypeOK, NoAttempt
    <3> QED
      BY <2>14, <2>c, <3>1, NothingLost, LineStays DEF AttemptDies
  <2> QED
    BY <1>2, <2>1, <2>2, <2>3, <2>4, <2>5, <2>6, <2>7, <2>8, <2>9, <2>10, <2>11, <2>12,
       <2>13, <2>14 DEF Slot
<1> QED
  BY <1>1, <1>2 DEF OperationsNext, LoseFence, operationVars

-----------------------------------------------------------------------------
(* The theorems.                                                           *)

\* The invariant holds at first ...
LEMMA IInvInit ==
  ASSUME OperationsInit
  PROVE  IInv
<1>1. DOMAIN op = {}
  BY DEF OperationsInit
<1>2. OperationsTypeOK
  <2>1. [pc |-> "idle", gen |-> 0, at |-> <<>>, result |-> "none"] \in Attempt
    BY DEF Attempt
  <2>2. attempt \in [Slots -> Attempt]
    BY <2>1 DEF OperationsInit, NoAttempt
  <2>3. fence \in Fence!Fence
    BY DEF OperationsInit, Fence!Fence, Fence!Free
  <2>4. answer \in Seq(Outcomes)
    BY DEF OperationsInit
  <2> QED
    BY <1>1, <2>2, <2>3, <2>4 DEF OperationsInit, OperationsTypeOK
<1>3. Counted
  BY <1>1 DEF OperationsInit, Counted, AttemptOK, NoAttempt
<1>4. \A q \in Paths : q = <<>>
  BY <1>1 DEF OperationsInit, Paths, CallOf, NoAttempt
<1>5. OneLine
  BY <1>4 DEF OneLine, Replays, Agree
<1> QED
  BY <1>2, <1>3, <1>5 DEF IInv

\* ... and every step keeps it.
LEMMA IInvStep ==
  ASSUME IInv, [OperationsNext]_operationVars
  PROVE  IInv'
  BY TypeStep, CountStep, LineStep DEF IInv

\* Counting and the one line hold together with the types in every state.
THEOREM Invariance == OperationsSpec => []IInv
<1>1. OperationsInit => IInv
  BY IInvInit
<1>2. IInv /\ [OperationsNext]_operationVars => IInv'
  BY IInvStep
<1> QED
  BY <1>1, <1>2, PTL DEF OperationsSpec

\* The receipts, the attempts and the fence have their types.
THEOREM TypesHold == OperationsSpec => []OperationsTypeOK
<1>1. IInv => OperationsTypeOK
  BY DEF IInv
<1> QED
  BY <1>1, Invariance, PTL

\* A call with side effects goes out at most once, any other at most MaxReads
\* times: begin_operation counts an execution before it can be sent, and counts
\* no second one for a call with side effects, whichever owner asks.
THEOREM SideEffectsOnce == OperationsSpec => []SentAtMost
<1>1. ASSUME IInv PROVE SentAtMost
  <2>1. ASSUME NEW k \in DOMAIN op
        PROVE  op[k].sent <= IF Kind(k) = "write" THEN 1 ELSE MaxReads
    <3>1. ReceiptOK(k) /\ op[k] \in CallReceipt
      BY <1>1 DEF IInv, Counted, OperationsTypeOK
    <3>2. op[k].sent \in Nat /\ op[k].attempts \in Nat /\ Cardinality(Pending(k)) \in Nat
      BY <3>1, FewSlots DEF CallReceipt, Pending
    <3>3. MaxReads \in Nat
      BY OperationsAssumption DEF OperationsAssumption
    <3> QED
      BY <3>1, <3>2, <3>3 DEF ReceiptOK
  <2> QED
    BY <2>1 DEF SentAtMost
<1> QED
  BY <1>1, Invariance, PTL

\* An answer of a Run that no event was refused to is made from every side effect
\* of the Run: all attempts replay the confirmed receipts and so go the same way.
THEOREM EffectsAreKnown == OperationsSpec => []AnswerKnowsEffects
<1>1. ASSUME IInv PROVE AnswerKnowsEffects
  <2>1. SUFFICES ASSUME answer # <<>>, ~refused, NEW k \in DOMAIN op,
                        Kind(k) = "write", op[k].sent > 0
                 PROVE  /\ op[k].state = "succeeded"
                        /\ IsStrictPrefix(k, answer) /\ answer[Len(k) + 1] = op[k].result
    BY DEF AnswerKnowsEffects
  <2>2. /\ k \in Seq(Outcomes) /\ answer \in Seq(Outcomes)
        /\ Kind(answer) = "answer"
        /\ \A q \in DOMAIN op : Kind(q) \in Calls
    BY <1>1, <2>1 DEF IInv, Counted, OperationsTypeOK, ReceiptOK
  <2>3. Replays(k) /\ Replays(answer) /\ Agree(k, answer) /\ Agree(answer, k)
    BY <1>1, <2>1 DEF IInv, OneLine, Paths
  <2>4. CASE Len(k) < Len(answer)
    <3>1. SubSeq(answer, 1, Len(k)) = k
      BY <2>2, <2>3, <2>4 DEF Agree
    <3>2. Succeeded(k) /\ op[k].result = answer[Len(k) + 1]
      <4>1. PICK i : i \in 1..Len(answer) /\ i - 1 = Len(k) /\ i = Len(k) + 1
        BY <2>2, <2>4
      <4>2. Succeeded(SubSeq(answer, 1, i - 1)) /\ op[SubSeq(answer, 1, i - 1)].result = answer[i]
        BY <4>1, <2>3 DEF Replays
      <4> QED
        BY <4>1, <4>2, <3>1
    <3>3. IsPrefix(k, answer) /\ k # answer
      BY <3>1, <2>2, <2>4 DEF IsPrefix
    <3> QED
      BY <3>2, <3>3 DEF Succeeded, IsStrictPrefix
  <2>5. CASE Len(answer) = Len(k)
    <3>1. k = answer
      BY <2>5, <2>2, <2>3, SeqEqual DEF Agree
    <3> QED
      BY <3>1, <2>1, <2>2
  <2>6. CASE Len(answer) < Len(k)
    <3>1. SubSeq(k, 1, Len(answer)) = answer
      BY <2>2, <2>3, <2>6 DEF Agree
    <3>2. Succeeded(answer)
      <4>1. PICK i : i = Len(answer) + 1 /\ i - 1 = Len(answer) /\ i \in 1..Len(k)
        BY <2>2, <2>6
      <4>2. Succeeded(SubSeq(k, 1, i - 1))
        BY <4>1, <2>3 DEF Replays
      <4> QED
        BY <4>1, <4>2, <3>1
    <3> QED
      BY <3>2, <2>2 DEF Succeeded, Known, Calls
  <2> QED
    BY <2>2, <2>4, <2>5, <2>6
<1> QED
  BY <1>1, Invariance, PTL

\* docs/durable-run-execution.md promises that a side effect whose outcome could not
\* be confirmed is marked uncertain.  An answered Run keeps this promise unless an
\* event was refused: nothing else, no stall and no takeover, leaves one unmarked.
THEOREM MarkedUnlessRefused == OperationsSpec => [](~refused => UnconfirmedIsMarked)
<1>1. AnswerKnowsEffects => (~refused => UnconfirmedIsMarked)
  BY Zenon DEF AnswerKnowsEffects, UnconfirmedIsMarked
<1> QED
  BY <1>1, EffectsAreKnown, PTL

-----------------------------------------------------------------------------
(* The fence.                                                              *)

\* The receipts move the fence only as RunFence allows, which RunStore
\* implements: an attempt gets it with a new number or not at all, nobody gets
\* back a grant that was lost, and a Run that was answered is granted to nobody.
THEOREM KeepsFence == OperationsSpec => Fence!Spec
<1>1. ASSUME OperationsInit PROVE Fence!Init
  BY <1>1 DEF OperationsInit, Fence!Init, Fence!Free
<1>2. ASSUME OperationsTypeOK, [OperationsNext]_operationVars
      PROVE  [Fence!Next]_<<fence>>
  <2>1. CASE UNCHANGED fence
    BY <2>1
  <2>2. ASSUME Fence!Advance(fence, fence') PROVE Fence!Next
    BY <2>2 DEF Fence!Next
  <2>3. CASE LoseFence
    BY <2>3, <2>2 DEF LoseFence, Fence!Advance
  <2>4. ASSUME NEW w \in Slots, Slot(w) PROVE [Fence!Next]_<<fence>>
    <3>1. CASE TakeRun(w)
      BY <3>1, <2>2 DEF TakeRun, Fence!Advance
    <3>2. CASE Publish(w)
      <4>1. Fence!Close(fence, fence')
        BY <3>2 DEF Publish, HoldsFence, Fence!Close
      <4> QED
        BY <4>1, <2>2 DEF Fence!Advance
    <3>3. CASE FinishFailure(w)
      BY <3>3, <2>1, <2>2 DEF FinishFailure, Fence!Advance
    <3>4. CASE UNCHANGED fence
      BY <3>4
    <3> QED
      BY <2>4, <3>1, <3>2, <3>3, <3>4
         DEF Slot, Reuse, Begin, Restart, MarkUncertain, CallExhausted, Recheck, Send,
             Complete, Stream, Raise, AttemptDies, Refuse
  <2> QED
    BY <1>2, <2>1, <2>3, <2>4 DEF OperationsNext, operationVars
<1> QED
  BY <1>1, <1>2, TypesHold, PTL DEF OperationsSpec, Fence!Spec
=============================================================================
