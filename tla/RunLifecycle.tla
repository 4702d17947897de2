---------------------------- MODULE RunLifecycle ----------------------------
(***************************************************************************)
(* What the durable Run protocol promises a user, with no workers, leases, *)
(* clocks or journals: an accepted Run is attempted any number of times,   *)
(* may ask questions, and ends at most once.  RunStore implements it.      *)
(*                                                                         *)
(* Several Runs may advance in one step, as one claim_next transaction     *)
(* settles some Runs and leases another.                                   *)
(***************************************************************************)
EXTENDS Naturals

CONSTANT Runs

VARIABLE life   \* [Runs -> Life]

Outcomes == {"succeeded", "failed", "cancelled", "interrupted"}

Life ==
  [phase    : {"none", "open", "asking", "closing", "removed"} \cup Outcomes,
   attempts : Nat,    \* executions started
   supplied : Nat,    \* supplements of the user the Run works with
   answer   : Nat]    \* the attempt whose answer was delivered, 0 = none

None == [phase |-> "none", attempts |-> 0, supplied |-> 0, answer |-> 0]
Gone == [None EXCEPT !.phase = "removed"]

(* What may happen to one Run: a is its life before, b after.              *)
Accept(a, b)  == a = None /\ b = [None EXCEPT !.phase = "open"]
Attempt(a, b) == a.phase = "open" /\ b = [a EXCEPT !.attempts = @ + 1]
Ask(a, b)     == a.phase = "open" /\ a.attempts > 0 /\ b = [a EXCEPT !.phase = "asking"]
Supply(a, b)  == a.phase = "asking"
                 /\ b = [a EXCEPT !.phase = "open", !.supplied = @ + 1]
\* A user's stop request is never answered with a success.
Stop(a, b)    == a.phase = "open" /\ b = [a EXCEPT !.phase = "closing"]
\* Only the latest attempt delivers.
Deliver(a, b) == a.phase = "open" /\ a.attempts > 0
                 /\ b = [a EXCEPT !.phase = "succeeded", !.answer = a.attempts]
Fail(a, b)    == a.phase \in {"open", "closing"} /\ b = [a EXCEPT !.phase = "failed"]
Cancel(a, b)  == a.phase \in {"open", "asking", "closing"}
                 /\ b = [a EXCEPT !.phase = "cancelled"]
Lapse(a, b)   == a.phase = "asking" /\ b = [a EXCEPT !.phase = "interrupted"]
Remove(a, b)  == a.phase \notin {"none", "removed"} /\ b = Gone

Advance(a, b) ==
  \/ Accept(a, b) \/ Attempt(a, b) \/ Ask(a, b) \/ Supply(a, b) \/ Stop(a, b)
  \/ Deliver(a, b) \/ Fail(a, b) \/ Cancel(a, b) \/ Lapse(a, b) \/ Remove(a, b)

Init == life = [r \in Runs |-> None]

Next ==
  /\ life' = [r \in Runs |-> life'[r]]
  /\ \A r \in Runs : life'[r] = life[r] \/ Advance(life[r], life'[r])

Spec == Init /\ [][Next]_life
=============================================================================
