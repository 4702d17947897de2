------------------------------ MODULE RunFence ------------------------------
(***************************************************************************)
(* What a call of a worker may rely on when RunStore.owned lets it pass:   *)
(* a Run is granted to one attempt at a time, each grant has a number of   *)
(* its own, a grant that was lost never comes back, and a Run that is over *)
(* is granted to nobody.  RunStore implements it, RunOperations is built   *)
(* on it.                                                                  *)
(***************************************************************************)
EXTENDS Naturals

CONSTANT Runs

VARIABLE fence   \* [Runs -> Fence]

Fence ==
  [gen   : Nat,                        \* the number of the last grant
   state : {"free", "held", "over"}]   \* held: its owner still passes owned();
                                       \* over: the Run ended or was deleted

Free == [gen |-> 0, state |-> "free"]
Over == [gen |-> 0, state |-> "over"]

(* What may happen to the fence of one Run: a is the fence before, b after. *)
Grant(a, b)  == a.state = "free" /\ b = [gen |-> a.gen + 1, state |-> "held"]
\* The lease or the deadline ran out, or somebody asked to stop.
Revoke(a, b) == a.state = "held" /\ b = [a EXCEPT !.state = "free"]
Close(a, b)  == a.state # "over" /\ b = Over

Advance(a, b) == Grant(a, b) \/ Revoke(a, b) \/ Close(a, b)

Init == fence = [r \in Runs |-> Free]

Next ==
  /\ fence' = [r \in Runs |-> fence'[r]]
  /\ \A r \in Runs : fence'[r] = fence[r] \/ Advance(fence[r], fence'[r])

Spec == Init /\ [][Next]_fence
=============================================================================
