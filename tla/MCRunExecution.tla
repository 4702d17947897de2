---------------------------- MODULE MCRunExecution ----------------------------
(* A Run from three sides: its row, which two processes take over from one   *)
(* another (RunStore), the models it is configured with (ModelCenter), and   *)
(* where its code runs (Sandbox).  They share nothing but the Run and are    *)
(* checked side by side.  An instance follows one of them, chosen at the     *)
(* start, and leaves the others as they began.                               *)
EXTENDS RunStore, Sandbox, ModelCenter

CONSTANTS p1, p2

MCProcesses == {p1, p2}

MCContents == {[model |-> "chat", enabled |-> TRUE], [model |-> "flash", enabled |-> TRUE],
               [model |-> "flash", enabled |-> FALSE]}

VARIABLE part
MCVars == <<vars, sandboxVars, modelCenterVars, part>>

MCInit ==
  /\ part \in {"store", "sandbox", "models"}
  /\ Init /\ SandboxInit /\ ModelCenterInit
  /\ part # "models" => versions[1].profiles["deepseek"].content.model = "flash"

MCNext ==
  \/ /\ part = "store" /\ Next
     /\ UNCHANGED <<sandboxVars, modelCenterVars, part>>
  \/ /\ part = "sandbox" /\ SandboxNext
     /\ UNCHANGED <<vars, modelCenterVars, part>>
  \/ /\ part = "models" /\ ModelCenterNext
     /\ probe' = NoProbe \/ usage' = Unused     \* neither has an effect on the other
     /\ UNCHANGED <<vars, sandboxVars, part>>

MCSpec == MCInit /\ [][MCNext]_MCVars /\ SandboxFairness
=============================================================================
