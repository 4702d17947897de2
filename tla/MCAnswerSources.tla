---------------------------- MODULE MCAnswerSources ----------------------------
(* What an answer rests on: the versions of a document series that it reads, *)
(* here two, built and retired without failures (DocumentStore), the tools   *)
(* and skills that it may call (Capabilities), and the outcomes of its       *)
(* calls, begun, taken over and repeated by two processes (RunOperations).   *)
(* They share nothing but the answer and are checked side by side.  An       *)
(* instance follows one of them, chosen at the start, and leaves the others  *)
(* as they began.                                                            *)
EXTENDS DocumentStore, Capabilities, RunOperations, TLC

CONSTANTS tool, skill, t1, t2, a1, a2

D(e, a, s) == [enabled |-> e, approval |-> a, scope |-> s]
MCTools == {tool}
MCSkills == {skill}
MCPolicies == {"sql", "sandbox"}
MCDeclarations ==
  [n \in {tool, skill} \cup MCPolicies |->
    CASE n = tool -> {D(TRUE, FALSE, {}), D(TRUE, TRUE, {}), D(FALSE, TRUE, {})}
      [] n = skill -> {D(TRUE, FALSE, {tool}), D(TRUE, FALSE, {"sql"})}
      [] n = "sql" -> {D(TRUE, FALSE, {t1}), D(FALSE, FALSE, {})}
      [] n = "sandbox" -> {D(TRUE, FALSE, {}), D(FALSE, FALSE, {})}]
MCSqlDefault == D(TRUE, FALSE, {t1, t2})
MCAdmins == {a1, a2}

VARIABLE part

MCInit ==
  /\ part \in {"documents", "capabilities", "operations"}
  /\ Init /\ CapabilityInit /\ OperationsInit
  /\ part # "operations" => room = 0

MCNext ==
  \/ /\ part = "documents" /\ Next
     /\ UNCHANGED <<capabilityVars, operationVars, part>>
  \/ /\ part = "capabilities" /\ CapabilityNext
     /\ UNCHANGED <<vars, operationVars, part>>
  \/ /\ part = "operations" /\ OperationsNext
     /\ UNCHANGED <<vars, capabilityVars, part>>

MCSpec == MCInit /\ [][MCNext]_<<vars, capabilityVars, operationVars, part>>

Symmetry == Permutations(Docs) \cup Permutations(Slots) \cup Permutations(Admins)
=============================================================================
