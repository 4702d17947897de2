--------------------------- MODULE RunServicesProofs ---------------------------
(***************************************************************************)
(* Proofs about the services that a Run consults and uses: the catalogue   *)
(* of tools and skills (Capabilities), the containers its calls run in     *)
(* (Sandbox), the configured models (ModelCenter) and what its user may    *)
(* read (Sharing).  They share no state: each has an invariant of its own, *)
(* for any values of its constants.                                        *)
(***************************************************************************)
EXTENDS Capabilities, Sandbox, ModelCenter, Sharing, TLAPS

-----------------------------------------------------------------------------
(***************************************************************************)
(* Capabilities: a version means one declaration, tools are called as they *)
(* were approved, and a commit is allowed by the catalogue of that moment. *)
(***************************************************************************)

CapabilitySpec == CapabilityInit /\ [][CapabilityNext]_capabilityVars

-----------------------------------------------------------------------------
(* Entries, and how one revision of a name follows another.                *)

AllDeclarations == UNION {Declarations[n] : n \in Names}
Item == {Absent, RemovedItem} \cup [version : Nat, declaration : AllDeclarations]
Catalog == [Names -> Item]
Scopes == Names \cup UNION {d.scope : d \in AllDeclarations}

\* What a change makes of an entry.
Follows(e, f) ==
  \/ f = e
  \/ f = RemovedItem
  \/ e # RemovedItem /\ f # RemovedItem /\ f.version = e.version + 1

\* What all later changes make of it: versions only grow, a removed name stays.
Precedes(e, f) ==
  /\ e = RemovedItem => f = RemovedItem
  /\ f # RemovedItem => e.version <= f.version /\ (e.version = f.version => e = f)

\* A version of an entry is a number, whatever the entry is.
LEMMA ItemVersion == \A e \in Item : e.version \in Nat
  BY DEF Item, Absent, RemovedItem

\* An entry that has a version is not a removed one.
LEMMA VersionedIsThere == \A e \in Item : e.version > 0 => e # RemovedItem
  BY DEF Item, RemovedItem

\* Precedes is the reflexive and transitive closure of Follows.
LEMMA PrecedesItself == \A e \in Item : Precedes(e, e)
  BY ItemVersion DEF Precedes

LEMMA PrecedesFollows ==
  ASSUME NEW e \in Item, NEW f \in Item, NEW g \in Item, Precedes(e, f), Follows(f, g)
  PROVE  Precedes(e, g)
<1>0. e.version \in Nat /\ f.version \in Nat /\ g.version \in Nat BY ItemVersion
<1>1. CASE g = f BY <1>1
<1>2. CASE g = RemovedItem BY <1>2 DEF Precedes
<1>3. CASE f # RemovedItem /\ g # RemovedItem /\ g.version = f.version + 1
  <2>1. e # RemovedItem BY <1>3 DEF Precedes
  <2>2. e.version <= f.version BY <1>3 DEF Precedes
  <2>3. e.version < g.version BY <1>0, <1>3, <2>2
  <2> QED BY <1>0, <2>1, <2>3 DEF Precedes
<1> QED BY <1>1, <1>2, <1>3 DEF Follows

-----------------------------------------------------------------------------
(* The invariant.                                                          *)

Editing == [step : {"looking"}, seen : Nat] \cup [step : {"changing"}, new : Catalog]
Conversation ==
  [step : {"asking"}, shown : Nat]
    \cup [step : {"running", "saving"}, shown : Nat, revision : Nat, catalog : Catalog,
          skill : Skills \cup {"none"}, allowed : SUBSET Scopes, approved : SUBSET Scopes,
          calls : SUBSET [tool : Names, entry : Item]]

CapabilityTyped ==
  /\ history \in Seq(Catalog) /\ Len(history) \in Nat \ {0}
  /\ editor \in [Admins -> Editing]
  /\ admin \in BOOLEAN
  /\ chat \in Conversation

\* One change at a time, made of the last revision.
ChangesFollow ==
  /\ \A a, b \in Admins : editor[a].step = "changing" /\ editor[b].step = "changing" => a = b
  /\ \A a \in Admins : editor[a].step = "changing" =>
       \A n \in Names : Follows(row[n], editor[a].new[n])

VersionsGrow ==
  \A i, j \in 1..Len(history), n \in Names : i <= j => Precedes(history[i][n], history[j][n])

\* A policy is never removed, so that it may always be changed.
PoliciesStay ==
  /\ \A i \in 1..Len(history), n \in Policies : history[i][n] # RemovedItem
  /\ \A a \in Admins : editor[a].step = "changing" => \A n \in Policies : editor[a].new[n] # RemovedItem

HistoryInv == CapabilityTyped /\ ChangesFollow /\ VersionsGrow /\ PoliciesStay

\* What a Run holds is what its user approved, of the revision he was shown.
ApprovalInv ==
  chat.step \in {"running", "saving"} =>
    /\ \A c \in chat.calls : /\ c.tool \in chat.allowed /\ Registered(chat.catalog, c.tool)
                             /\ c.entry = chat.catalog[c.tool]
    /\ \A n \in chat.allowed : RequiresApproval(chat.catalog, n) => n \in chat.approved
    /\ chat.approved # {} => chat.shown \in 1..Len(history) /\ chat.catalog = history[chat.shown]

\* The row is not being changed while it is locked for a commit.
CommitInv == chat.step = "saving" => RowFree /\ StillAllowed(chat)

-----------------------------------------------------------------------------
(* The changes of the catalogue.                                           *)

LEMMA RowIsCatalog == CapabilityTyped => row \in Catalog /\ Len(history) \in 1..Len(history)
  BY DEF CapabilityTyped, row

LEMMA InitHistory == CapabilityInit => HistoryInv
<1> SUFFICES ASSUME CapabilityInit PROVE HistoryInv OBVIOUS
<1>1. [n \in Names |-> Absent] \in Catalog BY DEF Catalog, Item
<1>2. history \in Seq(Catalog) /\ Len(history) = 1 /\ history[1] = [n \in Names |-> Absent]
  BY <1>1 DEF CapabilityInit
<1>3. \A a \in Admins : editor[a] = Looking BY DEF CapabilityInit
<1>4. \A a \in Admins : editor[a].step # "changing" BY <1>3 DEF Looking
<1>5. editor \in [Admins -> Editing] BY DEF CapabilityInit, Editing, Looking
<1>6. chat \in Conversation /\ admin \in BOOLEAN BY DEF CapabilityInit, Asking, Conversation
<1>7. CapabilityTyped BY <1>2, <1>5, <1>6 DEF CapabilityTyped
<1>8. ChangesFollow BY <1>4 DEF ChangesFollow
<1>9. VersionsGrow
  <2>1. Absent \in Item BY DEF Item
  <2>2. \A i \in 1..Len(history), n \in Names : history[i][n] = Absent BY <1>2
  <2> QED BY <2>1, <2>2, PrecedesItself DEF VersionsGrow
<1>10. PoliciesStay
  <2>1. Absent # RemovedItem BY DEF Absent, RemovedItem
  <2>2. \A i \in 1..Len(history), n \in Policies : history[i][n] = Absent BY <1>2 DEF Names
  <2> QED BY <1>4, <2>1, <2>2 DEF PoliciesStay
<1> QED BY <1>7, <1>8, <1>9, <1>10 DEF HistoryInv

LEMMA KeepHistory ==
  ASSUME HistoryInv, history' = history, editor' = editor, admin' \in BOOLEAN, chat' \in Conversation
  PROVE  HistoryInv'
<1>1. CapabilityTyped' BY DEF HistoryInv, CapabilityTyped
<1>2. ChangesFollow' BY DEF HistoryInv, ChangesFollow, row
<1>3. VersionsGrow' BY DEF HistoryInv, VersionsGrow
<1>4. PoliciesStay' BY DEF HistoryInv, PoliciesStay
<1> QED BY <1>1, <1>2, <1>3, <1>4 DEF HistoryInv

\* A change that has locked the row.
LEMMA BeginChange ==
  ASSUME HistoryInv, RowFree, NEW a \in Admins, NEW new \in Catalog,
         \A n \in Names : Follows(row[n], new[n]), \A n \in Policies : new[n] # RemovedItem,
         editor' = [editor EXCEPT ![a] = [step |-> "changing", new |-> new]],
         UNCHANGED <<history, admin, chat>>
  PROVE  HistoryInv'
<1>1. editor'[a] = [step |-> "changing", new |-> new] /\ \A b \in Admins \ {a} : editor'[b] = editor[b]
  BY DEF HistoryInv, CapabilityTyped
<1>2. \A b \in Admins : editor[b].step # "changing" BY DEF RowFree
<1>3. \A b \in Admins : editor'[b].step = "changing" => b = a BY <1>1, <1>2
<1>4. [step |-> "changing", new |-> new] \in Editing BY DEF Editing
<1>5. CapabilityTyped' BY <1>4 DEF HistoryInv, CapabilityTyped
<1>6. ChangesFollow' BY <1>1, <1>3 DEF ChangesFollow, row
<1>7. VersionsGrow' BY DEF HistoryInv, VersionsGrow
<1>8. PoliciesStay' BY <1>1, <1>3 DEF HistoryInv, PoliciesStay
<1> QED BY <1>5, <1>6, <1>7, <1>8 DEF HistoryInv

LEMMA ChangeStep ==
  ASSUME HistoryInv, NEW a \in Admins, NEW n \in Names, NEW d \in Declarations[n], Change(a, n, d)
  PROVE  HistoryInv'
<1> DEFINE new == [row EXCEPT ![n] = [version |-> @.version + 1, declaration |-> d]]
<1>1. row \in Catalog BY RowIsCatalog DEF HistoryInv
<1>2. row[n] \in Item /\ row[n].version \in Nat BY <1>1, ItemVersion DEF Catalog
<1>3. [version |-> row[n].version + 1, declaration |-> d] \in Item
  <2>1. d \in AllDeclarations BY DEF AllDeclarations
  <2>2. row[n].version + 1 \in Nat BY <1>2
  <2> QED BY <2>1, <2>2 DEF Item
<1>4. new \in Catalog BY <1>1, <1>3 DEF Catalog
<1>5. new[n] = [version |-> row[n].version + 1, declaration |-> d] /\ \A m \in Names \ {n} : new[m] = row[m]
  BY <1>1 DEF Catalog
<1>6. new[n] # RemovedItem
  <2>1. new[n].version > 0 BY <1>2, <1>5
  <2> QED BY <1>3, <1>5, <2>1, VersionedIsThere
<1>7. row[n] # RemovedItem
  <2>1. n \in Policies \/ row[n] # RemovedItem BY DEF Change, Written, Reusable
  <2>2. n \in Policies => row[n] # RemovedItem BY RowIsCatalog DEF HistoryInv, PoliciesStay, row
  <2> QED BY <2>1, <2>2
<1>8. \A m \in Names : Follows(row[m], new[m])
  <2>1. Follows(row[n], new[n]) BY <1>5, <1>6, <1>7 DEF Follows
  <2> QED BY <1>5, <2>1 DEF Follows
<1>9. \A m \in Policies : new[m] # RemovedItem
  <2>1. \A m \in Policies : row[m] # RemovedItem BY RowIsCatalog DEF HistoryInv, PoliciesStay, row
  <2> QED BY <1>5, <1>6, <2>1 DEF Names
<1>10. editor' = [editor EXCEPT ![a] = [step |-> "changing", new |-> new]] BY DEF Change
<1>11. RowFree /\ UNCHANGED <<history, admin, chat>> BY DEF Change
<1> HIDE DEF new
<1> QED BY <1>4, <1>8, <1>9, <1>10, <1>11, BeginChange

LEMMA DeleteStep ==
  ASSUME HistoryInv, NEW a \in Admins, NEW n \in Names, Delete(a, n)
  PROVE  HistoryInv'
<1> DEFINE new == [row EXCEPT ![n] = RemovedItem]
<1>1. row \in Catalog BY RowIsCatalog DEF HistoryInv
<1>2. new \in Catalog BY <1>1 DEF Catalog, Item
<1>3. new[n] = RemovedItem /\ \A m \in Names \ {n} : new[m] = row[m] BY <1>1 DEF Catalog
<1>4. \A m \in Names : Follows(row[m], new[m]) BY <1>3 DEF Follows
<1>5. \A m \in Policies : new[m] # RemovedItem
  <2>1. \A m \in Policies : row[m] # RemovedItem BY RowIsCatalog DEF HistoryInv, PoliciesStay, row
  <2>2. n \notin Policies BY DEF Delete
  <2> QED BY <1>3, <2>1, <2>2 DEF Names
<1>6. editor' = [editor EXCEPT ![a] = [step |-> "changing", new |-> new]] BY DEF Delete
<1>7. RowFree /\ UNCHANGED <<history, admin, chat>> BY DEF Delete
<1> HIDE DEF new
<1> QED BY <1>2, <1>4, <1>5, <1>6, <1>7, BeginChange

LEMMA LookStep ==
  ASSUME HistoryInv, NEW a \in Admins, Look(a)
  PROVE  HistoryInv'
<1>0. editor[a] \in Editing /\ editor[a].step = "looking" BY DEF HistoryInv, CapabilityTyped, Look
<1>1. editor[a] \in [step : {"looking"}, seen : Nat] BY <1>0 DEF Editing
<1>2. [editor[a] EXCEPT !.seen = Len(history)] = [step |-> "looking", seen |-> Len(history)] BY <1>1
<1>3. editor'[a] = [step |-> "looking", seen |-> Len(history)]
      /\ \A b \in Admins \ {a} : editor'[b] = editor[b]
  BY <1>2 DEF Look, HistoryInv, CapabilityTyped
<1>4. editor' \in [Admins -> Editing]
  <2>1. [step |-> "looking", seen |-> Len(history)] \in Editing BY DEF Editing, HistoryInv, CapabilityTyped
  <2> QED BY <1>2, <2>1 DEF Look, HistoryInv, CapabilityTyped
<1>5. \A b \in Admins : editor'[b].step = "changing" => b # a /\ editor'[b] = editor[b] BY <1>3
<1>6. UNCHANGED <<history, admin, chat>> BY DEF Look
<1>7. CapabilityTyped' BY <1>4, <1>6 DEF HistoryInv, CapabilityTyped
<1>8. ChangesFollow' BY <1>5, <1>6 DEF HistoryInv, ChangesFollow, row
<1>9. VersionsGrow' BY <1>6 DEF HistoryInv, VersionsGrow
<1>10. PoliciesStay' BY <1>5, <1>6 DEF HistoryInv, PoliciesStay
<1> QED BY <1>7, <1>8, <1>9, <1>10 DEF HistoryInv

LEMMA PersistStep ==
  ASSUME HistoryInv, NEW a \in Admins, Persist(a)
  PROVE  HistoryInv'
<1> DEFINE new == editor[a].new
<1>0. editor[a] \in Editing /\ editor[a].step = "changing" BY DEF HistoryInv, CapabilityTyped, Persist
<1>1. new \in Catalog BY <1>0 DEF Editing
<1>2. /\ history' \in Seq(Catalog) /\ Len(history') = Len(history) + 1
      /\ history'[Len(history) + 1] = new
      /\ \A i \in 1..Len(history) : history'[i] = history[i]
  BY <1>1 DEF HistoryInv, CapabilityTyped, Persist
<1>3. editor'[a] = [step |-> "looking", seen |-> Len(history) + 1]
      /\ \A b \in Admins \ {a} : editor'[b] = editor[b]
  BY DEF Persist, HistoryInv, CapabilityTyped
<1>4. \A b \in Admins : editor'[b].step # "changing"
  <2>1. \A b \in Admins \ {a} : editor[b].step # "changing" BY <1>0 DEF HistoryInv, ChangesFollow
  <2> QED BY <1>3, <2>1
<1>5. CapabilityTyped'
  <2>1. [step |-> "looking", seen |-> Len(history) + 1] \in Editing BY DEF Editing, HistoryInv, CapabilityTyped
  <2>2. editor' \in [Admins -> Editing] BY <2>1 DEF HistoryInv, CapabilityTyped, Persist
  <2>3. admin' = admin /\ chat' = chat BY DEF Persist
  <2> QED BY <1>2, <2>2, <2>3 DEF HistoryInv, CapabilityTyped
<1>6. ChangesFollow' BY <1>4 DEF ChangesFollow
<1>7. VersionsGrow'
  <2> SUFFICES ASSUME NEW i \in 1..Len(history'), NEW j \in 1..Len(history'), NEW n \in Names, i <= j
               PROVE  Precedes(history'[i][n], history'[j][n])
    BY DEF VersionsGrow
  <2>0. \A k \in 1..Len(history) : history[k] \in Catalog BY DEF HistoryInv, CapabilityTyped
  <2>1. CASE j \in 1..Len(history)
    <3>1. i \in 1..Len(history) BY <2>1
    <3> QED BY <1>2, <2>1, <3>1 DEF HistoryInv, VersionsGrow
  <2>2. CASE j = Len(history) + 1 /\ i \in 1..Len(history)
    <3>1. Len(history) \in 1..Len(history) BY RowIsCatalog DEF HistoryInv
    <3>2. Precedes(history[i][n], row[n]) BY <2>2, <3>1 DEF HistoryInv, VersionsGrow, row
    <3>3. Follows(row[n], new[n]) BY <1>0 DEF HistoryInv, ChangesFollow
    <3>4. history[i][n] \in Item /\ row[n] \in Item /\ new[n] \in Item
      BY <1>1, <2>0, <2>2, <3>1 DEF Catalog, row
    <3>5. Precedes(history[i][n], new[n]) BY <3>2, <3>3, <3>4, PrecedesFollows
    <3> QED BY <1>2, <2>2, <3>5
  <2>3. CASE j = Len(history) + 1 /\ i = Len(history) + 1
    <3>1. new[n] \in Item BY <1>1 DEF Catalog
    <3> QED BY <1>2, <2>3, <3>1, PrecedesItself
  <2> QED BY <1>2, <2>1, <2>2, <2>3 DEF HistoryInv, CapabilityTyped
<1>8. PoliciesStay'
  <2>1. \A n \in Policies : new[n] # RemovedItem BY <1>0 DEF HistoryInv, PoliciesStay
  <2>2. \A i \in 1..Len(history') : i \in 1..Len(history) \/ i = Len(history) + 1
    BY <1>2 DEF HistoryInv, CapabilityTyped
  <2>3. \A i \in 1..Len(history'), n \in Policies : history'[i][n] # RemovedItem
    BY <1>2, <2>1, <2>2 DEF HistoryInv, PoliciesStay
  <2> QED BY <1>4, <2>3 DEF PoliciesStay
<1> QED BY <1>5, <1>6, <1>7, <1>8 DEF HistoryInv

-----------------------------------------------------------------------------
(* The Run.                                                                *)

Running ==
  [step : {"running", "saving"}, shown : Nat, revision : Nat, catalog : Catalog,
   skill : Skills \cup {"none"}, allowed : SUBSET Scopes, approved : SUBSET Scopes,
   calls : SUBSET [tool : Names, entry : Item]]

\* A Run that has been made has all of its fields.
LEMMA RunIsTyped ==
  ASSUME chat \in Conversation, chat.step \in {"running", "saving"}
  PROVE  chat \in Running
  BY DEF Conversation, Running

LEMMA RunIsConversation == Running \subseteq Conversation
  BY DEF Conversation, Running

LEMMA ShowStep ==
  ASSUME HistoryInv, Show
  PROVE  HistoryInv' /\ chat'.step = "asking"
<1>1. chat \in [step : {"asking"}, shown : Nat] BY DEF HistoryInv, CapabilityTyped, Show, Conversation
<1>2. chat' = [step |-> "asking", shown |-> Len(history)] BY <1>1 DEF Show
<1>3. chat' \in Conversation BY <1>2 DEF Conversation, HistoryInv, CapabilityTyped
<1>4. HistoryInv' BY <1>3, KeepHistory DEF Show, HistoryInv, CapabilityTyped
<1> QED BY <1>2, <1>4

\* The tools a Run may use are names, or tables that name nothing.
LEMMA FrozenInScopes ==
  ASSUME row \in Catalog, NEW skill \in Skills \cup {"none"}, NEW approved,
         skill \in Skills => SkillAvailable(row, admin, skill)
  PROVE  Frozen(skill, approved) \subseteq Scopes
<1>1. CASE skill \in Skills
  <2>1. row[skill] \in Item /\ row[skill].version > 0
    BY <1>1 DEF SkillAvailable, Registered, Catalog, Names
  <2>2. row[skill].declaration \in AllDeclarations BY <2>1 DEF Item, Absent, RemovedItem
  <2>3. Declared(row, skill).scope \subseteq Scopes BY <2>2 DEF Declared, Scopes
  <2> QED BY <1>1, <2>3 DEF Frozen
<1>2. CASE skill \notin Skills
  <2>1. Tools \cup Builtins(row) \subseteq Scopes BY DEF Scopes, Builtins, Names
  <2> QED BY <1>2, <2>1 DEF Frozen
<1> QED BY <1>1, <1>2

LEMMA FreezeStep ==
  ASSUME HistoryInv, NEW skill \in Skills \cup {"none"}, NEW approved \in SUBSET (Tools \cup {"sandbox"}),
         Freeze(skill, approved)
  PROVE  HistoryInv' /\ chat'.step = "running" /\ ApprovalInv'
<1> DEFINE run == [step |-> "running", shown |-> chat.shown, revision |-> Len(history), catalog |-> row,
                   skill |-> skill, allowed |-> Frozen(skill, approved), approved |-> approved, calls |-> {}]
<1>1. chat' = run /\ UNCHANGED <<history, editor, admin>> BY DEF Freeze
<1>2. row \in Catalog /\ Len(history) \in 1..Len(history) BY RowIsCatalog DEF HistoryInv
<1>3. chat \in [step : {"asking"}, shown : Nat] BY DEF HistoryInv, CapabilityTyped, Freeze, Conversation
<1>4. skill \in Skills => SkillAvailable(row, admin, skill) BY DEF Freeze
<1>5. Frozen(skill, approved) \subseteq Scopes BY <1>2, <1>4, FrozenInScopes
<1>6. approved \subseteq Scopes BY <1>5 DEF Freeze
<1>7. run \in Running BY <1>2, <1>3, <1>5, <1>6 DEF Running, HistoryInv, CapabilityTyped
<1>8. HistoryInv' BY <1>1, <1>7, KeepHistory, RunIsConversation DEF HistoryInv, CapabilityTyped
<1>9. ApprovalInv'
  <2>1. \A n \in Frozen(skill, approved) : RequiresApproval(row, n) => n \in approved BY DEF Frozen
  <2>2. approved # {} => chat.shown = Len(history) BY DEF Freeze, Confirmed
  <2>3. approved # {} => chat.shown \in 1..Len(history') /\ row = history'[chat.shown]
    BY <1>1, <1>2, <2>2 DEF row
  <2> QED BY <1>1, <2>1, <2>3 DEF ApprovalInv
<1> QED BY <1>1, <1>8, <1>9

LEMMA CallStep ==
  ASSUME HistoryInv, ApprovalInv, NEW n \in Names, Call(n)
  PROVE  HistoryInv' /\ chat'.step = "running" /\ ApprovalInv'
<1> DEFINE made == [tool |-> n, entry |-> Used(chat, n)]
<1>1. chat \in Running /\ chat.step = "running" BY RunIsTyped DEF HistoryInv, CapabilityTyped, Call
<1>2. chat' = [chat EXCEPT !.calls = chat.calls \cup {made}] /\ UNCHANGED <<history, editor, admin>>
  BY DEF Call
<1>3. made \in [tool : Names, entry : Item] BY <1>1 DEF Running, Catalog, Used
<1>4. chat' \in Running BY <1>1, <1>2, <1>3 DEF Running
<1>5. /\ chat'.step = "running" /\ chat'.calls = chat.calls \cup {made}
      /\ chat'.allowed = chat.allowed /\ chat'.approved = chat.approved
      /\ chat'.catalog = chat.catalog /\ chat'.shown = chat.shown
  BY <1>1, <1>2 DEF Running
<1>6. HistoryInv' BY <1>2, <1>4, KeepHistory, RunIsConversation DEF HistoryInv, CapabilityTyped
<1>7. made.tool = n /\ made.entry = chat.catalog[n] BY DEF Used
<1>8. n \in chat.allowed /\ Registered(chat.catalog, n) BY DEF Call
<1> HIDE DEF made
<1>9. ApprovalInv'
  <2>1. \A c \in chat'.calls : /\ c.tool \in chat'.allowed /\ Registered(chat'.catalog, c.tool)
                                /\ c.entry = chat'.catalog[c.tool]
    BY <1>1, <1>5, <1>7, <1>8 DEF ApprovalInv
  <2> QED BY <1>1, <1>2, <1>5, <2>1 DEF ApprovalInv
<1> QED BY <1>5, <1>6, <1>9

LEMMA ValidateStep ==
  ASSUME HistoryInv, ApprovalInv, ValidateApproval
  PROVE  HistoryInv' /\ ApprovalInv' /\ CommitInv'
<1>1. chat \in Running /\ chat.step = "running" BY RunIsTyped DEF HistoryInv, CapabilityTyped, ValidateApproval
<1>2. chat' = [chat EXCEPT !.step = "saving"] /\ UNCHANGED <<history, editor, admin>> BY DEF ValidateApproval
<1>3. chat' \in Running BY <1>1, <1>2 DEF Running
<1>4. /\ chat'.step = "saving" /\ chat'.calls = chat.calls /\ chat'.allowed = chat.allowed
      /\ chat'.approved = chat.approved /\ chat'.catalog = chat.catalog /\ chat'.shown = chat.shown
      /\ chat'.revision = chat.revision /\ chat'.skill = chat.skill
  BY <1>1, <1>2 DEF Running
<1>5. HistoryInv' BY <1>2, <1>3, KeepHistory, RunIsConversation DEF HistoryInv, CapabilityTyped
<1>6. ApprovalInv' BY <1>1, <1>2, <1>4 DEF ApprovalInv
<1>7. RowFree' BY <1>2 DEF ValidateApproval, RowFree
<1>8. StillAllowed(chat) BY DEF ValidateApproval
<1>9. StillAllowed(chat)' BY <1>2, <1>4, <1>8 DEF StillAllowed, row, SkillAvailable, ToolAvailable,
        RequiresApproval, Registered, Declared, SqlPolicy
<1> QED BY <1>5, <1>6, <1>7, <1>9 DEF CommitInv

\* The user asks again.
LEMMA AskAgain ==
  ASSUME HistoryInv, chat' = Asking, UNCHANGED <<history, editor, admin>>
  PROVE  HistoryInv' /\ ApprovalInv' /\ CommitInv'
<1>1. Asking \in Conversation /\ Asking.step = "asking" BY DEF Asking, Conversation
<1>2. HistoryInv' BY <1>1, KeepHistory DEF HistoryInv, CapabilityTyped
<1> QED BY <1>1, <1>2 DEF ApprovalInv, CommitInv

-----------------------------------------------------------------------------
(* What the changes mean to a Run.                                         *)

LEMMA KeepApproval ==
  ASSUME HistoryInv, ApprovalInv, chat' = chat, Len(history') >= Len(history), Len(history') \in Nat,
         \A i \in 1..Len(history) : history'[i] = history[i]
  PROVE  ApprovalInv'
<1>1. Len(history) \in Nat BY DEF HistoryInv, CapabilityTyped
<1>2. 1..Len(history) \subseteq 1..Len(history') BY <1>1
<1> QED BY <1>2 DEF ApprovalInv

\* Nobody changes the row that a Run has locked.
LEMMA ChangesWait ==
  ASSUME CommitInv, NEW a \in Admins,
         \/ \E n \in Names : Delete(a, n) \/ \E d \in Declarations[n] : Change(a, n, d)
         \/ Persist(a)
  PROVE  chat' = chat /\ chat.step # "saving"
<1>1. Persist(a) => ~RowFree BY DEF Persist, RowFree
<1> QED BY <1>1 DEF CommitInv, Persist, Delete, Change, Shared

LEMMA LookKeepsCommit ==
  ASSUME HistoryInv, CommitInv, NEW a \in Admins, Look(a)
  PROVE  CommitInv'
<1>0. editor[a] \in Editing /\ editor[a].step = "looking" BY DEF HistoryInv, CapabilityTyped, Look
<1>1. editor[a] \in [step : {"looking"}, seen : Nat] BY <1>0 DEF Editing
<1>2. [editor[a] EXCEPT !.seen = Len(history)].step = "looking" BY <1>1
<1>3. \A b \in Admins : editor'[b].step = "changing" => editor[b].step = "changing"
  BY <1>2 DEF Look, HistoryInv, CapabilityTyped
<1>4. RowFree => RowFree' BY <1>3 DEF RowFree
<1>5. UNCHANGED <<history, admin, chat>> BY DEF Look
<1>6. StillAllowed(chat) => StillAllowed(chat)'
  BY <1>5 DEF StillAllowed, row, SkillAvailable, ToolAvailable, RequiresApproval, Registered, Declared, SqlPolicy
<1> QED BY <1>4, <1>5, <1>6 DEF CommitInv

\* More is allowed to an administrator.
LEMMA PromoteKeepsCommit ==
  ASSUME CommitInv, Promote
  PROVE  CommitInv'
<1>1. admin' = TRUE /\ UNCHANGED <<history, editor, chat>> BY DEF Promote
<1>2. RowFree => RowFree' BY <1>1 DEF RowFree
<1>3. ASSUME NEW c, NEW n, ToolAvailable(c, admin, n) PROVE ToolAvailable(c, admin, n)'
  BY <1>1, <1>3 DEF ToolAvailable, RequiresApproval, Registered, Declared, SqlPolicy
<1>4. ASSUME NEW c, NEW k, SkillAvailable(c, admin, k) PROVE SkillAvailable(c, admin, k)'
  BY <1>3, <1>4 DEF SkillAvailable, Registered, Declared
<1>5. StillAllowed(chat) => StillAllowed(chat)'
  <2> SUFFICES ASSUME StillAllowed(chat) PROVE StillAllowed(chat)' OBVIOUS
  <2>1. (chat.approved # {} => admin)' /\ (history[chat.revision] = chat.catalog)'
    BY <1>1 DEF StillAllowed
  <2>2. (chat.skill \in Skills => \A c \in {chat.catalog, row} : SkillAvailable(c, admin, chat.skill))'
    BY <1>1, <1>4 DEF StillAllowed, row
  <2>3. ("sql" \in chat.allowed => /\ SqlPolicy(row).enabled
                                   /\ SqlPolicy(chat.catalog).scope \subseteq SqlPolicy(row).scope)'
    BY <1>1 DEF StillAllowed, row, SqlPolicy, Registered, Declared
  <2>4. (\A n \in chat.allowed : /\ ToolAvailable(row, admin, n)
                                 /\ RequiresApproval(row, n) => n \in chat.approved)'
    BY <1>1, <1>3 DEF StillAllowed, row, RequiresApproval, Registered, Declared
  <2> QED BY <2>1, <2>2, <2>3, <2>4 DEF StillAllowed
<1> QED BY <1>1, <1>2, <1>5 DEF CommitInv

-----------------------------------------------------------------------------
(* The theorems.                                                           *)

CapabilityInv == HistoryInv /\ ApprovalInv /\ CommitInv

LEMMA CapabilityInitial == CapabilityInit => CapabilityInv
<1>1. CapabilityInit => chat.step = "asking" BY DEF CapabilityInit, Asking
<1> QED BY <1>1, InitHistory DEF CapabilityInv, ApprovalInv, CommitInv

LEMMA AdminSteps ==
  ASSUME CapabilityInv, NEW a \in Admins,
         \/ \E n \in Names : Delete(a, n) \/ \E d \in Declarations[n] : Change(a, n, d)
         \/ Look(a) \/ Persist(a)
  PROVE  CapabilityInv'
<1>0. HistoryInv /\ ApprovalInv /\ CommitInv BY DEF CapabilityInv
<1>1. HistoryInv' BY <1>0, ChangeStep, DeleteStep, LookStep, PersistStep
<1>2. chat' = chat BY DEF Delete, Change, Look, Persist
<1>3. history' = history \/ history' = Append(history, editor[a].new) BY DEF Delete, Change, Look, Persist
<1>4. /\ Len(history') >= Len(history) /\ Len(history') \in Nat
      /\ \A i \in 1..Len(history) : history'[i] = history[i]
  <2>1. CASE history' = history BY <1>0, <2>1 DEF HistoryInv, CapabilityTyped
  <2>2. CASE history' = Append(history, editor[a].new) BY <1>0, <2>2 DEF HistoryInv, CapabilityTyped
  <2> QED BY <1>3, <2>1, <2>2
<1>5. ApprovalInv' BY <1>0, <1>2, <1>4, KeepApproval
<1>6. CommitInv'
  <2>1. CASE Look(a) BY <1>0, <2>1, LookKeepsCommit
  <2>2. CASE ~Look(a)
    <3>1. chat' = chat /\ chat.step # "saving" BY <1>0, <2>2, ChangesWait
    <3> QED BY <3>1 DEF CommitInv
  <2> QED BY <2>1, <2>2
<1> QED BY <1>1, <1>5, <1>6 DEF CapabilityInv

LEMMA RoleSteps ==
  ASSUME CapabilityInv, Promote \/ Demote
  PROVE  CapabilityInv'
<1>0. HistoryInv /\ ApprovalInv /\ CommitInv BY DEF CapabilityInv
<1>1. UNCHANGED <<history, editor, chat>> /\ admin' \in BOOLEAN BY DEF Promote, Demote
<1>2. HistoryInv' BY <1>0, <1>1, KeepHistory DEF HistoryInv, CapabilityTyped
<1>3. ApprovalInv' BY <1>0, <1>1 DEF ApprovalInv
<1>4. CommitInv'
  <2>1. Demote => chat'.step # "saving" BY <1>1 DEF Demote, Shared
  <2> QED BY <1>0, <2>1, PromoteKeepsCommit DEF CommitInv
<1> QED BY <1>2, <1>3, <1>4 DEF CapabilityInv

LEMMA RunSteps ==
  ASSUME CapabilityInv,
         \/ \E skill \in Skills \cup {"none"}, approved \in SUBSET (Tools \cup {"sandbox"}) :
               Freeze(skill, approved)
         \/ \E n \in Names : Call(n)
         \/ Show \/ ValidateApproval \/ Save \/ Fail
  PROVE  CapabilityInv'
<1>0. HistoryInv /\ ApprovalInv /\ CommitInv BY DEF CapabilityInv
<1>1. CASE \E skill \in Skills \cup {"none"}, approved \in SUBSET (Tools \cup {"sandbox"}) :
             Freeze(skill, approved)
  <2>1. HistoryInv' /\ chat'.step = "running" /\ ApprovalInv' BY <1>0, <1>1, FreezeStep
  <2> QED BY <2>1 DEF CapabilityInv, CommitInv
<1>2. CASE \E n \in Names : Call(n)
  <2>1. HistoryInv' /\ chat'.step = "running" /\ ApprovalInv' BY <1>0, <1>2, CallStep
  <2> QED BY <2>1 DEF CapabilityInv, CommitInv
<1>3. CASE Show
  <2>1. HistoryInv' /\ chat'.step = "asking" BY <1>0, <1>3, ShowStep
  <2> QED BY <2>1 DEF CapabilityInv, ApprovalInv, CommitInv
<1>4. CASE ValidateApproval BY <1>0, <1>4, ValidateStep DEF CapabilityInv
<1>5. CASE Save \/ Fail
  <2>1. chat' = Asking /\ UNCHANGED <<history, editor, admin>> BY <1>5 DEF Save, Fail
  <2> QED BY <1>0, <2>1, AskAgain DEF CapabilityInv
<1> QED BY <1>1, <1>2, <1>3, <1>4, <1>5

LEMMA CapabilityInductive == CapabilityInv /\ [CapabilityNext]_capabilityVars => CapabilityInv'
<1> SUFFICES ASSUME CapabilityInv, [CapabilityNext]_capabilityVars PROVE CapabilityInv' OBVIOUS
<1>1. CASE UNCHANGED capabilityVars
  BY <1>1 DEF capabilityVars, CapabilityInv, HistoryInv, CapabilityTyped, ChangesFollow, VersionsGrow, PoliciesStay, row,
     ApprovalInv, CommitInv, RowFree, StillAllowed, SkillAvailable, ToolAvailable, RequiresApproval,
     Registered, Declared, SqlPolicy
<1>2. CASE CapabilityNext BY <1>2, AdminSteps, RoleSteps, RunSteps DEF CapabilityNext
<1> QED BY <1>1, <1>2

\* The invariant of the catalogue and its Run holds.
THEOREM CapabilityInvariance == CapabilitySpec => []CapabilityInv
  BY CapabilityInitial, CapabilityInductive, PTL DEF CapabilitySpec

\* A name and a version mean one declaration in all revisions, whatever is
\* declared, changed, deleted and declared again (change, delete).
THEOREM VersionsAreUnique == CapabilitySpec => []VersionsIdentify
<1>1. CapabilityInv => VersionsIdentify
  <2> SUFFICES ASSUME CapabilityInv, NEW i \in 1..Len(history), NEW j \in 1..Len(history), NEW n \in Names,
                      Registered(history[i], n), history[i][n].version = history[j][n].version
               PROVE  history[i][n] = history[j][n]
    BY DEF VersionsIdentify
  <2>1. history[i][n] \in Item /\ history[j][n] \in Item BY DEF CapabilityInv, HistoryInv, CapabilityTyped, Catalog
  <2>2. history[i][n] # RemovedItem /\ history[j][n] # RemovedItem BY <2>1, VersionedIsThere DEF Registered
  <2>3. CASE i <= j
    <3>1. Precedes(history[i][n], history[j][n]) BY <2>3 DEF CapabilityInv, HistoryInv, VersionsGrow
    <3> QED BY <2>2, <3>1 DEF Precedes
  <2>4. CASE j <= i
    <3>1. Precedes(history[j][n], history[i][n]) BY <2>4 DEF CapabilityInv, HistoryInv, VersionsGrow
    <3> QED BY <2>2, <3>1 DEF Precedes
  <2> QED BY <2>3, <2>4
<1> QED BY <1>1, CapabilityInvariance, PTL

\* A tool that needs approval is called with the declaration its user was shown
\* (freeze, validate_execution).
THEOREM CallsWereApproved == CapabilitySpec => []ApprovedAsShown
<1>1. CapabilityInv => ApprovedAsShown
  <2> SUFFICES ASSUME CapabilityInv, chat.step \in {"running", "saving"}, NEW c \in chat.calls,
                      c.tool = "sandbox" \/ (c.tool \in Tools /\ c.entry.declaration.approval)
               PROVE  c.tool \in chat.approved /\ c.entry = history[chat.shown][c.tool]
    BY DEF ApprovedAsShown
  <2>1. /\ c.tool \in chat.allowed /\ Registered(chat.catalog, c.tool) /\ c.entry = chat.catalog[c.tool]
        /\ \A n \in chat.allowed : RequiresApproval(chat.catalog, n) => n \in chat.approved
        /\ chat.approved # {} => chat.catalog = history[chat.shown]
    BY DEF CapabilityInv, ApprovalInv
  <2>2. RequiresApproval(chat.catalog, c.tool) BY <2>1 DEF RequiresApproval, Declared
  <2>3. c.tool \in chat.approved BY <2>1, <2>2
  <2> QED BY <2>1, <2>3
<1> QED BY <1>1, CapabilityInvariance, PTL

\* What a Run was given is still allowed by the catalogue of the moment in which
\* its answer or a file is committed (validate_execution under FOR SHARE).
THEOREM CommitsAreAllowed == CapabilitySpec => []AllowedAtCommit
<1>1. CapabilityInv => AllowedAtCommit BY DEF CapabilityInv, CommitInv, AllowedAtCommit
<1> QED BY <1>1, CapabilityInvariance, PTL

-----------------------------------------------------------------------------
(***************************************************************************)
(* Sandbox: a reaper leaves a live container alone, and which reports of   *)
(* the runner are understood outside.                                      *)
(***************************************************************************)

SandboxSpec == SandboxInit /\ [][SandboxNext]_sandboxVars

-----------------------------------------------------------------------------
(* The invariant.                                                          *)

Attempts ==
  [step : {"away", "working", "create", "start", "attached", "clean", "save", "confirm"},
   gen : Nat, call : Calls \cup {0}, good : BOOLEAN]
Containers ==
  [phase : {"none", "late", "created", "reading", "executing", "collecting", "exited", "killed", "gone"},
   old : BOOLEAN, report : Report]

SandboxTyped ==
  /\ runs \in [open : BOOLEAN, owner : Processes \cup {"nobody"}, gen : Nat, lease : BOOLEAN]
  /\ work \in [Processes -> Attempts]
  /\ container \in [Calls -> Containers]
  /\ guard \in [Processes -> Calls \cup {0}]
  /\ receipt \in [Calls -> {"none", "started", "succeeded"}]

\* Whom a reaper has locked out does not run.
GuardInv == \A p \in Processes : guard[p] # 0 => ~ActiveOwner

\* What is understood outside: all but a success with a path that is too long.
Understood(report) == Decodable(report) <=> ~(report.success /\ report.files = "long")

\* What a container has to report at each place of its runner.
ReportInv(box) ==
  /\ box.phase \in {"none", "late", "created", "reading", "executing", "killed", "gone"} => box.report = Blank
  /\ box.phase = "collecting" => box.report = [Blank EXCEPT !.zero = TRUE]
  /\ box.phase = "exited" => Understood(box.report)

\* A call has no container before its only attempt makes it.
Before(c) == container[c].phase \in {"none", "gone"}
CreateInv ==
  /\ \A c \in Calls : receipt[c] = "none" => Before(c)
  /\ \A p \in Processes : ~At(p, "away") /\ ~At(p, "working") => work[p].call \in Calls
  /\ \A p \in Processes : At(p, "create") => Before(work[p].call) /\ receipt[work[p].call] # "none"
  /\ \A p, q \in Processes : At(p, "create") /\ At(q, "create") /\ work[p].call = work[q].call => p = q

SandboxInv == SandboxTyped /\ GuardInv /\ CreateInv /\ \A c \in Calls : ReportInv(container[c])

-----------------------------------------------------------------------------
(* The runner.                                                             *)

LEMMA BlankFacts ==
  /\ Blank \in Report /\ ~Blank.error /\ ~Blank.zero /\ ~Blank.success /\ Blank.files = "none"
  /\ ~Decodable(Blank)
  BY DEF Blank, Report, Decodable

\* A failure noted beside a report that has none of the success is understood.
LEMMA FailedDecodes ==
  ASSUME NEW report \in Report, ~report.success, report.files = "none"
  PROVE  Failed(report) \in Report /\ Understood(Failed(report))
<1> DEFINE f == Failed(report)
<1>1. f \in Report BY Zenon DEF Failed, Report
<1>2. f.error = TRUE /\ f.success = report.success /\ f.files = report.files BY Zenon DEF Failed, Report
<1>3. f.error /\ ~f.success /\ f.files = "none" /\ f.success \in BOOLEAN BY <1>1, <1>2 DEF Report
<1> HIDE DEF f
<1>4. Understood(f) BY <1>3 DEF Decodable, Understood
<1> QED BY <1>1, <1>4 DEF f

\* What a step makes of one container.
RunnerStep(a, b) ==
  /\ b \in Containers /\ a.phase \in {"reading", "executing", "collecting"}
  /\ b.phase \notin {"none", "late", "created", "reading", "gone"} /\ ReportInv(b)

LEMMA RunnerSteps ==
  ASSUME SandboxInv, NEW c \in Calls, Runner(c)
  PROVE  /\ RunnerStep(container[c], container'[c]) /\ container' \in [Calls -> Containers]
         /\ \A d \in Calls \ {c} : container'[d] = container[d]
<1> DEFINE box == container[c]
<1>0. box \in Containers /\ ReportInv(box) /\ container \in [Calls -> Containers]
  BY DEF SandboxInv, SandboxTyped
<1>1. ASSUME NEW b, container' = [container EXCEPT ![c] = b], RunnerStep(box, b)
      PROVE  /\ RunnerStep(container[c], container'[c]) /\ container' \in [Calls -> Containers]
             /\ \A d \in Calls \ {c} : container'[d] = container[d]
  BY <1>0, <1>1 DEF RunnerStep
<1>2. ASSUME NEW report \in Report, Understood(report), Exits(c, report),
             box.phase \in {"reading", "executing", "collecting"}
      PROVE  /\ RunnerStep(container[c], container'[c]) /\ container' \in [Calls -> Containers]
             /\ \A d \in Calls \ {c} : container'[d] = container[d]
  <2> DEFINE b == [box EXCEPT !.phase = "exited", !.report = report]
  <2>1. b.phase = "exited" /\ b.report = report BY <1>0, Zenon DEF Containers
  <2>2. container' = [container EXCEPT ![c] = b] BY <1>0, <1>2 DEF Exits
  <2>3. b \in Containers BY <1>0, <1>2, Zenon DEF Containers
  <2> HIDE DEF b
  <2>4. RunnerStep(box, b) BY <1>2, <2>1, <2>3 DEF RunnerStep, ReportInv
  <2> QED BY <1>1, <2>2, <2>4
<1>3. CASE ReadRequest(c)
  <2>1. box.phase = "reading" /\ box.report = Blank BY <1>0, <1>3 DEF ReadRequest, ReportInv
  <2>2. CASE container' = [container EXCEPT ![c].phase = "executing"]
    <3> DEFINE b == [phase |-> "executing", old |-> box.old, report |-> box.report]
    <3>1. [box EXCEPT !.phase = "executing"] = b BY <1>0 DEF Containers
    <3>2. container' = [container EXCEPT ![c] = b] BY <1>0, <2>2, <3>1
    <3>3. b \in Containers BY <1>0 DEF Containers
    <3>4. RunnerStep(box, b) BY <2>1, <3>3 DEF RunnerStep, ReportInv
    <3> HIDE DEF b
    <3> QED BY <1>1, <3>2, <3>4
  <2>3. CASE Exits(c, Failed(Blank)) BY <1>2, <2>1, <2>3, FailedDecodes, BlankFacts
  <2> QED BY <1>3, <2>2, <2>3 DEF ReadRequest
<1>4. CASE ExecuteCode(c)
  <2>1. box.phase = "executing" /\ box.report = Blank BY <1>0, <1>4 DEF ExecuteCode, ReportInv
  <2>2. ASSUME NEW zero \in BOOLEAN, Exits(c, Failed([Blank EXCEPT !.zero = zero]))
        PROVE  /\ RunnerStep(container[c], container'[c]) /\ container' \in [Calls -> Containers]
               /\ \A d \in Calls \ {c} : container'[d] = container[d]
    <3> DEFINE report == [Blank EXCEPT !.zero = zero]
    <3>1. report \in Report /\ ~report.success /\ report.files = "none" BY DEF Blank, Report
    <3> HIDE DEF report
    <3>3. Failed(report) \in Report /\ Understood(Failed(report)) BY <3>1, FailedDecodes
    <3>4. Exits(c, Failed(report)) BY <2>2 DEF report
    <3> QED BY <1>2, <2>1, <3>3, <3>4
  <2>3. CASE container' = [container EXCEPT ![c].phase = "collecting", ![c].report.zero = TRUE]
    <3> DEFINE report == [Blank EXCEPT !.zero = TRUE]
               b == [box EXCEPT !.phase = "collecting", !.report.zero = TRUE]
    <3>0. report \in Report BY DEF Blank, Report
    <3>1. b.phase = "collecting" /\ b.report = report BY <1>0, <2>1, Zenon DEF Containers
    <3>2. container' = [container EXCEPT ![c] = b] BY <1>0, <2>3
    <3>3. b \in Containers
      <4> DEFINE b1 == [box EXCEPT !.phase = "collecting", !.report = report]
      <4>1. b = b1 BY <2>1
      <4>2. b1 \in Containers BY <1>0, <3>0, Zenon DEF Containers
      <4> QED BY <4>1, <4>2
    <3> HIDE DEF b
    <3>4. RunnerStep(box, b) BY <2>1, <3>1, <3>3 DEF RunnerStep, ReportInv
    <3> QED BY <1>1, <3>2, <3>4
  <2> QED BY <1>4, <2>2, <2>3 DEF ExecuteCode
<1>5. CASE CollectFiles(c)
  <2>1. box.phase = "collecting" /\ box.report = [Blank EXCEPT !.zero = TRUE]
    BY <1>0, <1>5 DEF CollectFiles, ReportInv
  <2>2. /\ box.report \in Report /\ box.report.zero /\ ~box.report.error
        /\ ~box.report.success /\ box.report.files = "none"
    BY <2>1 DEF Blank, Report
  <2>3. ASSUME NEW found \in {"none", "some", "long"},
               Exits(c, [box.report EXCEPT !.files = found, !.success = TRUE])
        PROVE  /\ RunnerStep(container[c], container'[c]) /\ container' \in [Calls -> Containers]
               /\ \A d \in Calls \ {c} : container'[d] = container[d]
    <3> DEFINE report == [box.report EXCEPT !.files = found, !.success = TRUE]
    <3>1. report \in Report /\ report.success /\ ~report.error /\ report.zero
      BY <2>2 DEF Report
    <3>2. Exits(c, report) BY <2>3
    <3> HIDE DEF report
    <3>3. Understood(report) BY <3>1 DEF Decodable, Understood
    <3> QED BY <1>2, <2>1, <3>1, <3>2, <3>3
  <2>4. CASE Exits(c, Failed(box.report)) BY <1>2, <2>1, <2>2, <2>4, FailedDecodes
  <2> QED BY <1>5, <2>3, <2>4 DEF CollectFiles
<1>6. CASE Killed(c)
  <2> DEFINE b == [box EXCEPT !.phase = "killed", !.report = Blank]
  <2>1. b.phase = "killed" /\ b.report = Blank BY <1>0, Zenon DEF Containers
  <2>2. container' = [container EXCEPT ![c] = b] BY <1>0, <1>6 DEF Killed
  <2>3. b \in Containers BY <1>0, BlankFacts, Zenon DEF Containers
  <2> HIDE DEF b
  <2>4. box.phase \in {"reading", "executing", "collecting"} BY <1>6 DEF Killed
  <2>5. RunnerStep(box, b) BY <2>1, <2>3, <2>4 DEF RunnerStep, ReportInv
  <2> QED BY <1>1, <2>2, <2>5
<1> QED BY <1>3, <1>4, <1>5, <1>6 DEF Runner

-----------------------------------------------------------------------------
(* Worker and reaper.                                                      *)

\* A step of a worker that begins no call and makes no container.
LEMMA WorkSteps ==
  ASSUME SandboxInv, NEW p \in Processes, NEW a \in Attempts, work' = [work EXCEPT ![p] = a],
         a.step # "create", a.step \notin {"away", "working"} => a.call \in Calls,
         \A c \in Calls : receipt'[c] = "none" => receipt[c] = "none",
         \A c \in Calls : Before(c) => Before(c)'
  PROVE  CreateInv' /\ work' \in [Processes -> Attempts]
<1>1. work \in [Processes -> Attempts] BY DEF SandboxInv, SandboxTyped
<1>2. work' \in [Processes -> Attempts] /\ work'[p] = a /\ \A q \in Processes \ {p} : work'[q] = work[q]
  BY <1>1
<1>3. \A q \in Processes : At(q, "create")' => q # p /\ At(q, "create") /\ work'[q] = work[q]
  BY <1>2 DEF At
<1>4. \A c \in Calls : receipt'[c] = "none" => Before(c)' BY DEF SandboxInv, CreateInv
<1>5. \A q \in Processes : ~At(q, "away")' /\ ~At(q, "working")' => work'[q].call \in Calls
  BY <1>2 DEF SandboxInv, CreateInv, At
<1>6. ASSUME NEW q \in Processes, At(q, "create")' PROVE Before(work[q].call)' /\ receipt'[work'[q].call] # "none"
  <2>1. At(q, "create") /\ work'[q] = work[q] BY <1>3, <1>6
  <2>2. work[q].call \in Calls /\ Before(work[q].call) /\ receipt[work[q].call] # "none"
    BY <2>1 DEF SandboxInv, CreateInv, At
  <2> DEFINE c == work[q].call
  <2>3. Before(c) /\ c \in Calls /\ work'[q].call = c BY <2>1, <2>2
  <2>4. container'[c].phase \in {"none", "gone"} BY <2>3 DEF Before
  <2>5. receipt'[c] # "none" BY <2>2
  <2> QED BY <2>3, <2>4, <2>5 DEF Before
<1>7. ASSUME NEW q \in Processes, NEW r \in Processes, At(q, "create")', At(r, "create")', work'[q].call = work'[r].call
      PROVE  q = r
  BY <1>3, <1>7 DEF SandboxInv, CreateInv
<1> QED BY <1>2, <1>4, <1>5, <1>6, <1>7 DEF CreateInv

\* A step that changes one container at most, to a sound one.
LEMMA BoxSteps ==
  ASSUME SandboxInv, NEW c \in Calls, NEW b \in Containers, ReportInv(b), container' = [container EXCEPT ![c] = b]
  PROVE  container' \in [Calls -> Containers] /\ \A d \in Calls : ReportInv(container'[d])
<1>1. container \in [Calls -> Containers] /\ \A d \in Calls : ReportInv(container[d]) BY DEF SandboxInv, SandboxTyped
<1>2. container' \in [Calls -> Containers] /\ container'[c] = b /\ \A d \in Calls \ {c} : container'[d] = container[d]
  BY <1>1
<1> QED BY <1>1, <1>2

LEMMA Gone == Box("gone") \in Containers /\ ReportInv(Box("gone")) /\ Box("gone").phase = "gone"
<1>1. Box("gone").phase = "gone" /\ Box("gone").report = Blank BY DEF Box
<1>2. Box("gone") \in Containers BY BlankFacts DEF Box, Containers
<1>3. ReportInv(Box("gone")) BY <1>1 DEF ReportInv
<1> QED BY <1>1, <1>2, <1>3

LEMMA WithStep ==
  ASSUME NEW a \in Attempts,
         NEW step \in {"away", "working", "create", "start", "attached", "clean", "save", "confirm"}
  PROVE  /\ [a EXCEPT !.step = step] \in Attempts /\ [a EXCEPT !.step = step].step = step
         /\ [a EXCEPT !.step = step].call = a.call
<1>1. [a EXCEPT !.step = step] \in Attempts BY Zenon DEF Attempts
<1> QED BY <1>1, Zenon DEF Attempts

LEMMA AwayFacts == Away \in Attempts /\ Away.step = "away"
<1>1. Away \in Attempts BY DEF Away, Attempts
<1> QED BY <1>1 DEF Away

\* What a worker does inside its attempt: the Run and the guards stay.
LEMMA InsideSteps ==
  ASSUME SandboxInv, UNCHANGED <<runs, guard>>, work' \in [Processes -> Attempts], CreateInv',
         receipt' \in [Calls -> {"none", "started", "succeeded"}], container' \in [Calls -> Containers],
         \A c \in Calls : ReportInv(container'[c])
  PROVE  SandboxInv'
<1>1. SandboxTyped' BY DEF SandboxInv, SandboxTyped
<1>2. GuardInv' BY DEF SandboxInv, GuardInv, ActiveOwner
<1> QED BY <1>1, <1>2 DEF SandboxInv, ReportInv

LEMMA AttemptSteps ==
  ASSUME SandboxInv, NEW p \in Processes, Attempt(p)
  PROVE  SandboxInv'
<1>0. /\ SandboxTyped /\ CreateInv /\ \A c \in Calls : ReportInv(container[c])
      /\ work \in [Processes -> Attempts] /\ work[p] \in Attempts
      /\ container \in [Calls -> Containers]
      /\ receipt \in [Calls -> {"none", "started", "succeeded"}]
  BY DEF SandboxInv, SandboxTyped
<1>go. ASSUME NEW step \in {"working", "start", "attached", "clean", "save", "confirm"},
              ~At(p, "away"), ~At(p, "working"),
              work' = [work EXCEPT ![p] = [@ EXCEPT !.step = step]], UNCHANGED <<runs, guard, receipt>>,
              \A c \in Calls : Before(c) => Before(c)',
              container' \in [Calls -> Containers], \A c \in Calls : ReportInv(container'[c])
       PROVE  SandboxInv'
  <2> DEFINE a == [work[p] EXCEPT !.step = step]
  <2>0. step \in {"away", "working", "create", "start", "attached", "clean", "save", "confirm"} BY <1>go
  <2>1. a \in Attempts /\ a.step = step /\ a.call = work[p].call BY <1>0, <2>0, WithStep, Zenon
  <2>2. work' = [work EXCEPT ![p] = a] BY <1>go
  <2>3. a.call \in Calls BY <1>0, <1>go, <2>1 DEF CreateInv
  <2>4. a.step # "create" BY <2>1
  <2> HIDE DEF a
  <2>5. \A c \in Calls : receipt'[c] = "none" => receipt[c] = "none" BY <1>go
  <2>6. CreateInv' /\ work' \in [Processes -> Attempts]
    BY <1>go, <2>1, <2>2, <2>3, <2>4, <2>5, WorkSteps
  <2> QED BY <1>0, <1>go, <2>6, InsideSteps
<1>same. ASSUME NEW a \in Attempts, a.step # "create", a.step \notin {"away", "working"} => a.call \in Calls,
                work' = [work EXCEPT ![p] = a], UNCHANGED <<runs, guard, receipt, container>>
         PROVE  SandboxInv'
  <2>1. \A c \in Calls : Before(c) => Before(c)' BY <1>same DEF Before
  <2>2. \A c \in Calls : receipt'[c] = "none" => receipt[c] = "none" BY <1>same
  <2>3. CreateInv' /\ work' \in [Processes -> Attempts] BY <1>same, <2>1, <2>2, WorkSteps
  <2> QED BY <1>0, <1>same, <2>3, InsideSteps
<1>1. CASE Claim(p)
  <2> DEFINE a == [step |-> "working", gen |-> runs.gen + 1, call |-> 0, good |-> FALSE]
  <2>1. runs.gen + 1 \in Nat BY <1>0 DEF SandboxTyped
  <2>2. a \in Attempts BY <2>1 DEF Attempts
  <2>3. work' = [work EXCEPT ![p] = a] BY <1>1 DEF Claim
  <2>4. a.step = "working" OBVIOUS
  <2> HIDE DEF a
  <2>5. \A c \in Calls : (receipt'[c] = "none" => receipt[c] = "none") /\ (Before(c) => Before(c)')
    BY <1>1 DEF Claim, Before
  <2>6. CreateInv' /\ work' \in [Processes -> Attempts] BY <2>2, <2>3, <2>4, <2>5, WorkSteps
  <2>7. runs' \in [open : BOOLEAN, owner : Processes \cup {"nobody"}, gen : Nat, lease : BOOLEAN]
    BY <1>1, <2>1 DEF Claim
  <2>8. SandboxTyped' BY <1>0, <1>1, <2>6, <2>7 DEF SandboxTyped, Claim
  <2>9. GuardInv' BY <1>1 DEF Claim, RunFree, GuardInv
  <2>10. \A c \in Calls : ReportInv(container'[c]) BY <1>0, <1>1 DEF Claim
  <2> QED BY <2>6, <2>8, <2>9, <2>10 DEF SandboxInv, ReportInv
<1>4. CASE Start(p)
  <2>1. work[p].call \in Calls BY <1>0, <1>4 DEF Start, At, CreateInv
  <2> DEFINE c == work[p].call
             b == [container[c] EXCEPT !.phase = "reading"]
  <2>2. container[c] \in Containers /\ container[c].phase = "created" /\ ReportInv(container[c])
    BY <1>0, <1>4, <2>1 DEF Start
  <2>3. b \in Containers BY <2>2, Zenon DEF Containers
  <2>4. b.phase = "reading" /\ b.report = container[c].report BY <2>2, Zenon DEF Containers
  <2>5. container' = [container EXCEPT ![c] = b] BY <1>4 DEF Start
  <2>6. container[c].report = Blank BY <2>2 DEF ReportInv
  <2> HIDE DEF b
  <2>7. ReportInv(b) BY <2>4, <2>6 DEF ReportInv
  <2>8. container' \in [Calls -> Containers] /\ \A d \in Calls : ReportInv(container'[d])
    BY <2>1, <2>3, <2>5, <2>7, BoxSteps
  <2>9. \A d \in Calls : Before(d) => Before(d)' BY <1>0, <2>2, <2>5 DEF Before
  <2>10. ~At(p, "away") /\ ~At(p, "working") BY <1>4 DEF Start, At
  <2>11. work' = [work EXCEPT ![p] = [@ EXCEPT !.step = "attached"]] BY <1>4 DEF Start, Go
  <2>12. UNCHANGED <<runs, guard, receipt>> BY <1>4 DEF Start
  <2> QED BY <1>go, <2>8, <2>9, <2>10, <2>11, <2>12
<1>5. CASE Collect(p)
  <2> DEFINE box == container[work[p].call]
             good == box.phase = "exited" /\ Decodable(box.report) /\ box.report.success
             a == [work[p] EXCEPT !.step = "clean", !.good = good]
  <2>1. work' = [work EXCEPT ![p] = a] BY <1>5 DEF Collect
  <2>2. work[p].call \in Calls BY <1>0, <1>5 DEF Collect, At, CreateInv
  <2>3. container[work[p].call].report.success \in BOOLEAN BY <1>0, <2>2 DEF Containers, Report
  <2>4. good \in BOOLEAN BY <2>3
  <2> HIDE DEF good
  <2>5. a \in Attempts BY <1>0, <2>4, Zenon DEF Attempts
  <2>6. a.step = "clean" /\ a.call = work[p].call BY <1>0, Zenon DEF Attempts
  <2>7. UNCHANGED <<runs, guard, receipt, container>> BY <1>5 DEF Collect
  <2> HIDE DEF a
  <2> QED BY <1>same, <2>1, <2>2, <2>5, <2>6, <2>7
<1>6. CASE GiveUp(p)
  <2>1. UNCHANGED <<runs, guard, receipt, container>> BY <1>6 DEF GiveUp
  <2>2. \A d \in Calls : Before(d) => Before(d)' BY <2>1 DEF Before
  <2>3. ~At(p, "away") /\ ~At(p, "working") BY <1>6 DEF GiveUp, At
  <2>4. work' = [work EXCEPT ![p] = [@ EXCEPT !.step = "clean"]] BY <1>6 DEF GiveUp, Go
  <2> QED BY <1>0, <1>go, <2>1, <2>2, <2>3, <2>4
<1>8. CASE SaveFiles(p)
  <2>1. UNCHANGED <<runs, guard, receipt, container>> BY <1>8 DEF SaveFiles
  <2>2. \A d \in Calls : Before(d) => Before(d)' BY <2>1 DEF Before
  <2>3. ~At(p, "away") /\ ~At(p, "working") BY <1>8 DEF SaveFiles, At
  <2>4. work' = [work EXCEPT ![p] = [@ EXCEPT !.step = "confirm"]] BY <1>8 DEF SaveFiles, Go
  <2> QED BY <1>0, <1>go, <2>1, <2>2, <2>3, <2>4
<1>10. CASE Leave(p)
  <2>1. UNCHANGED <<runs, guard, receipt, container>> /\ work' = [work EXCEPT ![p] = Away] BY <1>10 DEF Leave
  <2> QED BY <1>same, <2>1, AwayFacts
<1>2. CASE \E c \in Calls : Begin(p, c)
  <2>1. PICK c \in Calls : Begin(p, c) BY <1>2
  <2> DEFINE a == [work[p] EXCEPT !.step = "create", !.call = c, !.good = FALSE]
  <2>2. work' = [work EXCEPT ![p] = a] /\ UNCHANGED <<runs, container, guard>> BY <2>1 DEF Begin
  <2>3. a.step = "create" /\ a.call = c BY <1>0, Zenon DEF Attempts
  <2>4. a \in Attempts BY <1>0, Zenon DEF Attempts
  <2>5. receipt[c] = "none" /\ receipt' = [receipt EXCEPT ![c] = "started"] BY <2>1 DEF Begin
  <2>6. receipt' \in [Calls -> {"none", "started", "succeeded"}] /\ receipt'[c] = "started"
        /\ \A d \in Calls \ {c} : receipt'[d] = receipt[d]
    BY <1>0, <2>5
  <2> HIDE DEF a
  <2>7. work' \in [Processes -> Attempts] /\ work'[p] = a /\ \A q \in Processes \ {p} : work'[q] = work[q]
    BY <1>0, <2>2, <2>4
  <2>8. CreateInv'
    <3>1. \A d \in Calls : receipt'[d] = "none" => Before(d)' BY <1>0, <2>2, <2>6 DEF CreateInv, Before
    <3>2. \A q \in Processes : ~At(q, "away")' /\ ~At(q, "working")' => work'[q].call \in Calls
      BY <1>0, <2>3, <2>7 DEF CreateInv, At
    <3>3. Before(c) BY <1>0, <2>5 DEF CreateInv
    <3>4. ASSUME NEW q \in Processes, At(q, "create")'
          PROVE  Before(work[q].call)' /\ receipt'[work'[q].call] # "none"
      <4>1. CASE q = p BY <2>2, <2>3, <2>6, <2>7, <3>3, <4>1 DEF Before
      <4>2. CASE q # p
        <5>1. work'[q] = work[q] /\ At(q, "create") BY <2>7, <3>4, <4>2 DEF At
        <5>2. work[q].call \in Calls /\ Before(work[q].call) /\ receipt[work[q].call] # "none"
          BY <1>0, <5>1 DEF CreateInv, At
        <5> QED BY <2>2, <2>6, <5>1, <5>2 DEF Before
      <4> QED BY <4>1, <4>2
    <3>5. ASSUME NEW q \in Processes, At(q, "create"), q # p PROVE work[q].call # c
      BY <1>0, <2>5, <3>5 DEF CreateInv
    <3>6. ASSUME NEW q \in Processes, NEW r \in Processes, At(q, "create")', At(r, "create")',
                 work'[q].call = work'[r].call
          PROVE  q = r
      <4>1. CASE q # p /\ r # p BY <1>0, <2>7, <3>6, <4>1 DEF CreateInv, At
      <4>2. CASE q = p /\ r # p BY <2>3, <2>7, <3>5, <3>6, <4>2 DEF At
      <4>3. CASE q # p /\ r = p BY <2>3, <2>7, <3>5, <3>6, <4>3 DEF At
      <4> QED BY <4>1, <4>2, <4>3
    <3> QED BY <3>1, <3>2, <3>4, <3>6 DEF CreateInv
  <2> QED BY <1>0, <2>2, <2>6, <2>7, <2>8, InsideSteps
<1>3. CASE CreateContainer(p)
  <2>0. At(p, "create") /\ UNCHANGED <<runs, guard, receipt>> BY <1>3 DEF CreateContainer
  <2>1. work[p].call \in Calls /\ Before(work[p].call) /\ receipt[work[p].call] # "none"
        /\ ~At(p, "away") /\ ~At(p, "working")
    BY <1>0, <2>0 DEF At, CreateInv
  <2>2. CASE Go(p, "clean") /\ UNCHANGED container
    <3>1. \A d \in Calls : Before(d) => Before(d)' BY <2>2 DEF Before
    <3>2. work' = [work EXCEPT ![p] = [@ EXCEPT !.step = "clean"]] BY <2>2 DEF Go
    <3> QED BY <1>0, <1>go, <2>0, <2>1, <2>2, <3>1, <3>2
  <2>3. ASSUME NEW step \in {"start", "clean"}, NEW phase \in {"created", "late"}, Go(p, step),
               container' = [container EXCEPT ![work[p].call].phase = phase]
        PROVE  SandboxInv'
    <3> DEFINE c == work[p].call
               b == [container[c] EXCEPT !.phase = phase]
               a == [work[p] EXCEPT !.step = step]
    <3>1. container[c] \in Containers /\ ReportInv(container[c]) /\ container[c].phase \in {"none", "gone"}
      BY <1>0, <2>1 DEF Before
    <3>2. b \in Containers BY <3>1, Zenon DEF Containers
    <3>3. b.phase = phase /\ b.report = container[c].report BY <3>1, Zenon DEF Containers
    <3>4. container' = [container EXCEPT ![c] = b] BY <2>3
    <3>5. container[c].report = Blank BY <3>1 DEF ReportInv
    <3>0. step \in {"away", "working", "create", "start", "attached", "clean", "save", "confirm"} BY <2>3
    <3>step. a \in Attempts /\ a.step = step /\ a.call = c BY <1>0, <3>0, WithStep, ZenonT(30)
    <3>6. a \in Attempts /\ a.step # "create" /\ a.call = c BY <2>3, <3>step
    <3>7. work' = [work EXCEPT ![p] = a] BY <2>3 DEF Go
    <3> HIDE DEF a, b
    <3>8. ReportInv(b) BY <3>3, <3>5 DEF ReportInv
    <3>9. container' \in [Calls -> Containers] /\ \A d \in Calls : ReportInv(container'[d])
      BY <2>1, <3>2, <3>4, <3>8, BoxSteps
    <3>10. work' \in [Processes -> Attempts] /\ work'[p] = a /\ \A q \in Processes \ {p} : work'[q] = work[q]
      BY <1>0, <3>6, <3>7
    <3>11. \A d \in Calls \ {c} : container'[d] = container[d] BY <1>0, <3>4
    <3>12. ASSUME NEW q \in Processes, At(q, "create")' PROVE q # p /\ At(q, "create") /\ work'[q] = work[q]
                                                              /\ work[q].call # c
      <4>1. q # p /\ At(q, "create") /\ work'[q] = work[q] BY <3>6, <3>10, <3>12 DEF At
      <4> QED BY <1>0, <2>0, <4>1 DEF CreateInv
    <3>13. CreateInv'
      <4>1. \A d \in Calls : receipt'[d] = "none" => Before(d)'
        BY <1>0, <2>0, <2>1, <3>11 DEF CreateInv, Before
      <4>2. \A q \in Processes : ~At(q, "away")' /\ ~At(q, "working")' => work'[q].call \in Calls
        BY <1>0, <2>1, <3>6, <3>10 DEF CreateInv, At
      <4>3. ASSUME NEW q \in Processes, At(q, "create")'
            PROVE  Before(work[q].call)' /\ receipt'[work'[q].call] # "none"
        <5>1. work'[q] = work[q] /\ At(q, "create") /\ work[q].call # c BY <3>12, <4>3
        <5>2. work[q].call \in Calls /\ Before(work[q].call) /\ receipt[work[q].call] # "none"
          BY <1>0, <5>1 DEF CreateInv, At
        <5> QED BY <2>0, <3>11, <5>1, <5>2 DEF Before
      <4>4. ASSUME NEW q \in Processes, NEW r \in Processes, At(q, "create")', At(r, "create")',
                   work'[q].call = work'[r].call
            PROVE  q = r
        BY <1>0, <3>12, <4>4 DEF CreateInv
      <4> QED BY <4>1, <4>2, <4>3, <4>4 DEF CreateInv
    <3> QED BY <1>0, <2>0, <3>9, <3>10, <3>13, InsideSteps
  <2> QED BY <1>3, <2>2, <2>3 DEF CreateContainer
<1>7. CASE Clean(p)
  <2>0. At(p, "clean") /\ UNCHANGED <<runs, guard, receipt>> BY <1>7 DEF Clean
  <2>1. work[p].call \in Calls /\ ~At(p, "away") /\ ~At(p, "working") BY <1>0, <2>0 DEF At, CreateInv
  <2>2. CASE UNCHANGED container /\ work' = [work EXCEPT ![p].step = "confirm", ![p].good = FALSE]
    <3> DEFINE a == [work[p] EXCEPT !.step = "confirm", !.good = FALSE]
    <3>1. a \in Attempts BY <1>0, Zenon DEF Attempts
    <3>2. a.step = "confirm" /\ a.call = work[p].call BY <1>0, Zenon DEF Attempts
    <3>3. work' = [work EXCEPT ![p] = a] BY <2>2
    <3> HIDE DEF a
    <3> QED BY <1>same, <2>0, <2>1, <2>2, <3>1, <3>2, <3>3
  <2>3. CASE /\ container' = [container EXCEPT ![work[p].call] = IF Exists(work[p].call) THEN Box("gone") ELSE @]
             /\ Go(p, IF work[p].good THEN "save" ELSE "confirm")
    <3> DEFINE c == work[p].call
               b == IF Exists(c) THEN Box("gone") ELSE container[c]
               step == IF work[p].good THEN "save" ELSE "confirm"
    <3>1. b \in Containers /\ ReportInv(b) BY <1>0, <2>1, Gone
    <3>2. container' = [container EXCEPT ![c] = b] BY <2>3
    <3>3. Before(c) => b = container[c] BY DEF Before, Exists
    <3> HIDE DEF b
    <3>4. container' \in [Calls -> Containers] /\ \A d \in Calls : ReportInv(container'[d])
      BY <2>1, <3>1, <3>2, BoxSteps
    <3>5. \A d \in Calls : Before(d) => Before(d)' BY <1>0, <2>1, <3>2, <3>3 DEF Before
    <3>6. work' = [work EXCEPT ![p] = [@ EXCEPT !.step = step]] BY <2>3 DEF Go
    <3>7. step \in {"save", "confirm"} OBVIOUS
    <3> HIDE DEF step
    <3> QED BY <1>go, <2>0, <2>1, <3>4, <3>5, <3>6, <3>7
  <2> QED BY <1>7, <2>2, <2>3 DEF Clean
<1>9. CASE Confirm(p)
  <2> DEFINE a == [work[p] EXCEPT !.step = "working", !.call = 0, !.good = FALSE]
  <2>1. a \in Attempts BY <1>0, Zenon DEF Attempts
  <2>2. a.step = "working" BY <1>0, Zenon DEF Attempts
  <2>3. work' = [work EXCEPT ![p] = a] /\ UNCHANGED <<runs, guard, container>> BY <1>9 DEF Confirm
  <2>4. receipt' = [receipt EXCEPT ![work[p].call] = "succeeded"] BY <1>9 DEF Confirm
  <2>5. receipt' \in [Calls -> {"none", "started", "succeeded"}]
        /\ \A c \in Calls : receipt'[c] = "none" => receipt[c] = "none"
    BY <1>0, <2>4
  <2> HIDE DEF a
  <2>6. \A c \in Calls : Before(c) => Before(c)' BY <2>3 DEF Before
  <2>7. CreateInv' /\ work' \in [Processes -> Attempts] BY <2>1, <2>2, <2>3, <2>5, <2>6, WorkSteps
  <2> QED BY <1>0, <2>3, <2>5, <2>7, InsideSteps
<1> QED BY <1>1, <1>2, <1>3, <1>4, <1>5, <1>6, <1>7, <1>8, <1>9, <1>10 DEF Attempt

\* The other steps leave the receipts, and all attempts but one that dies.
LEMMA OutsideSteps ==
  ASSUME SandboxInv, UNCHANGED <<work, receipt>>, \A c \in Calls : Before(c) => Before(c)'
  PROVE  CreateInv'
<1>1. \A q \in Processes : At(q, "create")' <=> At(q, "create") BY DEF At
<1>2. \A q \in Processes : At(q, "create") => work[q].call \in Calls BY DEF SandboxInv, CreateInv, At
<1>3. ASSUME NEW q \in Processes, At(q, "create")' PROVE Before(work[q].call)' /\ receipt'[work'[q].call] # "none"
  <2>1. At(q, "create") /\ work[q].call \in Calls /\ work'[q].call = work[q].call BY <1>1, <1>2, <1>3
  <2>2. Before(work[q].call) /\ receipt[work[q].call] # "none" BY <2>1 DEF SandboxInv, CreateInv
  <2> QED BY <2>1, <2>2 DEF Before
<1>4. \A c \in Calls : receipt'[c] = "none" => Before(c)' BY DEF SandboxInv, CreateInv
<1>5. \A q \in Processes : ~At(q, "away")' /\ ~At(q, "working")' => work'[q].call \in Calls
  BY DEF SandboxInv, CreateInv, At
<1>6. \A q, r \in Processes : At(q, "create")' /\ At(r, "create")' /\ work'[q].call = work'[r].call => q = r
  BY <1>1 DEF SandboxInv, CreateInv
<1> QED BY <1>3, <1>4, <1>5, <1>6 DEF CreateInv

LEMMA SandboxInductive ==
  ASSUME SandboxInv, [SandboxNext]_sandboxVars
  PROVE  SandboxInv'
<1>0. /\ SandboxTyped /\ GuardInv /\ CreateInv /\ \A c \in Calls : ReportInv(container[c])
      /\ work \in [Processes -> Attempts] /\ container \in [Calls -> Containers]
      /\ runs \in [open : BOOLEAN, owner : Processes \cup {"nobody"}, gen : Nat, lease : BOOLEAN]
      /\ guard \in [Processes -> Calls \cup {0}]
  BY DEF SandboxInv, SandboxTyped
<1>box. ASSUME NEW c \in Calls, NEW b \in Containers, ReportInv(b), container' = [container EXCEPT ![c] = b],
               Before(c) => b.phase \in {"none", "gone"}, UNCHANGED <<runs, work, receipt>>,
               guard' \in [Processes -> Calls \cup {0}],
               \A p \in Processes : guard'[p] # 0 => guard[p] # 0
        PROVE  SandboxInv'
  <2>1. container' \in [Calls -> Containers] /\ \A d \in Calls : ReportInv(container'[d]) BY <1>box, BoxSteps
  <2>2. \A d \in Calls : Before(d) => Before(d)' BY <1>0, <1>box DEF Before
  <2>3. CreateInv' BY <1>box, <2>2, OutsideSteps
  <2>4. GuardInv' BY <1>0, <1>box DEF GuardInv, ActiveOwner
  <2>5. SandboxTyped' BY <1>0, <1>box, <2>1 DEF SandboxTyped
  <2> QED BY <2>1, <2>3, <2>4, <2>5 DEF SandboxInv, ReportInv
<1>still. ASSUME UNCHANGED <<work, receipt, container>>, GuardInv',
                 runs' \in [open : BOOLEAN, owner : Processes \cup {"nobody"}, gen : Nat, lease : BOOLEAN],
                 guard' \in [Processes -> Calls \cup {0}]
          PROVE  SandboxInv'
  <2>1. \A d \in Calls : Before(d) => Before(d)' BY <1>still DEF Before
  <2>2. CreateInv' BY <1>still, <2>1, OutsideSteps
  <2>3. SandboxTyped' BY <1>0, <1>still DEF SandboxTyped
  <2>4. \A c \in Calls : ReportInv(container'[c]) BY <1>0, <1>still
  <2> QED BY <1>still, <2>2, <2>3, <2>4 DEF SandboxInv, ReportInv
<1>1. ASSUME NEW p \in Processes, Attempt(p) PROVE SandboxInv' BY <1>1, AttemptSteps
<1>2. ASSUME NEW p \in Processes, CrashWorker(p) PROVE SandboxInv'
  <2>1. UNCHANGED <<runs, container, receipt>> /\ work' = [work EXCEPT ![p] = Away] /\ guard' = [guard EXCEPT ![p] = 0]
    BY <1>2 DEF CrashWorker
  <2>2. \A c \in Calls : (receipt'[c] = "none" => receipt[c] = "none") /\ (Before(c) => Before(c)')
    BY <2>1 DEF Before
  <2>3. CreateInv' /\ work' \in [Processes -> Attempts] BY <2>1, <2>2, AwayFacts, WorkSteps
  <2>4. guard' \in [Processes -> Calls \cup {0}] /\ \A q \in Processes : guard'[q] # 0 => guard[q] # 0 BY <1>0, <2>1
  <2>5. GuardInv' BY <1>0, <2>1, <2>4 DEF GuardInv, ActiveOwner
  <2>6. SandboxTyped' BY <1>0, <2>1, <2>3, <2>4 DEF SandboxTyped
  <2>7. \A c \in Calls : ReportInv(container'[c]) BY <1>0, <2>1
  <2> QED BY <2>3, <2>5, <2>6, <2>7 DEF SandboxInv, ReportInv
<1>3. ASSUME NEW p \in Processes, NEW c \in Calls, Guard(p, c) PROVE SandboxInv'
  <2>1. UNCHANGED <<runs, work, container, receipt>> /\ guard' = [guard EXCEPT ![p] = c] /\ ~ActiveOwner
    BY <1>3 DEF Guard
  <2>2. GuardInv' BY <2>1 DEF GuardInv, ActiveOwner
  <2>3. guard' \in [Processes -> Calls \cup {0}] BY <1>0, <2>1
  <2> QED BY <1>0, <1>still, <2>1, <2>2, <2>3
<1>4. ASSUME NEW p \in Processes, Reap(p) PROVE SandboxInv'
  <2>1. guard[p] \in Calls BY <1>0, <1>4 DEF Reap
  <2>2. /\ UNCHANGED <<runs, work, receipt>> /\ guard' = [guard EXCEPT ![p] = 0]
        /\ container' = [container EXCEPT ![guard[p]] = Box("gone")]
    BY <1>4 DEF Reap
  <2>3. guard' \in [Processes -> Calls \cup {0}] /\ \A q \in Processes : guard'[q] # 0 => guard[q] # 0 BY <1>0, <2>2
  <2> QED BY <1>box, <2>1, <2>2, <2>3, Gone
<1>5. ASSUME NEW c \in Calls, Runner(c) PROVE SandboxInv'
  <2>1. UNCHANGED <<runs, work, receipt, guard>> BY <1>5 DEF Runner
  <2>2. /\ RunnerStep(container[c], container'[c]) /\ container' \in [Calls -> Containers]
        /\ \A d \in Calls \ {c} : container'[d] = container[d]
    BY <1>5, RunnerSteps
  <2>3. container' = [container EXCEPT ![c] = container'[c]] BY <1>0, <2>2
  <2>4. ~Before(c) /\ container'[c] \in Containers /\ ReportInv(container'[c]) BY <2>2 DEF RunnerStep, Before
  <2> DEFINE b == container'[c]
  <2>5. container' = [container EXCEPT ![c] = b] /\ b \in Containers /\ ReportInv(b) BY <2>3, <2>4
  <2> HIDE DEF b
  <2> QED BY <1>0, <1>box, <2>1, <2>4, <2>5
<1>6. ASSUME NEW c \in Calls, Age(c) PROVE SandboxInv'
  <2> DEFINE b == [container[c] EXCEPT !.old = TRUE]
  <2>0. container[c] \in Containers /\ ReportInv(container[c]) BY <1>0
  <2>1. container' = [container EXCEPT ![c] = b] /\ UNCHANGED <<runs, work, receipt, guard>> BY <1>6 DEF Age
  <2>2. b \in Containers BY <2>0, Zenon DEF Containers
  <2>3. b.phase = container[c].phase /\ b.report = container[c].report BY <2>0, Zenon DEF Containers
  <2> HIDE DEF b
  <2>4. ReportInv(b) BY <2>0, <2>3 DEF ReportInv
  <2>5. Before(c) => b.phase \in {"none", "gone"} BY <2>3 DEF Before
  <2> QED BY <1>0, <1>box, <2>1, <2>2, <2>4, <2>5
<1>7. ASSUME Lapse PROVE SandboxInv'
  <2>1. UNCHANGED <<work, container, receipt, guard>> /\ runs' = [runs EXCEPT !.lease = FALSE] BY <1>7 DEF Lapse
  <2>2. runs' \in [open : BOOLEAN, owner : Processes \cup {"nobody"}, gen : Nat, lease : BOOLEAN]
    BY <1>0, <2>1, Zenon
  <2>3. ~runs'.lease BY <1>0, <2>1, Zenon
  <2>4. GuardInv' BY <2>3 DEF GuardInv, ActiveOwner
  <2> QED BY <1>0, <1>still, <2>1, <2>2, <2>4
<1>8. ASSUME Close PROVE SandboxInv'
  <2>1. /\ UNCHANGED <<work, container, receipt, guard>>
        /\ runs' = [runs EXCEPT !.open = FALSE, !.lease = FALSE, !.owner = "nobody"]
    BY <1>8 DEF Close
  <2>2. runs' \in [open : BOOLEAN, owner : Processes \cup {"nobody"}, gen : Nat, lease : BOOLEAN]
    BY <1>0, <2>1, Zenon
  <2>3. ~runs'.open BY <1>0, <2>1, Zenon
  <2>4. GuardInv' BY <2>3 DEF GuardInv, ActiveOwner
  <2> QED BY <1>0, <1>still, <2>1, <2>2, <2>4
<1>10. ASSUME NEW c \in Calls, LateCreate(c) PROVE SandboxInv'
  <2> DEFINE b == [container[c] EXCEPT !.phase = "created"]
  <2>0. container[c] \in Containers /\ ReportInv(container[c]) /\ container[c].phase = "late"
    BY <1>0, <1>10 DEF LateCreate
  <2>1. container' = [container EXCEPT ![c] = b] /\ UNCHANGED <<runs, work, receipt, guard>> BY <1>10 DEF LateCreate
  <2>2. b \in Containers BY <2>0, Zenon DEF Containers
  <2>3. b.phase = "created" /\ b.report = container[c].report BY <2>0, Zenon DEF Containers
  <2> HIDE DEF b
  <2>4. ReportInv(b) BY <2>0, <2>3 DEF ReportInv
  <2>5. ~Before(c) BY <2>0 DEF Before
  <2> QED BY <1>0, <1>box, <2>1, <2>2, <2>4, <2>5
<1>9. ASSUME UNCHANGED sandboxVars PROVE SandboxInv'
  <2>1. UNCHANGED <<runs, work, container, receipt, guard>> BY <1>9 DEF sandboxVars
  <2>2. GuardInv' BY <1>0, <2>1 DEF GuardInv, ActiveOwner
  <2> QED BY <1>0, <1>still, <2>1, <2>2
<1> QED BY <1>1, <1>2, <1>3, <1>4, <1>5, <1>6, <1>7, <1>8, <1>9, <1>10 DEF SandboxNext

LEMMA SandboxInitial == SandboxInit => SandboxInv
<1> SUFFICES ASSUME SandboxInit PROVE SandboxInv OBVIOUS
<1>1. Box("none") \in Containers /\ Box("none").phase = "none" /\ Box("none").report = Blank
  <2>1. Box("none") \in Containers BY BlankFacts DEF Box, Containers
  <2> QED BY <2>1 DEF Box
<1>2. SandboxTyped
  <2>1. runs \in [open : BOOLEAN, owner : Processes \cup {"nobody"}, gen : Nat, lease : BOOLEAN] BY DEF SandboxInit
  <2>2. work \in [Processes -> Attempts] BY AwayFacts DEF SandboxInit
  <2>3. container \in [Calls -> Containers] BY <1>1 DEF SandboxInit
  <2> QED BY <2>1, <2>2, <2>3 DEF SandboxTyped, SandboxInit
<1>3. GuardInv BY DEF SandboxInit, GuardInv
<1>4. \A c \in Calls : ReportInv(container[c])
  <2>1. ReportInv(Box("none")) BY <1>1 DEF ReportInv
  <2> QED BY <2>1 DEF SandboxInit
<1>5. CreateInv BY <1>1, AwayFacts DEF SandboxInit, CreateInv, At, Before
<1> QED BY <1>2, <1>3, <1>4, <1>5 DEF SandboxInv

-----------------------------------------------------------------------------
(* The theorems.                                                           *)

\* The inductive invariant holds always.
THEOREM SandboxInvariance == SandboxSpec => []SandboxInv
<1>1. SandboxInit => SandboxInv BY SandboxInitial
<1>2. SandboxInv /\ [SandboxNext]_sandboxVars => SandboxInv' BY SandboxInductive
<1> QED BY <1>1, <1>2, PTL DEF SandboxSpec

\* A reaper never takes the container of a call from a process that still has
\* its Run (service/sandbox.py:42).
THEOREM LiveContainersStay == SandboxSpec => []LiveContainerStays
<1>1. ASSUME SandboxInv PROVE LiveContainerStays
  <2> SUFFICES ASSUME NEW p \in Processes, NEW q \in Processes, guard[p] # 0, Holds(q)
               PROVE  FALSE
    BY DEF LiveContainerStays
  <2>1. ~ActiveOwner BY <1>1 DEF SandboxInv, GuardInv
  <2>2. runs.open /\ runs.lease /\ runs.owner = q BY DEF Holds
  <2>3. q # "nobody" BY SandboxAssumption
  <2> QED BY <2>1, <2>2, <2>3 DEF ActiveOwner
<1> QED BY <1>1, SandboxInvariance, PTL

\* The report a runner leaves, at whatever stage it ended, is one the process
\* outside understands, and the only exception is a success with a path that is
\* too long (manager/sandbox_runner.py:189, 138-146, manager/sandbox.py:295-313).
THEOREM ReportsAreUnderstood == SandboxSpec => []ReportsUnderstood
<1>1. SandboxInv => ReportsUnderstood BY DEF SandboxInv, ReportInv, Understood, ReportsUnderstood
<1> QED BY <1>1, SandboxInvariance, PTL

-----------------------------------------------------------------------------
(***************************************************************************)
(* ModelCenter: a recorded profile and version say which model was called, *)
(* but for a legacy slot that changed before there was a catalogue.        *)
(***************************************************************************)

ModelCenterSpec == ModelCenterInit /\ [][ModelCenterNext]_modelCenterVars

-----------------------------------------------------------------------------
(* The invariant.                                                          *)

Numbers == [version : Nat \ {0}, content : Contents]
Catalogues == [schema : {1, 2}, profiles : [Profiles -> Numbers \cup {NoProfile}], answer : Profiles]

\* A profile of a later catalogue has the same number only if it is the same.
NumberFollows(a, b) == a.version <= b.version /\ (a.version = b.version => a = b)

VersionInv ==
  \A i, j \in 1..Revision : i <= j /\ versions[i].schema = 2 =>
    /\ versions[j].schema = 2
    /\ \A k \in Profiles : Present(versions[i], k) /\ Present(versions[j], k) =>
         NumberFollows(versions[i].profiles[k], versions[j].profiles[k])

\* What a legacy configuration says is of version 1, and a profile of a catalogue
\* that has the number of a slot is what the last legacy configuration said.
LegacyInv ==
  /\ \A i \in 1..Revision, k \in Profiles :
       versions[i].schema = 1 /\ Present(versions[i], k) => versions[i].profiles[k].version = 1
  /\ \A i, j \in 1..Revision, k \in Profiles :
       /\ versions[i].schema = 1 /\ Present(versions[i], k)
       /\ versions[j].schema = 2 /\ Present(versions[j], k)
       /\ versions[i].profiles[k].version = versions[j].profiles[k].version
       => \E m \in i..Revision : versions[m].schema = 1 /\ versions[m].profiles[k] = versions[j].profiles[k]

UsageInv ==
  usage.step \in {"frozen", "called"} =>
    /\ usage.key \in Profiles /\ usage.revision \in 1..Revision
    /\ Present(versions[usage.revision], usage.key)
    /\ usage.profile = versions[usage.revision].profiles[usage.key]

ModelCenterInv == versions \in Seq(Catalogues) /\ Revision >= 1 /\ VersionInv /\ LegacyInv /\ UsageInv

-----------------------------------------------------------------------------
(* Catalogues.                                                             *)

LEMMA NumberFacts ==
  /\ \A p \in Numbers : p # NoProfile /\ p.version \in Nat \ {0} /\ p.content \in Contents
                        /\ p = [version |-> p.version, content |-> p.content]
  /\ NoProfile.version = 0
  /\ \A v \in Nat \ {0}, c \in Contents : Profile(v, c) \in Numbers
  /\ \A v, c : Profile(v, c).version = v /\ Profile(v, c).content = c
<1>1. ASSUME NEW p \in Numbers
      PROVE  /\ p # NoProfile /\ p.version \in Nat \ {0} /\ p.content \in Contents
             /\ p = [version |-> p.version, content |-> p.content]
  <2>1. p.version \in Nat \ {0} /\ p.content \in Contents BY DEF Numbers
  <2>2. p = [version |-> p.version, content |-> p.content] BY DEF Numbers
  <2>3. p # NoProfile
    <3>1. NoProfile.version = 0 BY DEF NoProfile
    <3> QED BY <2>1, <3>1
  <2> QED BY <2>1, <2>2, <2>3
<1>2. NoProfile.version = 0 BY DEF NoProfile
<1>3. \A v \in Nat \ {0}, c \in Contents : Profile(v, c) \in Numbers BY DEF Profile, Numbers
<1>4. \A v, c : Profile(v, c).version = v /\ Profile(v, c).content = c BY DEF Profile
<1> QED BY <1>1, <1>2, <1>3, <1>4

LEMMA CurrentFacts ==
  ASSUME ModelCenterInv
  PROVE  /\ Revision \in Nat \ {0} /\ Current \in Catalogues
         /\ \A i \in 1..Revision : versions[i] \in Catalogues
         /\ \A k \in Profiles : Present(Current, k) => Current.profiles[k] \in Numbers
<1>1. versions \in Seq(Catalogues) /\ Len(versions) >= 1 BY DEF ModelCenterInv, Revision
<1>2. Len(versions) \in Nat /\ \A i \in 1..Len(versions) : versions[i] \in Catalogues BY <1>1
<1>3. Revision \in Nat \ {0} /\ Current \in Catalogues BY <1>1, <1>2 DEF Revision, Current
<1>4. Current.profiles \in [Profiles -> Numbers \cup {NoProfile}] BY <1>3 DEF Catalogues
<1> QED BY <1>2, <1>3, <1>4 DEF Revision, Present

LEMMA LegacyTyped ==
  ASSUME NEW c \in Legacy
  PROVE  /\ c \in Catalogues /\ c.schema = 1
         /\ \A k \in Profiles : Present(c, k) => c.profiles[k].version = 1
<1>1. PICK slot \in [Slots -> Contents], answer \in Slots : c = Cataloged(slot, answer) BY DEF Legacy
<1> DEFINE f == [k \in Profiles |-> IF k \in Slots THEN Profile(1, slot[k]) ELSE NoProfile]
<1>2. \A k \in Slots : Profile(1, slot[k]) \in Numbers BY NumberFacts
<1>3. f \in [Profiles -> Numbers \cup {NoProfile}] BY <1>2
<1>4. answer \in Profiles BY ModelCenterAssumption
<1>5. \A k \in Profiles : f[k] = NoProfile \/ f[k].version = 1 BY NumberFacts
<1> HIDE DEF f
<1>6. c = [schema |-> 1, profiles |-> f, answer |-> answer] BY <1>1 DEF Cataloged, Configuration, f
<1> QED BY <1>3, <1>4, <1>5, <1>6 DEF Catalogues, Present

\* A new configuration keeps the history, if it follows the current one.
LEMMA SavedSteps ==
  ASSUME ModelCenterInv, NEW c \in Catalogues, SaveVersion(c),
         Current.schema = 2 => c.schema = 2,
         c.schema = 1 => \A k \in Profiles : Present(c, k) => c.profiles[k].version = 1,
         c.schema = 2 => \A k \in Profiles : Present(c, k) =>
           /\ Present(Current, k) => NumberFollows(Current.profiles[k], c.profiles[k])
           /\ ~Present(Current, k) => \A i \in 1..Revision : ~Present(versions[i], k)
  PROVE  ModelCenterInv'
<1>0. /\ Revision \in Nat \ {0} /\ versions \in Seq(Catalogues) /\ Current = versions[Revision]
      /\ Current \in Catalogues /\ \A i \in 1..Revision : versions[i] \in Catalogues
  BY CurrentFacts DEF ModelCenterInv, Current
<1>1. versions' = Append(versions, c) /\ usage' = usage BY DEF SaveVersion
<1> DEFINE n == Revision
<1>2. /\ versions' \in Seq(Catalogues) /\ Revision' = n + 1 /\ versions'[n + 1] = c
      /\ \A i \in 1..n : versions'[i] = versions[i]
  BY <1>0, <1>1 DEF Revision
<1>3. ASSUME NEW i \in 1..n, versions[i].schema = 2
      PROVE  /\ c.schema = 2
             /\ \A k \in Profiles : Present(versions[i], k) /\ Present(c, k) =>
                  NumberFollows(versions[i].profiles[k], c.profiles[k])
  <2>1. Current.schema = 2 BY <1>0, <1>3 DEF ModelCenterInv, VersionInv
  <2>2. c.schema = 2 BY <2>1
  <2>3. ASSUME NEW k \in Profiles, Present(versions[i], k), Present(c, k)
        PROVE  NumberFollows(versions[i].profiles[k], c.profiles[k])
    <3>1. Present(Current, k) BY <2>2, <2>3
    <3>2. NumberFollows(Current.profiles[k], c.profiles[k]) BY <2>2, <2>3, <3>1
    <3>3. NumberFollows(versions[i].profiles[k], Current.profiles[k]) BY <1>0, <1>3, <2>3, <3>1 DEF ModelCenterInv, VersionInv
    <3>4. /\ versions[i].profiles[k] \in Numbers /\ Current.profiles[k] \in Numbers /\ c.profiles[k] \in Numbers
      BY <1>0, <2>3, <3>1 DEF Present, Catalogues
    <3>5. /\ versions[i].profiles[k].version \in Nat /\ Current.profiles[k].version \in Nat
          /\ c.profiles[k].version \in Nat
      BY <3>4 DEF Numbers
    <3> QED BY <3>2, <3>3, <3>5 DEF NumberFollows
  <2> QED BY <2>2, <2>3
<1>4. VersionInv'
  <2> SUFFICES ASSUME NEW i \in 1..n + 1, NEW j \in 1..n + 1, i <= j, versions'[i].schema = 2
               PROVE  /\ versions'[j].schema = 2
                      /\ \A k \in Profiles : Present(versions'[i], k) /\ Present(versions'[j], k) =>
                           NumberFollows(versions'[i].profiles[k], versions'[j].profiles[k])
    BY <1>2 DEF VersionInv, Present, NumberFollows, NoProfile
  <2>1. CASE j \in 1..n BY <1>0, <1>2, <2>1 DEF ModelCenterInv, VersionInv
  <2>2. CASE i \in 1..n /\ j = n + 1 BY <1>2, <1>3, <2>2
  <2>3. CASE i = n + 1 /\ j = n + 1
    <3>1. \A k \in Profiles : Present(c, k) => NumberFollows(c.profiles[k], c.profiles[k])
      BY NumberFacts DEF NumberFollows, Present, Catalogues
    <3> QED BY <1>2, <2>3, <3>1
  <2> QED BY <1>0, <2>1, <2>2, <2>3
<1>5. UsageInv'
  <2>1. 1..n \subseteq 1..n + 1 BY <1>0
  <2> QED BY <1>1, <1>2, <2>1 DEF ModelCenterInv, UsageInv, Present, NoProfile
<1>6. LegacyInv'
  <2>1. ASSUME NEW i \in 1..n + 1, NEW k \in Profiles, versions'[i].schema = 1, Present(versions'[i], k)
        PROVE  versions'[i].profiles[k].version = 1
    <3>1. CASE i \in 1..n BY <1>2, <2>1, <3>1 DEF ModelCenterInv, LegacyInv
    <3>2. CASE i = n + 1 BY <1>2, <2>1, <3>2
    <3> QED BY <1>0, <3>1, <3>2
  <2>2. ASSUME NEW i \in 1..n + 1, NEW j \in 1..n + 1, NEW k \in Profiles,
               versions'[i].schema = 1, Present(versions'[i], k),
               versions'[j].schema = 2, Present(versions'[j], k),
               versions'[i].profiles[k].version = versions'[j].profiles[k].version
        PROVE  \E m \in i..n + 1 : versions'[m].schema = 1 /\ versions'[m].profiles[k] = versions'[j].profiles[k]
    <3>0. i \in 1..n
      <4>1. CASE i = n + 1
        <5>1. c.schema = 1 BY <1>2, <2>2, <4>1
        <5>2. j # n + 1 BY <1>2, <2>2, <5>1
        <5>3. j \in 1..n BY <1>0, <5>2
        <5>4. versions[j].schema = 2 BY <1>2, <2>2, <5>3
        <5> QED BY <1>3, <5>1, <5>3, <5>4
      <4> QED BY <1>0, <4>1
    <3>1. versions[i].schema = 1 /\ Present(versions[i], k) BY <1>2, <2>2, <3>0
    <3>2. ASSUME NEW m \in i..n, versions[m].schema = 1, versions[m].profiles[k] = versions'[j].profiles[k]
          PROVE  \E l \in i..n + 1 : versions'[l].schema = 1 /\ versions'[l].profiles[k] = versions'[j].profiles[k]
      <4>1. m \in 1..n /\ m \in i..n + 1 BY <1>0, <3>0
      <4> QED BY <1>2, <3>2, <4>1
    <3>3. CASE j \in 1..n
      <4>1. /\ versions[j].schema = 2 /\ Present(versions[j], k)
            /\ versions[i].profiles[k].version = versions[j].profiles[k].version
        BY <1>2, <2>2, <3>0, <3>3
      <4>2. PICK m \in i..n : versions[m].schema = 1 /\ versions[m].profiles[k] = versions[j].profiles[k]
        BY <3>0, <3>1, <3>3, <4>1 DEF ModelCenterInv, LegacyInv
      <4> QED BY <1>2, <3>2, <3>3, <4>2
    <3>4. CASE j = n + 1
      <4>1. c.schema = 2 /\ Present(c, k) /\ versions[i].profiles[k].version = c.profiles[k].version
        BY <1>2, <2>2, <3>0, <3>4
      <4>2. Present(Current, k) /\ NumberFollows(Current.profiles[k], c.profiles[k]) BY <3>0, <3>1, <4>1
      <4>3. versions[i].profiles[k].version = 1 BY <3>0, <3>1 DEF ModelCenterInv, LegacyInv
      <4>4. Current.profiles[k] \in Numbers BY <4>2, CurrentFacts
      <4>5. Current.profiles[k].version \in Nat \ {0} BY <4>4, NumberFacts
      <4>6. Current.profiles[k] = c.profiles[k] /\ Current.profiles[k].version = 1
        BY <4>1, <4>2, <4>3, <4>5 DEF NumberFollows
      <4>7. n \in i..n /\ n \in 1..n BY <1>0, <3>0
      <4>8. CASE Current.schema = 1 BY <1>0, <1>2, <3>2, <3>4, <4>6, <4>7, <4>8
      <4>9. CASE Current.schema = 2
        <5>1. PICK m \in i..n : versions[m].schema = 1 /\ versions[m].profiles[k] = Current.profiles[k]
          BY <1>0, <3>0, <3>1, <4>2, <4>3, <4>6, <4>7, <4>9 DEF ModelCenterInv, LegacyInv
        <5> QED BY <1>2, <3>2, <3>4, <4>6, <5>1
      <4> QED BY <1>0, <4>8, <4>9 DEF Catalogues
    <3> QED BY <1>0, <3>3, <3>4
  <2> QED BY <1>2, <2>1, <2>2 DEF LegacyInv, Present, NoProfile
<1> QED BY <1>0, <1>2, <1>4, <1>5, <1>6 DEF ModelCenterInv

-----------------------------------------------------------------------------
(* Changes.                                                                *)

LEMMA UpdateSteps ==
  ASSUME ModelCenterInv, NEW c \in Legacy, Update(c)
  PROVE  ModelCenterInv'
<1>1. c \in Catalogues /\ c.schema = 1 /\ \A k \in Profiles : Present(c, k) => c.profiles[k].version = 1
  BY LegacyTyped
<1>2. Current.schema = 1 /\ SaveVersion(c) BY DEF Update
<1> QED BY <1>1, <1>2, SavedSteps

LEMMA UpdateCatalogSteps ==
  ASSUME ModelCenterInv, NEW names \in SUBSET Profiles, NEW submitted \in [names -> Contents], NEW answer \in names,
         UpdateCatalog(submitted, answer)
  PROVE  ModelCenterInv'
<1> DEFINE f == [k \in Profiles |-> IF k \in DOMAIN submitted
                                    THEN Profile(Numbered(k, submitted[k]), submitted[k]) ELSE NoProfile]
           c == Configuration(2, f, answer)
<1>1. (\A k \in names : ~WasUsed(k)) /\ SaveVersion(c) BY DEF UpdateCatalog
<1>2. ASSUME NEW k \in names
      PROVE  /\ f[k] \in Numbers /\ f[k] # NoProfile
             /\ Present(Current, k) => NumberFollows(Current.profiles[k], f[k])
  <2> DEFINE content == submitted[k]
             p == Current.profiles[k]
             q == Profile(Numbered(k, content), content)
  <2>1. k \in Profiles /\ content \in Contents /\ f[k] = q BY <1>2
  <2>2. CASE ~Present(Current, k)
    <3>1. Numbered(k, content) = 1 BY <2>2 DEF Numbered
    <3>2. q = Profile(1, content) /\ 1 \in Nat \ {0} BY <3>1
    <3>3. q \in Numbers BY <2>1, <3>2, NumberFacts
    <3> QED BY <2>1, <2>2, <3>3, NumberFacts
  <2>3. CASE Present(Current, k)
    <3>1. p \in Numbers BY <2>1, <2>3, CurrentFacts
    <3>2. p.version \in Nat \ {0} /\ p = Profile(p.version, p.content) BY <3>1, NumberFacts DEF Profile
    <3>3. CASE p.content = content
      <4>1. Numbered(k, content) = p.version BY <2>3, <3>3 DEF Numbered
      <4>2. q = p BY <3>2, <3>3, <4>1
      <4> QED BY <2>1, <3>1, <3>2, <4>2, NumberFacts DEF NumberFollows
    <3>4. CASE p.content # content
      <4>1. Numbered(k, content) = p.version + 1 BY <2>3, <3>4 DEF Numbered
      <4>2. q = Profile(p.version + 1, content) /\ p.version + 1 \in Nat \ {0} BY <3>2, <4>1
      <4>3. q \in Numbers /\ q.version = p.version + 1 BY <2>1, <4>2, NumberFacts
      <4> QED BY <2>1, <3>2, <4>3, NumberFacts DEF NumberFollows
    <3> QED BY <3>3, <3>4
  <2> QED BY <2>2, <2>3
<1>3. \A k \in Profiles \ names : f[k] = NoProfile OBVIOUS
<1>4. f \in [Profiles -> Numbers \cup {NoProfile}]
  <2>1. \A k \in Profiles : f[k] \in Numbers \cup {NoProfile} BY <1>2, <1>3
  <2>2. f = [k \in Profiles |-> f[k]] OBVIOUS
  <2> HIDE DEF f
  <2> QED BY <2>1, <2>2
<1> HIDE DEF f
<1>5. c \in Catalogues /\ c.schema = 2 /\ c.profiles = f BY <1>4 DEF Catalogues, Configuration
<1> HIDE DEF c
<1>6. ASSUME NEW k \in Profiles, Present(c, k)
      PROVE  /\ Present(Current, k) => NumberFollows(Current.profiles[k], c.profiles[k])
             /\ ~Present(Current, k) => \A i \in 1..Revision : ~Present(versions[i], k)
  <2>1. k \in names BY <1>3, <1>5, <1>6 DEF Present
  <2> QED BY <1>1, <1>2, <1>5, <2>1 DEF WasUsed
<1> QED BY <1>1, <1>5, <1>6, SavedSteps

LEMMA MigrateSteps ==
  ASSUME ModelCenterInv, Migrate
  PROVE  ModelCenterInv'
<1> DEFINE Retired(k) == Present(Current, k) /\ Current.profiles[k].content.model = RetiredModel
           Renamed(k) == Profile(Current.profiles[k].version + (IF Current.schema = 2 THEN 1 ELSE 0),
                                 [Current.profiles[k].content EXCEPT !.model = Replacement])
           f == [k \in Profiles |-> IF Retired(k) THEN Renamed(k) ELSE Current.profiles[k]]
           c == [Current EXCEPT !.profiles = f]
<1>0. Current \in Catalogues BY CurrentFacts
<1>1. SaveVersion(c) BY DEF Migrate
<1>2. ASSUME NEW k \in Profiles, Present(Current, k)
      PROVE  /\ f[k] \in Numbers /\ (Current.schema = 2 => NumberFollows(Current.profiles[k], f[k]))
             /\ Current.schema = 1 => f[k].version = 1
  <2> DEFINE p == Current.profiles[k]
  <2>1. p \in Numbers /\ p.version \in Nat \ {0} /\ p.content \in Contents BY <1>2, CurrentFacts, NumberFacts
  <2>2. CASE Retired(k)
    <3> DEFINE v == p.version + (IF Current.schema = 2 THEN 1 ELSE 0)
               content == [p.content EXCEPT !.model = Replacement]
    <3>0. Current.schema = 1 => p.version = 1 BY <1>2, CurrentFacts DEF ModelCenterInv, LegacyInv, Current
    <3>1. /\ v \in Nat \ {0} /\ (Current.schema = 2 => v = p.version + 1)
          /\ Current.schema = 1 => v = 1
      BY <2>1, <3>0
    <3>2. content \in Contents BY <2>1, ModelCenterAssumption
    <3>3. f[k] = Profile(v, content) BY <2>2
    <3> HIDE DEF v, content
    <3>4. f[k] \in Numbers /\ f[k].version = v BY <3>1, <3>2, <3>3, NumberFacts
    <3> QED BY <2>1, <3>1, <3>4 DEF NumberFollows
  <2>3. CASE ~Retired(k)
    <3>0. Current.schema = 1 => p.version = 1 BY <1>2, CurrentFacts DEF ModelCenterInv, LegacyInv, Current
    <3>1. f[k] = p BY <2>3
    <3> QED BY <2>1, <3>0, <3>1 DEF NumberFollows
  <2> QED BY <2>2, <2>3
<1>3. ASSUME NEW k \in Profiles, ~Present(Current, k) PROVE f[k] = NoProfile
  BY <1>3 DEF Present
<1>4. f \in [Profiles -> Numbers \cup {NoProfile}]
  <2>1. \A k \in Profiles : f[k] \in Numbers \cup {NoProfile} BY <1>2, <1>3
  <2>2. f = [k \in Profiles |-> f[k]] OBVIOUS
  <2> HIDE DEF f
  <2> QED BY <2>1, <2>2
<1> HIDE DEF f
<1>5. c \in Catalogues /\ c.schema = Current.schema /\ c.profiles = f BY <1>0, <1>4 DEF Catalogues
<1> HIDE DEF c
<1>6. ASSUME NEW k \in Profiles, c.schema = 2, Present(c, k)
      PROVE  Present(Current, k) /\ NumberFollows(Current.profiles[k], c.profiles[k])
  BY <1>2, <1>3, <1>5, <1>6 DEF Present
<1>7. ASSUME NEW k \in Profiles, c.schema = 1, Present(c, k) PROVE c.profiles[k].version = 1
  BY <1>2, <1>3, <1>5, <1>7 DEF Present
<1> QED BY <1>1, <1>5, <1>6, <1>7, SavedSteps

-----------------------------------------------------------------------------
(* The other steps.                                                        *)

LEMMA ModelCenterInductive ==
  ASSUME ModelCenterInv, [ModelCenterNext]_modelCenterVars
  PROVE  ModelCenterInv'
<1>1. ASSUME versions' = versions, UsageInv' PROVE ModelCenterInv'
  <2>1. VersionInv' BY <1>1 DEF ModelCenterInv, VersionInv, Revision, Present, NumberFollows, NoProfile
  <2>2. LegacyInv' BY <1>1 DEF ModelCenterInv, LegacyInv, Revision, Present, NoProfile
  <2> QED BY <1>1, <2>1, <2>2 DEF ModelCenterInv, Revision
<1>2. ASSUME UNCHANGED <<versions, usage>> PROVE ModelCenterInv'
  <2>1. UsageInv' BY <1>2 DEF ModelCenterInv, UsageInv, Revision, Present, NoProfile
  <2> QED BY <1>1, <1>2, <2>1
<1>3. ASSUME NEW c \in Legacy, Update(c) PROVE ModelCenterInv' BY <1>3, UpdateSteps
<1>4. ASSUME NEW names \in SUBSET Profiles, NEW submitted \in [names -> Contents], NEW answer \in names,
             UpdateCatalog(submitted, answer)
      PROVE  ModelCenterInv'
  BY <1>4, UpdateCatalogSteps
<1>5. CASE Migrate BY <1>5, MigrateSteps
<1>6. ASSUME NEW k \in Profiles, Probe(k) PROVE ModelCenterInv' BY <1>2, <1>6 DEF Probe
<1>7. CASE SaveProbe BY <1>2, <1>7 DEF SaveProbe
<1>8. ASSUME NEW k \in Profiles, NEW chosen \in BOOLEAN, Snapshot(k, chosen) PROVE ModelCenterInv'
  <2>1. /\ usage'.step = "frozen" /\ usage'.revision = Revision /\ usage'.key = k
        /\ usage'.profile = Current.profiles[k] /\ versions' = versions /\ Present(Current, k)
    BY <1>8 DEF Snapshot, Enabled
  <2>2. Revision \in 1..Revision /\ Current = versions[Revision] BY CurrentFacts DEF Current
  <2>3. Revision' = Revision BY <2>1 DEF Revision
  <2>4. UsageInv' BY <2>1, <2>2, <2>3 DEF UsageInv, Present, NoProfile
  <2> QED BY <1>1, <2>1, <2>4
<1>9. CASE CallModel
  <2>1. usage.step = "frozen" /\ versions' = versions BY <1>9 DEF CallModel
  <2>2. Revision' = Revision BY <2>1 DEF Revision
  <2>3. CASE usage' = [usage EXCEPT !.step = "called"]
    <3>1. usage'.revision = usage.revision /\ usage'.key = usage.key /\ usage'.profile = usage.profile BY <2>3
    <3>2. UsageInv' BY <2>1, <2>2, <3>1 DEF ModelCenterInv, UsageInv, Present, NoProfile
    <3> QED BY <1>1, <2>1, <3>2
  <2>4. CASE usage' = Unused
    <3>1. UsageInv' BY <2>4 DEF UsageInv, Unused
    <3> QED BY <1>1, <2>1, <3>1
  <2> QED BY <1>9, <2>3, <2>4 DEF CallModel
<1>10. CASE UNCHANGED modelCenterVars BY <1>2, <1>10 DEF modelCenterVars
<1> QED BY <1>3, <1>4, <1>5, <1>6, <1>7, <1>8, <1>9, <1>10 DEF ModelCenterNext

LEMMA ModelCenterInitial == ModelCenterInit => ModelCenterInv
<1> SUFFICES ASSUME ModelCenterInit PROVE ModelCenterInv OBVIOUS
<1>1. PICK c \in Legacy : versions = <<c>> BY DEF ModelCenterInit
<1>2. c \in Catalogues /\ c.schema = 1 /\ \A k \in Profiles : Present(c, k) => c.profiles[k].version = 1
  BY LegacyTyped
<1>3. versions \in Seq(Catalogues) /\ Revision = 1 /\ versions[1] = c BY <1>1, <1>2 DEF Revision
<1>4. VersionInv BY <1>2, <1>3 DEF VersionInv
<1>5. UsageInv BY DEF ModelCenterInit, Unused, UsageInv
<1>6. LegacyInv BY <1>2, <1>3 DEF LegacyInv
<1> QED BY <1>3, <1>4, <1>5, <1>6 DEF ModelCenterInv

-----------------------------------------------------------------------------
(* The theorems.                                                           *)

\* The inductive invariant holds always.
THEOREM ModelCenterInvariance == ModelCenterSpec => []ModelCenterInv
<1>1. ModelCenterInit => ModelCenterInv BY ModelCenterInitial
<1>2. ModelCenterInv /\ [ModelCenterNext]_modelCenterVars => ModelCenterInv' BY ModelCenterInductive
<1> QED BY <1>1, <1>2, PTL DEF ModelCenterSpec

\* A call recorded under a profile and its version was made with what every
\* catalogue says of them, unless it was made with a legacy slot that changed
\* before there was a catalogue (model_center.py:296, 301, 138, 44, 160).
THEOREM RecordedCallsIdentifyModels == ModelCenterSpec => []CallsIdentifyModels
<1>1. ASSUME ModelCenterInv PROVE CallsIdentifyModels
  <2> DEFINE k == usage.key
             i == usage.revision
  <2> SUFFICES ASSUME usage.step = "called", NEW j \in 1..Revision, versions[j].schema = 2,
                      versions[j].profiles[k].version = usage.profile.version
               PROVE  versions[j].profiles[k] = usage.profile \/ SlotChanged
    BY DEF CallsIdentifyModels
  <2>1. k \in Profiles /\ i \in 1..Revision /\ Present(versions[i], k) /\ usage.profile = versions[i].profiles[k]
    BY <1>1 DEF ModelCenterInv, UsageInv
  <2>2. Revision \in Nat \ {0} /\ versions[i] \in Catalogues /\ versions[j] \in Catalogues
    BY <1>1, <2>1, CurrentFacts
  <2>3. versions[i].profiles[k] \in Numbers BY <2>1, <2>2 DEF Present, Catalogues
  <2>4. Present(versions[j], k)
    <3>1. usage.profile.version # 0 BY <2>1, <2>3, NumberFacts
    <3> QED BY <3>1, NumberFacts DEF Present
  <2>5. CASE versions[i].schema = 2
    <3>1. i <= j \/ j <= i BY <2>1, <2>2
    <3>2. \/ NumberFollows(versions[i].profiles[k], versions[j].profiles[k])
          \/ NumberFollows(versions[j].profiles[k], versions[i].profiles[k])
      BY <1>1, <2>1, <2>4, <2>5, <3>1 DEF ModelCenterInv, VersionInv
    <3> QED BY <2>1, <3>2 DEF NumberFollows
  <2>6. CASE versions[i].schema = 1
    <3>1. /\ k \in Profiles /\ i \in 1..Revision /\ Present(versions[i], k)
          /\ versions[i].profiles[k].version = versions[j].profiles[k].version
      BY <2>1
    <3>2. LegacyInv BY <1>1 DEF ModelCenterInv
    <3> HIDE DEF i, k
    <3>3. \E m \in i..Revision : versions[m].schema = 1 /\ versions[m].profiles[k] = versions[j].profiles[k]
      BY <2>4, <2>6, <3>1, <3>2 DEF LegacyInv
    <3> QED BY <3>3 DEF SlotChanged, i, k
  <2> QED BY <2>2, <2>5, <2>6 DEF Catalogues
<1> QED BY <1>1, ModelCenterInvariance, PTL

-----------------------------------------------------------------------------
(***************************************************************************)
(* Sharing: the locks of a request keep what it has read until it commits. *)
(*                                                                         *)
(* What a commit changes it has locked for an update, or is not there yet; *)
(* what another request has passed it holds a lock on; locks of different  *)
(* requests do not conflict.  So a commit of one request does not change   *)
(* what another one has passed.                                            *)
(***************************************************************************)

-----------------------------------------------------------------------------
(* The invariant.                                                          *)

MemberShare(u) == [row |-> <<"member", u>>, mode |-> "share"]
MemberUpdate(u) == [row |-> <<"member", u>>, mode |-> "update"]
OrganizationShare == [row |-> <<"organization", None>>, mode |-> "share"]
BaseLock(q) == [row |-> <<"base", None>>, mode |-> IF Alone(q) THEN "update" ELSE "share"]

SharingTyped ==
  /\ role \in [Users -> Roles] /\ grant \in [Users -> Grants] /\ bound \subseteq Versions
  /\ request \in [Requests -> Request \cup {Idle}] /\ place \in [Requests -> Nat \ {0}]
  /\ held \in [Requests -> SUBSET Lock]
  /\ \A r \in Requests : ~Busy(r) => place[r] = 1 /\ held[r] = {}

\* The statements of a request that are done.
Passed(r, statement) ==
  \E i \in 1..Len(Plan(request[r])) : i < place[r] /\ Plan(request[r])[i] = statement

\* Locks of different requests go together, and are on rows that are there.
LockInv ==
  /\ \A r, s \in Requests : r # s => \A l \in held[r], k \in held[s] : ~Conflict(l, k)
  /\ \A r \in Requests : \A u \in Users :
       MemberShare(u) \in held[r] \/ MemberUpdate(u) \in held[r] => role[u] # None

ActorInv(r, q) ==
  Passed(r, "actor") => Share(q.actor) \subseteq held[r] /\ Passes(q, "actor")
TargetInv(r, q) ==
  Passed(r, "target") =>
    \/ MemberUpdate(q.target) \in held[r] /\ Passes(q, "target")
    \/ /\ q.op = "setMember" /\ MemberUpdate(q.target) \notin held[r]
       /\ q.role = "admin" => role[q.actor] = "owner"
BaseInv(r, q) ==
  Passed(r, "base") => BaseLock(q) \in held[r] /\ base = "open"
GrantInv(r, q) == Passed(r, "grant") => Passes(q, "grant")
BindingInv(r, q) == Passed(r, "binding") => Passes(q, "binding")

\* What a request has read is still so.
FactInv(r) ==
  LET q == request[r]
  IN ActorInv(r, q) /\ TargetInv(r, q) /\ BaseInv(r, q) /\ GrantInv(r, q) /\ BindingInv(r, q)

SharingInv == SharingTyped /\ LockInv /\ GrantsOfMembers /\ \A r \in Requests : Busy(r) => FactInv(r)

-----------------------------------------------------------------------------
(* Requests and their plans.                                               *)

LEMMA Plans ==
  ASSUME NEW q \in Request
  PROVE  /\ q.actor \in Users /\ (q.op = "publish" => q.version \in Versions)
         /\ \/ /\ q.op \in {"setMember", "removeMember"} /\ q.target \in Users
               /\ q.op = "setMember" => q.role \in {"admin", "member"}
               /\ Plan(q) = <<"actor", "target">>
            \/ q.op \in {"archive", "createBase"} /\ Plan(q) = <<"actor">>
            \/ q.op = "deleteBase" /\ Plan(q) = <<"base", "actor">>
            \/ /\ q.op = "setGrant" /\ q.target \in Users /\ q.role \in Grants
               /\ Plan(q) = <<"base", "actor", "grantee">>
            \/ q.op \in {"publish", "unpublish"} /\ Plan(q) = <<"base", "actor", "grant", "binding">>
            \/ q.op = "answer" /\ Plan(q) = <<"actor", "base", "grant", "binding">>
<1>1. CASE q \in [op : {"setMember"}, actor : Users, target : Users, role : {"admin", "member"}]
  <2>1. q.op = "setMember" /\ q.actor \in Users /\ q.target \in Users /\ q.role \in {"admin", "member"} BY <1>1
  <2> QED BY <2>1 DEF Plan
<1>2. CASE q \in [op : {"removeMember"}, actor : Users, target : Users]
  <2>1. q.op = "removeMember" /\ q.actor \in Users /\ q.target \in Users BY <1>2
  <2> QED BY <2>1 DEF Plan
<1>3. CASE q \in [op : {"archive", "createBase", "deleteBase"}, actor : Users]
  <2>1. q.op \in {"archive", "createBase", "deleteBase"} /\ q.actor \in Users BY <1>3
  <2> QED BY <2>1 DEF Plan
<1>4. CASE q \in [op : {"setGrant"}, actor : Users, target : Users, role : Grants]
  <2>1. q.op = "setGrant" /\ q.actor \in Users /\ q.target \in Users /\ q.role \in Grants BY <1>4
  <2> QED BY <2>1 DEF Plan
<1>5. CASE q \in [op : {"publish"}, actor : {Author}, version : Versions, expected : Versions \cup {None}]
  <2>1. q.op = "publish" /\ q.actor \in Users /\ q.version \in Versions BY <1>5, SharingAssumption
  <2> QED BY <2>1 DEF Plan
<1>6. CASE q \in [op : {"unpublish"}, actor : Users, version : Versions]
  <2>1. q.op = "unpublish" /\ q.actor \in Users BY <1>6
  <2> QED BY <2>1 DEF Plan
<1>7. CASE q \in [op : {"answer"}, actor : Users, versions : SUBSET Versions]
  <2>1. q.op = "answer" /\ q.actor \in Users BY <1>7
  <2> QED BY <2>1 DEF Plan
<1> QED BY <1>1, <1>2, <1>3, <1>4, <1>5, <1>6, <1>7 DEF Request

\* A published document, or an answer, is looked at after the member and the base.
LEMMA Order ==
  ASSUME NEW r, request[r] \in Request, place[r] \in Nat \ {0}
  PROVE  /\ Passed(r, "target") => Passed(r, "actor")
         /\ Passed(r, "grant") => Passed(r, "actor") /\ Passed(r, "base")
         /\ Passed(r, "binding") => Passed(r, "actor") /\ Passed(r, "base")
<1> DEFINE q == request[r]
<1>1. CASE q.op \in {"setMember", "removeMember"} /\ Plan(q) = <<"actor", "target">> BY <1>1 DEF Passed
<1>2. CASE q.op \in {"archive", "createBase"} /\ Plan(q) = <<"actor">> BY <1>2 DEF Passed
<1>3. CASE q.op = "deleteBase" /\ Plan(q) = <<"base", "actor">> BY <1>3 DEF Passed
<1>4. CASE q.op = "setGrant" /\ Plan(q) = <<"base", "actor", "grantee">> BY <1>4 DEF Passed
<1>5. CASE q.op \in {"publish", "unpublish"} /\ Plan(q) = <<"base", "actor", "grant", "binding">> BY <1>5 DEF Passed
<1>6. CASE q.op = "answer" /\ Plan(q) = <<"actor", "base", "grant", "binding">> BY <1>6 DEF Passed
<1> QED BY <1>1, <1>2, <1>3, <1>4, <1>5, <1>6, Plans

LEMMA OnlyMembersAreTargets ==
  ASSUME NEW q \in Request, NEW i \in 1..Len(Plan(q)), Plan(q)[i] = "target"
  PROVE  q.op \in {"setMember", "removeMember"}
<1>1. CASE Plan(q) = <<"actor">> BY <1>1
<1>2. CASE Plan(q) = <<"base", "actor">> BY <1>2
<1>3. CASE Plan(q) = <<"base", "actor", "grantee">> BY <1>3
<1>4. CASE Plan(q) = <<"base", "actor", "grant", "binding">> BY <1>4
<1>5. CASE Plan(q) = <<"actor", "base", "grant", "binding">> BY <1>5
<1> QED BY <1>1, <1>2, <1>3, <1>4, <1>5, Plans

\* What a request that is ready has passed.
LEMMA AllPassed ==
  ASSUME NEW r, request[r] \in Request, place[r] \in Nat \ {0}, Ready(r)
  PROVE  /\ Passed(r, "actor")
         /\ request[r].op \in {"setMember", "removeMember"} => Passed(r, "target")
         /\ request[r].op \in {"deleteBase", "setGrant", "publish", "unpublish", "answer"} => Passed(r, "base")
         /\ request[r].op \in {"publish", "unpublish", "answer"} => Passed(r, "grant") /\ Passed(r, "binding")
<1> DEFINE q == request[r]
<1>0. place[r] > Len(Plan(q)) BY DEF Ready
<1>1. CASE q.op \in {"setMember", "removeMember"} /\ Plan(q) = <<"actor", "target">> BY <1>0, <1>1 DEF Passed
<1>2. CASE q.op \in {"archive", "createBase"} /\ Plan(q) = <<"actor">> BY <1>0, <1>2 DEF Passed
<1>3. CASE q.op = "deleteBase" /\ Plan(q) = <<"base", "actor">> BY <1>0, <1>3 DEF Passed
<1>4. CASE q.op = "setGrant" /\ Plan(q) = <<"base", "actor", "grantee">> BY <1>0, <1>4 DEF Passed
<1>5. CASE q.op \in {"publish", "unpublish"} /\ Plan(q) = <<"base", "actor", "grant", "binding">>
  BY <1>0, <1>5 DEF Passed
<1>6. CASE q.op = "answer" /\ Plan(q) = <<"actor", "base", "grant", "binding">> BY <1>0, <1>6 DEF Passed
<1> QED BY <1>1, <1>2, <1>3, <1>4, <1>5, <1>6, Plans

-----------------------------------------------------------------------------
(* Locks.                                                                  *)

LEMMA LocksTyped ==
  ASSUME NEW q \in Request, NEW i \in 1..Len(Plan(q))
  PROVE  Locks(q, Plan(q)[i]) \subseteq Lock
<1> DEFINE st == Plan(q)[i]
<1>0. q.actor \in Users BY Plans
<1>1. CASE st = "target"
  <2>1. q.target \in Users BY <1>1, Plans
  <2>2. <<"member", q.target>> \in Row BY <2>1 DEF Row
  <2> QED BY <1>1, <2>2 DEF Locks, Lock
<1>2. CASE st = "actor"
  <2>1. <<"member", q.actor>> \in Row /\ <<"organization", None>> \in Row BY <1>0 DEF Row
  <2> QED BY <1>2, <2>1 DEF Locks, Lock, Share
<1>3. CASE st = "base"
  <2>1. <<"base", None>> \in Row BY DEF Row
  <2> QED BY <1>3, <2>1 DEF Locks, Lock
<1>4. CASE st = "grant"
  <2>1. <<"grant", q.actor>> \in Row BY <1>0 DEF Row
  <2> QED BY <1>4, <2>1 DEF Locks, Lock
<1>5. CASE st \notin {"target", "actor", "base", "grant"} BY <1>5 DEF Locks
<1> HIDE DEF st
<1> QED BY <1>1, <1>2, <1>3, <1>4, <1>5

LEMMA LockRows ==
  /\ \A u : There(<<"member", u>>) <=> role[u] # None
  /\ There(<<"organization", None>>) /\ There(<<"base", None>>)
  /\ \A u : Conflict(MemberShare(u), MemberUpdate(u)) /\ Conflict(MemberUpdate(u), MemberUpdate(u))
            /\ Conflict(MemberUpdate(u), MemberShare(u))
  BY DEF There, Conflict, MemberShare, MemberUpdate

\* A statement takes locks that go together with those of the others.
LEMMA Granted ==
  ASSUME SharingInv, NEW r \in Requests, NEW locks \in SUBSET Lock, ~Waits(r, locks),
         held' = [held EXCEPT ![r] = @ \cup Allowed(locks)], UNCHANGED role
  PROVE  /\ held' \in [Requests -> SUBSET Lock] /\ held'[r] = held[r] \cup Allowed(locks)
         /\ \A s \in Requests \ {r} : held'[s] = held[s]
         /\ LockInv'
<1>1. held \in [Requests -> SUBSET Lock] BY DEF SharingInv, SharingTyped
<1>2. Allowed(locks) \in SUBSET Lock BY DEF Allowed
<1>3. /\ held' \in [Requests -> SUBSET Lock] /\ held'[r] = held[r] \cup Allowed(locks)
      /\ \A s \in Requests \ {r} : held'[s] = held[s]
  BY <1>1, <1>2
<1>4. ASSUME NEW s \in Requests \ {r}, NEW l \in held'[r], NEW k \in held'[s]
      PROVE  ~Conflict(l, k) /\ ~Conflict(k, l)
  <2>1. ~Conflict(l, k)
    <3>1. CASE l \in held[r] BY <1>3, <1>4, <3>1 DEF SharingInv, LockInv
    <3>2. CASE l \in Allowed(locks) BY <1>3, <1>4, <3>2 DEF Waits, Allowed
    <3> QED BY <1>3, <1>4, <3>1, <3>2
  <2> QED BY <2>1 DEF Conflict
<1>5. ASSUME NEW s \in Requests, NEW t \in Requests, s # t, NEW l \in held'[s], NEW k \in held'[t]
      PROVE  ~Conflict(l, k)
  BY <1>3, <1>4, <1>5 DEF SharingInv, LockInv
<1>6. ASSUME NEW s \in Requests, NEW u \in Users, MemberShare(u) \in held'[s] \/ MemberUpdate(u) \in held'[s]
      PROVE  role'[u] # None
  <2>1. MemberShare(u).row = <<"member", u>> /\ MemberUpdate(u).row = <<"member", u>>
    BY DEF MemberShare, MemberUpdate
  <2>2. MemberShare(u) \in Allowed(locks) \/ MemberUpdate(u) \in Allowed(locks) => role[u] # None
    BY <2>1, LockRows DEF Allowed
  <2> QED BY <1>3, <1>6, <2>2 DEF SharingInv, LockInv
<1>7. LockInv' BY <1>5, <1>6 DEF LockInv, Conflict, MemberShare, MemberUpdate
<1> QED BY <1>3, <1>7

-----------------------------------------------------------------------------
(* Statements.                                                             *)

\* The rows have not changed: what another request has passed is as it was.
LEMMA OthersStay ==
  ASSUME NEW s \in Requests, FactInv(s), UNCHANGED rows,
         request'[s] = request[s], place'[s] = place[s], held'[s] = held[s]
  PROVE  FactInv(s)'
<1>1. PICK q : q = request[s] OBVIOUS
<1>2. request'[s] = q BY <1>1
<1>3. \A st : Passed(s, st)' <=> Passed(s, st) BY DEF Passed
<1>4. \A st : Passes(q, st)' <=> Passes(q, st) BY DEF rows, Passes, MayManage, Leads, MayRead, MayEdit
<1>5. ActorInv(s, q) /\ TargetInv(s, q) /\ BaseInv(s, q) /\ GrantInv(s, q) /\ BindingInv(s, q) BY <1>1 DEF FactInv
<1>6. UNCHANGED <<role, base>> BY DEF rows
<1>7. ActorInv(s, q)' BY <1>3, <1>4, <1>5 DEF ActorInv
<1>8. TargetInv(s, q)' BY <1>3, <1>4, <1>5, <1>6 DEF TargetInv, MemberUpdate
<1>9. BaseInv(s, q)' BY <1>3, <1>5, <1>6 DEF BaseInv
<1>10. GrantInv(s, q)' /\ BindingInv(s, q)' BY <1>3, <1>4, <1>5 DEF GrantInv, BindingInv
<1> QED BY <1>2, <1>7, <1>8, <1>9, <1>10 DEF FactInv

\* A statement, the first one or the next one, finds what it passes as it is.
LEMMA StatementSteps ==
  ASSUME SharingInv, NEW r \in Requests, NEW q \in Request, UNCHANGED rows,
         \/ request[r] = Idle /\ request' = [request EXCEPT ![r] = q]
         \/ request[r] = q /\ request' = request,
         place[r] \in 1..Len(Plan(q)), Runs(r, q, Plan(q)[place[r]])
  PROVE  SharingInv'
<1> DEFINE n == place[r]
<1>0. /\ request \in [Requests -> Request \cup {Idle}] /\ place \in [Requests -> Nat \ {0}]
      /\ role \in [Users -> Roles] /\ grant \in [Users -> Grants] /\ bound \subseteq Versions
      /\ \A s \in Requests : ~Busy(s) => place[s] = 1 /\ held[s] = {}
  BY DEF SharingInv, SharingTyped
<1>1. PICK st : st = Plan(q)[n] OBVIOUS
<1>2. ~Waits(r, Locks(q, st)) /\ Passes(q, st) /\ place' = [place EXCEPT ![r] = @ + 1]
      /\ held' = [held EXCEPT ![r] = @ \cup Allowed(Locks(q, st))]
  BY <1>1 DEF Runs
<1>3. UNCHANGED <<role, archived, base, grant, bound, current>> BY DEF rows
<1>4. Locks(q, st) \in SUBSET Lock BY <1>1, LocksTyped
<1>5. /\ held' \in [Requests -> SUBSET Lock] /\ held'[r] = held[r] \cup Allowed(Locks(q, st))
      /\ \A s \in Requests \ {r} : held'[s] = held[s]
      /\ LockInv'
  BY <1>2, <1>3, <1>4, Granted
<1>6. /\ request' \in [Requests -> Request \cup {Idle}] /\ request'[r] = q
      /\ \A s \in Requests \ {r} : request'[s] = request[s]
  BY <1>0
<1>7. /\ place' \in [Requests -> Nat \ {0}] /\ place'[r] = n + 1
      /\ \A s \in Requests \ {r} : place'[s] = place[s]
  BY <1>0, <1>2
<1>8. SharingTyped'
  <2>1. q # Idle BY IdleAssumption
  <2>2. \A s \in Requests : ~Busy(s)' => s # r /\ ~Busy(s) BY <1>6, <2>1 DEF Busy
  <2>3. \A s \in Requests : ~Busy(s)' => place'[s] = 1 /\ held'[s] = {} BY <1>0, <1>5, <1>7, <2>2
  <2> QED BY <1>0, <1>3, <1>5, <1>6, <1>7, <2>3 DEF SharingTyped
<1>9. GrantsOfMembers' BY <1>3 DEF SharingInv, GrantsOfMembers
<1>10. ASSUME NEW s \in Requests \ {r}, Busy(s)' PROVE FactInv(s)'
  <2>1. Busy(s) BY <1>6, <1>10 DEF Busy
  <2>2. FactInv(s) BY <2>1 DEF SharingInv
  <2> QED BY <1>5, <1>6, <1>7, <2>2, OthersStay
<1>11. FactInv(r)'
  <2>1. \A x : Passed(r, x)' => x = st \/ Passed(r, x)
    <3> SUFFICES ASSUME NEW x, Passed(r, x)' PROVE x = st \/ Passed(r, x) OBVIOUS
    <3>1. PICK i \in 1..Len(Plan(q)) : i < n + 1 /\ Plan(q)[i] = x BY <1>6, <1>7 DEF Passed
    <3>2. CASE i = n BY <1>1, <3>1, <3>2
    <3>3. CASE i < n /\ request[r] = q BY <3>1, <3>3 DEF Passed
    <3>4. CASE i < n /\ request[r] = Idle
      <4>1. n = 1 BY <1>0, <3>4 DEF Busy
      <4> QED BY <3>1, <3>4, <4>1
    <3> QED BY <1>0, <3>1, <3>2, <3>3, <3>4
  <2>2. \A x : Passed(r, x) => request[r] = q
    <3> SUFFICES ASSUME NEW x, Passed(r, x), request[r] = Idle PROVE FALSE OBVIOUS
    <3>1. n = 1 BY <1>0 DEF Busy
    <3> QED BY <3>1 DEF Passed
  <2>3. request[r] = q => FactInv(r) BY IdleAssumption DEF SharingInv, Busy
  <2>4. \A x : Passes(q, x)' <=> Passes(q, x) BY <1>3 DEF Passes, MayManage, Leads, MayRead, MayEdit
  <2>5. held[r] \subseteq held'[r] /\ Allowed(Locks(q, st)) \subseteq held'[r] BY <1>5
  <2>6. ActorInv(r, q)'
    <3>1. CASE st = "actor"
      <4>1. Locks(q, st) = {MemberShare(q.actor), OrganizationShare}
        BY <3>1 DEF Locks, Share, MemberShare, OrganizationShare
      <4>2. role[q.actor] # None BY <1>2, <3>1 DEF Passes
      <4>3. MemberShare(q.actor) \in Allowed(Locks(q, st)) /\ OrganizationShare \in Allowed(Locks(q, st))
        BY <4>1, <4>2, LockRows DEF Allowed, MemberShare, OrganizationShare
      <4>4. Share(q.actor) \subseteq held'[r] BY <2>5, <4>3 DEF Share, MemberShare, OrganizationShare
      <4> QED BY <1>2, <2>4, <3>1, <4>4 DEF ActorInv
    <3>2. CASE st # "actor" BY <2>1, <2>2, <2>3, <2>4, <2>5, <3>2 DEF ActorInv, FactInv
    <3> QED BY <3>1, <3>2
  <2>7. TargetInv(r, q)'
    <3>1. CASE st = "target"
      <4>1. Locks(q, st) = {MemberUpdate(q.target)} BY <3>1 DEF Locks, MemberUpdate
      <4>2. MayManage(q) /\ (q.op = "removeMember" => role[q.target] # None) BY <1>2, <3>1 DEF Passes
      <4>3. CASE role[q.target] # None
        <5>1. MemberUpdate(q.target) \in held'[r]
          BY <2>5, <4>1, <4>3, LockRows DEF Allowed, MemberUpdate
        <5> QED BY <1>2, <2>4, <3>1, <5>1 DEF TargetInv
      <4>4. CASE role[q.target] = None
        <5>1. q.op \in {"setMember", "removeMember"} BY <1>1, <3>1, OnlyMembersAreTargets
        <5>2. q.op = "setMember" /\ (q.role = "admin" => role[q.actor] = "owner")
          BY <4>2, <4>4, <5>1 DEF MayManage
        <5>3. MemberUpdate(q.target) \notin held'[r]
          <6>1. q.target \in Users BY <5>1, Plans
          <6>2. MemberUpdate(q.target) \notin held[r] BY <4>4, <6>1 DEF SharingInv, LockInv
          <6>3. ~There(MemberUpdate(q.target).row) BY <4>4, LockRows DEF MemberUpdate
          <6>4. MemberUpdate(q.target) \notin Allowed(Locks(q, st)) BY <6>3 DEF Allowed
          <6> QED BY <1>5, <6>2, <6>4
        <5> QED BY <1>3, <5>2, <5>3 DEF TargetInv, MemberUpdate
      <4> QED BY <4>3, <4>4
    <3>2. CASE st # "target"
      <4>1. Passed(r, "target")' => Passed(r, "target") BY <2>1, <3>2
      <4>2. Passed(r, "target") => TargetInv(r, q) BY <2>2, <2>3 DEF FactInv
      <4>3. MemberUpdate(q.target) \notin Locks(q, st)
        BY <3>2 DEF Locks, Share, MemberUpdate
      <4>4. MemberUpdate(q.target) \in held'[r] <=> MemberUpdate(q.target) \in held[r]
        BY <1>5, <4>3 DEF Allowed
      <4> QED BY <1>3, <2>4, <4>1, <4>2, <4>4 DEF TargetInv, MemberUpdate
    <3> QED BY <3>1, <3>2
  <2>8. BaseInv(r, q)'
    <3>1. CASE st = "base"
      <4>1. Locks(q, st) = {BaseLock(q)} BY <3>1 DEF Locks, BaseLock
      <4>2. BaseLock(q) \in held'[r] BY <2>5, <4>1, LockRows DEF Allowed, BaseLock
      <4>3. base = "open" BY <1>2, <3>1 DEF Passes
      <4> QED BY <1>3, <4>2, <4>3 DEF BaseInv, BaseLock
    <3>2. CASE st # "base"
      <4>1. Passed(r, "base")' => Passed(r, "base") BY <2>1, <3>2
      <4>2. Passed(r, "base") => BaseInv(r, q) BY <2>2, <2>3 DEF FactInv
      <4> QED BY <1>3, <2>5, <4>1, <4>2 DEF BaseInv, BaseLock
    <3> QED BY <3>1, <3>2
  <2>9. GrantInv(r, q)' BY <1>2, <2>1, <2>2, <2>3, <2>4 DEF GrantInv, FactInv
  <2>10. BindingInv(r, q)' BY <1>2, <2>1, <2>2, <2>3, <2>4 DEF BindingInv, FactInv
  <2> QED BY <1>6, <2>6, <2>7, <2>8, <2>9, <2>10 DEF FactInv
<1> QED BY <1>5, <1>8, <1>9, <1>10, <1>11 DEF SharingInv

-----------------------------------------------------------------------------
(* Commits.                                                                *)

BaseUpdate == [row |-> <<"base", None>>, mode |-> "update"]

\* What a commit changes is locked for an update, or was not there.
LEMMA CommitEffects ==
  ASSUME SharingInv, NEW r \in Requests, Commit(r)
  PROVE  /\ role' \in [Users -> Roles] /\ grant' \in [Users -> Grants] /\ GrantsOfMembers'
         /\ bound' \subseteq Versions
         /\ \A u \in Users : role'[u] = role[u] \/ role[u] = None \/ MemberUpdate(u) \in held[r]
         /\ \A u \in Users : grant'[u] = grant[u] \/ MemberUpdate(u) \in held[r] \/ BaseUpdate \in held[r]
         /\ archived' = archived \/ \A s \in Requests \ {r} : OrganizationShare \notin held[s]
         /\ base = "open" => base' = "open" \/ BaseUpdate \in held[r]
         /\ UNCHANGED <<bound, current>> \/ BaseUpdate \in held[r]
<1>1. PICK q : q = request[r] OBVIOUS
<1>2. Ready(r) /\ Busy(r) BY DEF Commit, Ready
<1>3. q \in Request /\ place[r] \in Nat \ {0} /\ request[r] \in Request BY <1>1, <1>2 DEF Busy, SharingInv, SharingTyped
<1>4. FactInv(r) BY <1>2 DEF SharingInv
<1>5. ActorInv(r, q) /\ TargetInv(r, q) /\ BaseInv(r, q) BY <1>1, <1>4 DEF FactInv
<1>6. /\ role \in [Users -> Roles] /\ grant \in [Users -> Grants] /\ bound \subseteq Versions
      /\ \A u \in Users : grant[u] # None => role[u] # None
  BY DEF SharingInv, SharingTyped, GrantsOfMembers
<1>7. q.op \in {"deleteBase", "setGrant", "publish", "unpublish"} => BaseUpdate \in held[r]
  <2>1. q.op \in {"deleteBase", "setGrant", "publish", "unpublish"} => Passed(r, "base") BY <1>1, <1>2, <1>3, AllPassed
  <2>2. q.op \in {"deleteBase", "setGrant", "publish", "unpublish"} => BaseLock(q) = BaseUpdate
    BY DEF BaseLock, BaseUpdate, Alone
  <2> QED BY <1>5, <2>1, <2>2 DEF BaseInv
<1>8. CASE q.op = "setMember" /\ ~Collides(r) /\ role' = [role EXCEPT ![q.target] = q.role]
           /\ UNCHANGED <<archived, base, grant, bound, current>>
  <2>1. q.target \in Users /\ q.role \in {"admin", "member"} BY <1>3, <1>8, Plans
  <2>2. q.role # None /\ q.role \in Roles BY <2>1, SharingAssumption DEF Roles
  <2>3. role' \in [Users -> Roles] /\ role'[q.target] = q.role /\ \A u \in Users \ {q.target} : role'[u] = role[u]
    BY <1>6, <1>8, <2>1, <2>2
  <2>4. role[q.target] = None \/ MemberUpdate(q.target) \in held[r] BY <1>1, <1>8 DEF Collides, MemberUpdate
  <2>5. GrantsOfMembers' BY <1>6, <1>8, <2>2, <2>3 DEF GrantsOfMembers
  <2> QED BY <1>6, <1>8, <2>3, <2>4, <2>5
<1>9. CASE q.op = "removeMember" /\ role' = [role EXCEPT ![q.target] = None] /\ grant' = Cascade(q.target)
           /\ UNCHANGED <<archived, base, bound, current>>
  <2>1. q.target \in Users BY <1>3, <1>9, Plans
  <2>2. MemberUpdate(q.target) \in held[r]
    <3>1. Passed(r, "target") BY <1>1, <1>2, <1>3, <1>9, AllPassed
    <3> QED BY <1>5, <1>9, <3>1 DEF TargetInv
  <2>3. role' \in [Users -> Roles] /\ \A u \in Users \ {q.target} : role'[u] = role[u] BY <1>6, <1>9 DEF Roles
  <2>4. grant' \in [Users -> Grants] /\ grant'[q.target] = None /\ \A u \in Users \ {q.target} : grant'[u] = grant[u]
    BY <1>6, <1>9, <2>1 DEF Cascade, Grants
  <2>5. GrantsOfMembers' BY <1>6, <2>3, <2>4 DEF GrantsOfMembers
  <2> QED BY <1>6, <1>9, <2>2, <2>3, <2>4, <2>5
<1>10. CASE /\ q.op = "archive" /\ ~Waits(r, {[row |-> <<"organization", None>>, mode |-> "update"]})
            /\ archived' = TRUE /\ UNCHANGED <<role, base, grant, bound, current>>
  <2>1. ASSUME NEW s \in Requests \ {r}, OrganizationShare \in held[s] PROVE FALSE
    <3> DEFINE l == [row |-> <<"organization", None>>, mode |-> "update"]
    <3>1. Conflict(l, OrganizationShare) BY DEF Conflict, OrganizationShare
    <3>2. There(l.row) BY LockRows
    <3>3. Waits(r, {l}) BY <2>1, <3>1, <3>2 DEF Waits
    <3> QED BY <1>10, <3>3
  <2>2. GrantsOfMembers' BY <1>6, <1>10 DEF GrantsOfMembers
  <2> QED BY <1>6, <1>10, <2>1, <2>2
<1>11. CASE q.op = "createBase" /\ base' = "open" /\ UNCHANGED <<role, archived, grant, bound, current>>
  <2>1. GrantsOfMembers' BY <1>6, <1>11 DEF GrantsOfMembers
  <2> QED BY <1>6, <1>11, <2>1
<1>12. CASE /\ q.op = "deleteBase" /\ base' = "deleted"
            /\ grant' = [u \in Users |-> None] /\ bound' = {} /\ current' = None
            /\ UNCHANGED <<role, archived>>
  <2>1. GrantsOfMembers' BY <1>12 DEF GrantsOfMembers
  <2>2. grant' \in [Users -> Grants] BY <1>12 DEF Grants
  <2> QED BY <1>6, <1>7, <1>12, <2>1, <2>2
<1>13. CASE /\ q.op = "setGrant" /\ role[q.target] # None
            /\ grant' = [grant EXCEPT ![q.target] = q.role] /\ UNCHANGED <<role, archived, base, bound, current>>
  <2>1. q.target \in Users /\ q.role \in Grants BY <1>3, <1>13, Plans
  <2>2. grant' \in [Users -> Grants] /\ \A u \in Users \ {q.target} : grant'[u] = grant[u] BY <1>6, <1>13, <2>1
  <2>3. GrantsOfMembers' BY <1>6, <1>13, <2>2 DEF GrantsOfMembers
  <2> QED BY <1>6, <1>7, <1>13, <2>2, <2>3
<1>14. CASE /\ q.op \in {"publish", "unpublish"} /\ UNCHANGED <<role, archived, base, grant>>
            /\ q.op = "publish" => bound' = bound \cup {q.version}
            /\ q.op = "unpublish" => bound' = bound \ {q.version}
  <2>0. bound' \subseteq Versions BY <1>3, <1>6, <1>14, Plans
  <2>1. GrantsOfMembers' BY <1>6, <1>14 DEF GrantsOfMembers
  <2> QED BY <1>6, <1>7, <1>14, <2>0, <2>1
<1>15. CASE UNCHANGED rows
  <2>1. UNCHANGED <<role, archived, base, grant, bound, current>> BY <1>15 DEF rows
  <2>2. GrantsOfMembers' BY <1>6, <2>1 DEF GrantsOfMembers
  <2> QED BY <1>6, <2>1, <2>2
<1>16. CommitMembers(r, q) \/ CommitBase(r, q) \/ CommitBinding(q) \/ UNCHANGED rows BY <1>1 DEF Commit
<1>17. CASE CommitMembers(r, q) BY <1>8, <1>9, <1>10, <1>17 DEF CommitMembers
<1>18. CASE CommitBase(r, q) BY <1>11, <1>12, <1>13, <1>18 DEF CommitBase
<1>19. CASE CommitBinding(q)
  <2>1. q.op = "publish" => q.op # "unpublish" OBVIOUS
  <2> QED BY <1>14, <1>19, <2>1 DEF CommitBinding
<1> QED BY <1>15, <1>16, <1>17, <1>18, <1>19

\* What a request has passed stays as it is when another one commits.
LEMMA OthersKeepFacts ==
  ASSUME SharingInv, NEW r \in Requests, Commit(r), NEW s \in Requests \ {r}, Busy(s),
         request'[s] = request[s], place'[s] = place[s], held'[s] = held[s]
  PROVE  FactInv(s)'
<1>1. PICK q : q = request[s] OBVIOUS
<1>2. q \in Request /\ q.actor \in Users /\ request[s] \in Request /\ place[s] \in Nat \ {0}
      /\ (q.op \in {"setMember", "removeMember"} => q.target \in Users)
  <2>1. q \in Request /\ place[s] \in Nat \ {0} BY <1>1 DEF Busy, SharingInv, SharingTyped
  <2> QED BY <1>1, <2>1, Plans
<1>3. \A st : Passed(s, st)' <=> Passed(s, st) BY DEF Passed
<1>4. FactInv(s) BY DEF SharingInv
<1>5. ActorInv(s, q) /\ TargetInv(s, q) /\ BaseInv(s, q) /\ GrantInv(s, q) /\ BindingInv(s, q)
  BY <1>1, <1>4 DEF FactInv
<1>6. \A l \in held[r], k \in held[s] : ~Conflict(l, k) BY DEF SharingInv, LockInv
<1>7. /\ \A u \in Users : role'[u] = role[u] \/ role[u] = None \/ MemberUpdate(u) \in held[r]
      /\ \A u \in Users : grant'[u] = grant[u] \/ MemberUpdate(u) \in held[r] \/ BaseUpdate \in held[r]
      /\ archived' = archived \/ \A t \in Requests \ {r} : OrganizationShare \notin held[t]
      /\ base = "open" => base' = "open" \/ BaseUpdate \in held[r]
      /\ UNCHANGED <<bound, current>> \/ BaseUpdate \in held[r]
  BY CommitEffects
<1>8. Passed(s, "actor") =>
        /\ role'[q.actor] = role[q.actor] /\ archived' = archived /\ MemberUpdate(q.actor) \notin held[r]
  <2> SUFFICES ASSUME Passed(s, "actor")
               PROVE  role'[q.actor] = role[q.actor] /\ archived' = archived /\ MemberUpdate(q.actor) \notin held[r]
    OBVIOUS
  <2>1. MemberShare(q.actor) \in held[s] /\ OrganizationShare \in held[s]
    BY <1>5 DEF ActorInv, Share, MemberShare, OrganizationShare
  <2>2. MemberUpdate(q.actor) \notin held[r] BY <1>6, <2>1, LockRows
  <2>3. role[q.actor] # None BY <1>2, <2>1 DEF SharingInv, LockInv
  <2> QED BY <1>2, <1>7, <2>1, <2>2, <2>3
<1>9. Passed(s, "base") => BaseUpdate \notin held[r]
  <2>1. Conflict(BaseUpdate, BaseLock(q)) BY DEF Conflict, BaseUpdate, BaseLock
  <2> QED BY <1>5, <1>6, <2>1 DEF BaseInv
<1>10. /\ Passed(s, "target") => Passed(s, "actor")
       /\ Passed(s, "grant") => Passed(s, "actor") /\ Passed(s, "base")
       /\ Passed(s, "binding") => Passed(s, "actor") /\ Passed(s, "base")
  BY <1>2, Order
<1>11. ActorInv(s, q)'
  <2> SUFFICES ASSUME Passed(s, "actor") PROVE Share(q.actor) \subseteq held'[s] /\ Passes(q, "actor")'
    BY <1>3 DEF ActorInv
  <2>1. Share(q.actor) \subseteq held[s] /\ Passes(q, "actor") BY <1>5 DEF ActorInv
  <2>2. role'[q.actor] = role[q.actor] /\ archived' = archived BY <1>8
  <2> QED BY <2>1, <2>2 DEF Passes, Leads
<1>12. TargetInv(s, q)'
  <2> SUFFICES ASSUME Passed(s, "target")
               PROVE  \/ MemberUpdate(q.target) \in held'[s] /\ Passes(q, "target")'
                      \/ /\ q.op = "setMember" /\ MemberUpdate(q.target) \notin held'[s]
                         /\ q.role = "admin" => role'[q.actor] = "owner"
    BY <1>3 DEF TargetInv, MemberUpdate
  <2>1. role'[q.actor] = role[q.actor] BY <1>8, <1>10
  <2>2. CASE MemberUpdate(q.target) \in held[s] /\ Passes(q, "target")
    <3>1. MemberUpdate(q.target) \notin held[r] BY <1>6, <2>2, LockRows
    <3>2. q.op \in {"setMember", "removeMember"}
      <4>1. PICK i \in 1..Len(Plan(q)) : Plan(q)[i] = "target" BY <1>1 DEF Passed
      <4> QED BY <1>2, <4>1, OnlyMembersAreTargets
    <3>3. role[q.target] # None BY <1>2, <2>2, <3>2 DEF SharingInv, LockInv
    <3>4. role'[q.target] = role[q.target] BY <1>2, <1>7, <3>1, <3>2, <3>3
    <3> QED BY <2>1, <2>2, <3>4 DEF Passes, MayManage
  <2>3. CASE /\ q.op = "setMember" /\ MemberUpdate(q.target) \notin held[s]
             /\ q.role = "admin" => role[q.actor] = "owner"
    BY <2>1, <2>3
  <2> QED BY <1>5, <2>2, <2>3 DEF TargetInv
<1>13. BaseInv(s, q)' BY <1>3, <1>5, <1>7, <1>9 DEF BaseInv, BaseLock
<1>14. GrantInv(s, q)'
  <2> SUFFICES ASSUME Passed(s, "grant") PROVE Passes(q, "grant")' BY <1>3 DEF GrantInv
  <2>1. role'[q.actor] = role[q.actor] /\ grant'[q.actor] = grant[q.actor] BY <1>2, <1>7, <1>8, <1>9, <1>10
  <2>2. Passes(q, "grant") BY <1>5 DEF GrantInv
  <2> QED BY <2>1, <2>2 DEF Passes, MayRead, MayEdit, Leads
<1>15. BindingInv(s, q)'
  <2> SUFFICES ASSUME Passed(s, "binding") PROVE Passes(q, "binding")' BY <1>3 DEF BindingInv
  <2>1. UNCHANGED <<bound, current>> BY <1>7, <1>9, <1>10
  <2>2. Passes(q, "binding") BY <1>5 DEF BindingInv
  <2> QED BY <2>1, <2>2 DEF Passes
<1>16. request'[s] = q BY <1>1
<1> QED BY <1>11, <1>12, <1>13, <1>14, <1>15, <1>16 DEF FactInv

\* The end of a request.
LEMMA ClosingSteps ==
  ASSUME SharingInv, NEW r \in Requests, CloseRequest(r), role' \in [Users -> Roles], grant' \in [Users -> Grants],
         bound' \subseteq Versions, GrantsOfMembers',
         \A u \in Users : role'[u] = role[u] \/ role[u] = None \/ MemberUpdate(u) \in held[r],
         ASSUME NEW s \in Requests \ {r}, Busy(s), request'[s] = request[s], place'[s] = place[s], held'[s] = held[s]
         PROVE  FactInv(s)'
  PROVE  SharingInv'
<1>1. /\ request \in [Requests -> Request \cup {Idle}] /\ place \in [Requests -> Nat \ {0}]
      /\ held \in [Requests -> SUBSET Lock] /\ \A s \in Requests : ~Busy(s) => place[s] = 1 /\ held[s] = {}
  BY DEF SharingInv, SharingTyped
<1>2. /\ request' \in [Requests -> Request \cup {Idle}] /\ request'[r] = Idle
      /\ place' \in [Requests -> Nat \ {0}] /\ place'[r] = 1
      /\ held' \in [Requests -> SUBSET Lock] /\ held'[r] = {}
      /\ \A s \in Requests \ {r} : request'[s] = request[s] /\ place'[s] = place[s] /\ held'[s] = held[s]
  BY <1>1 DEF CloseRequest
<1>3. \A s \in Requests : Busy(s)' => s # r /\ Busy(s) BY <1>2 DEF Busy
<1>4. SharingTyped' BY <1>1, <1>2 DEF SharingTyped, Busy
<1>5. ASSUME NEW s \in Requests, Busy(s)' PROVE FactInv(s)' BY <1>2, <1>3, <1>5
<1>6. ASSUME NEW s \in Requests, NEW t \in Requests, s # t, NEW l \in held'[s], NEW k \in held'[t]
      PROVE  ~Conflict(l, k)
  BY <1>2, <1>6 DEF SharingInv, LockInv
<1>7. ASSUME NEW s \in Requests, NEW u \in Users, MemberShare(u) \in held'[s] \/ MemberUpdate(u) \in held'[s]
      PROVE  role'[u] # None
  <2>1. s # r /\ (MemberShare(u) \in held[s] \/ MemberUpdate(u) \in held[s]) BY <1>2, <1>7
  <2>2. role[u] # None BY <2>1 DEF SharingInv, LockInv
  <2>3. MemberUpdate(u) \notin held[r] BY <2>1, LockRows DEF SharingInv, LockInv
  <2> QED BY <2>2, <2>3
<1>8. LockInv' BY <1>6, <1>7 DEF LockInv, Conflict, MemberShare, MemberUpdate
<1> QED BY <1>4, <1>5, <1>8 DEF SharingInv

\* A step that takes no lock and changes no row.
LEMMA QuietSteps ==
  ASSUME SharingInv, UNCHANGED <<rows, place, held>>, request' \in [Requests -> Request \cup {Idle}],
         \A s \in Requests : request'[s] = request[s] \/ request[s] = Idle
  PROVE  SharingInv'
<1>0. /\ role \in [Users -> Roles] /\ grant \in [Users -> Grants] /\ GrantsOfMembers /\ bound \subseteq Versions
      /\ place \in [Requests -> Nat \ {0}] /\ held \in [Requests -> SUBSET Lock]
      /\ \A s \in Requests : ~Busy(s) => place[s] = 1 /\ held[s] = {}
  BY DEF SharingInv, SharingTyped
<1>1. UNCHANGED <<role, grant, bound>> BY DEF rows
<1>2. SharingTyped' BY <1>0, <1>1 DEF SharingTyped, Busy
<1>3. LockInv' BY <1>1 DEF SharingInv, LockInv, Conflict, MemberShare, MemberUpdate
<1>4. GrantsOfMembers' BY <1>0, <1>1 DEF GrantsOfMembers
<1>5. ASSUME NEW s \in Requests, Busy(s)' PROVE FactInv(s)'
  <2>1. CASE request[s] = Idle
    <3>1. place'[s] = 1 BY <1>0, <2>1 DEF Busy
    <3>2. \A st : ~Passed(s, st)' BY <3>1 DEF Passed
    <3> QED BY <3>2 DEF FactInv, ActorInv, TargetInv, BaseInv, GrantInv, BindingInv
  <2>2. CASE request'[s] = request[s]
    <3>1. Busy(s) BY <1>5, <2>2 DEF Busy
    <3>2. FactInv(s) BY <3>1 DEF SharingInv
    <3> QED BY <2>2, <3>2, OthersStay
  <2> QED BY <2>1, <2>2
<1> QED BY <1>2, <1>3, <1>4, <1>5 DEF SharingInv

LEMMA SharingInductive ==
  ASSUME SharingInv, [Next]_vars
  PROVE  SharingInv'
<1>0. /\ role \in [Users -> Roles] /\ grant \in [Users -> Grants] /\ GrantsOfMembers /\ bound \subseteq Versions
      /\ request \in [Requests -> Request \cup {Idle}] /\ place \in [Requests -> Nat \ {0}]
      /\ \A s \in Requests : ~Busy(s) => place[s] = 1 /\ held[s] = {}
  BY DEF SharingInv, SharingTyped
<1>1. ASSUME NEW r \in Requests, ~Busy(r), NEW q \in Request, OpenRequest(r, q) PROVE SharingInv'
  <2>1. request[r] = Idle /\ request' = [request EXCEPT ![r] = q] /\ Runs(r, q, Head(Plan(q))) /\ UNCHANGED rows
    BY <1>1 DEF OpenRequest, Busy
  <2>2. place[r] = 1 BY <1>0, <2>1 DEF Busy
  <2>3. 1 \in 1..Len(Plan(q)) /\ Head(Plan(q)) = Plan(q)[1]
    <3>1. CASE Plan(q) = <<"actor", "target">> BY <3>1
    <3>2. CASE Plan(q) = <<"actor">> BY <3>2
    <3>3. CASE Plan(q) = <<"base", "actor">> BY <3>3
    <3>4. CASE Plan(q) = <<"base", "actor", "grantee">> BY <3>4
    <3>5. CASE Plan(q) = <<"base", "actor", "grant", "binding">> BY <3>5
    <3>6. CASE Plan(q) = <<"actor", "base", "grant", "binding">> BY <3>6
    <3> QED BY <3>1, <3>2, <3>3, <3>4, <3>5, <3>6, Plans
  <2> QED BY <2>1, <2>2, <2>3, StatementSteps
<1>2. ASSUME NEW r \in Requests, ~Busy(r), NEW u \in Users, NEW named \in SUBSET Versions, Ask(r, u, named)
      PROVE  SharingInv'
  <2> DEFINE used == IF named = {} THEN Scope(u) \cap {current} ELSE named
             q == [op |-> "answer", actor |-> u, versions |-> used]
  <2>1. request[r] = Idle /\ request' = [request EXCEPT ![r] = q] /\ UNCHANGED <<rows, place, held>>
    BY <1>2 DEF Ask, Busy
  <2>2. used \in SUBSET Versions BY <1>0 DEF Scope
  <2>3. q \in Request BY <2>2 DEF Request
  <2>4. /\ request' \in [Requests -> Request \cup {Idle}]
        /\ \A s \in Requests : request'[s] = request[s] \/ request[s] = Idle
    BY <1>0, <2>1, <2>3
  <2> QED BY <2>1, <2>4, QuietSteps
<1>3. ASSUME NEW r \in Requests, Execute(r) PROVE SharingInv'
  <2>1. Busy(r) /\ ~Ready(r) /\ Runs(r, request[r], Plan(request[r])[place[r]]) /\ UNCHANGED <<rows, request>>
    BY <1>3 DEF Execute
  <2>2. PICK q : q = request[r] OBVIOUS
  <2>3. q \in Request BY <1>0, <2>1, <2>2 DEF Busy
  <2>4. Len(Plan(q)) \in Nat BY <2>3, Plans
  <2>5. place[r] \in 1..Len(Plan(q)) BY <1>0, <2>1, <2>2, <2>4 DEF Ready
  <2> QED BY <2>1, <2>2, <2>3, <2>5, StatementSteps
<1>4. ASSUME NEW r \in Requests, Commit(r) PROVE SharingInv'
  <2>1. CloseRequest(r) BY <1>4 DEF Commit
  <2>2. /\ role' \in [Users -> Roles] /\ grant' \in [Users -> Grants] /\ GrantsOfMembers'
        /\ bound' \subseteq Versions
        /\ \A u \in Users : role'[u] = role[u] \/ role[u] = None \/ MemberUpdate(u) \in held[r]
    BY <1>4, CommitEffects
  <2>3. ASSUME NEW s \in Requests \ {r}, Busy(s), request'[s] = request[s], place'[s] = place[s], held'[s] = held[s]
        PROVE  FactInv(s)'
    BY <1>4, <2>3, OthersKeepFacts
  <2> QED BY <2>1, <2>2, <2>3, ClosingSteps
<1>5. ASSUME NEW r \in Requests, Abort(r) PROVE SharingInv'
  <2>1. CloseRequest(r) /\ UNCHANGED rows BY <1>5 DEF Abort
  <2>2. UNCHANGED <<role, grant, bound>> BY <2>1 DEF rows
  <2>3. GrantsOfMembers' BY <1>0, <2>2 DEF GrantsOfMembers
  <2>4. ASSUME NEW s \in Requests \ {r}, Busy(s), request'[s] = request[s], place'[s] = place[s], held'[s] = held[s]
        PROVE  FactInv(s)'
    <3>1. FactInv(s) BY <2>4 DEF SharingInv
    <3> QED BY <2>1, <2>4, <3>1, OthersStay
  <2> QED BY <1>0, <2>1, <2>2, <2>3, <2>4, ClosingSteps
<1>6. ASSUME UNCHANGED vars PROVE SharingInv'
  <2>1. UNCHANGED <<rows, request, place, held>> BY <1>6 DEF vars
  <2> QED BY <1>0, <2>1, QuietSteps
<1> QED BY <1>1, <1>2, <1>3, <1>4, <1>5, <1>6 DEF Next

LEMMA SharingInitial == Init => SharingInv
<1> SUFFICES ASSUME Init PROVE SharingInv OBVIOUS
<1>1. SharingTyped BY SharingAssumption DEF Init, SharingTyped, Roles, Grants, Busy
<1>2. LockInv BY DEF Init, LockInv
<1>3. GrantsOfMembers BY DEF Init, GrantsOfMembers
<1>4. \A r \in Requests : ~Busy(r) BY DEF Init, Busy
<1> QED BY <1>1, <1>2, <1>3, <1>4 DEF SharingInv

-----------------------------------------------------------------------------
(* The theorems.                                                           *)

\* The inductive invariant holds always.
THEOREM SharingInvariance == Spec => []SharingInv
<1>1. Init => SharingInv BY SharingInitial
<1>2. SharingInv /\ [Next]_vars => SharingInv' BY SharingInductive
<1> QED BY <1>1, <1>2, PTL DEF Spec

\* A change or an answer is committed only while its actor is entitled to it
\* (sharing.py:42, 47-58; chat.py:297).
THEOREM CommitsAreEntitled == Spec => []EntitledAtCommit
<1>1. ASSUME SharingInv PROVE EntitledAtCommit
  <2> SUFFICES ASSUME NEW r \in Requests, Ready(r), ~Collides(r) PROVE Entitled(request[r])
    BY DEF EntitledAtCommit
  <2>1. PICK q : q = request[r] OBVIOUS
  <2>2. q \in Request /\ place[r] \in Nat \ {0} /\ Busy(r) BY <1>1, <2>1 DEF Ready, Busy, SharingInv, SharingTyped
  <2>3. FactInv(r) BY <1>1, <2>2 DEF SharingInv
  <2>4. ActorInv(r, q) /\ TargetInv(r, q) /\ BaseInv(r, q) /\ GrantInv(r, q) /\ BindingInv(r, q)
    BY <2>1, <2>3 DEF FactInv
  <2>5. /\ Passed(r, "actor")
        /\ q.op \in {"setMember", "removeMember"} => Passed(r, "target")
        /\ q.op \in {"deleteBase", "setGrant", "publish", "unpublish", "answer"} => Passed(r, "base")
        /\ q.op \in {"publish", "unpublish", "answer"} => Passed(r, "grant") /\ Passed(r, "binding")
    BY <2>1, <2>2, AllPassed
  <2>6. Passes(q, "actor") BY <2>4, <2>5 DEF ActorInv
  <2>7. q.op \in {"setMember", "removeMember"} => MayManage(q)
    <3>1. CASE Passes(q, "target") BY <3>1 DEF Passes
    <3>2. CASE /\ q.op = "setMember" /\ MemberUpdate(q.target) \notin held[r]
               /\ q.role = "admin" => role[q.actor] = "owner"
      <4>1. role[q.target] = None BY <2>1, <3>2 DEF Collides, MemberUpdate
      <4> QED BY <3>2, <4>1, SharingAssumption DEF MayManage
    <3> QED BY <2>4, <2>5, <3>1, <3>2 DEF TargetInv
  <2>8. q.op \in {"publish", "unpublish", "answer"} => base = "open" /\ Passes(q, "grant") /\ Passes(q, "binding")
    BY <2>4, <2>5 DEF BaseInv, GrantInv, BindingInv
  <2>9. Entitled(q) BY <2>6, <2>7, <2>8 DEF Entitled, Passes
  <2> QED BY <2>1, <2>9
<1> QED BY <1>1, SharingInvariance, PTL

\* A publisher replaces the version it was shown (sharing.py:197).
THEOREM PublishersSawTheVersion == Spec => []ReplacesWhatWasSeen
<1>1. ASSUME SharingInv PROVE ReplacesWhatWasSeen
  <2> SUFFICES ASSUME NEW r \in Requests, Ready(r), request[r].op = "publish"
               PROVE  current = request[r].expected
    BY DEF ReplacesWhatWasSeen
  <2>1. request[r] \in Request /\ place[r] \in Nat \ {0} /\ Busy(r) BY <1>1 DEF Ready, Busy, SharingInv, SharingTyped
  <2>2. Passed(r, "binding") BY <2>1, AllPassed
  <2>3. BindingInv(r, request[r]) BY <1>1, <2>1 DEF SharingInv, FactInv
  <2>4. Passes(request[r], "binding") BY <2>2, <2>3 DEF BindingInv
  <2> QED BY <2>4 DEF Passes
<1> QED BY <1>1, SharingInvariance, PTL

\* Only members hold grants (sharing.py:107, 163).
THEOREM GrantsBelongToMembers == Spec => []GrantsOfMembers
<1>1. SharingInv => GrantsOfMembers BY DEF SharingInv
<1> QED BY <1>1, SharingInvariance, PTL
=============================================================================
