------------------------------ MODULE Capabilities ------------------------------
(***************************************************************************)
(* The capability catalogue (app/service/capabilities.py): HTTP tools,     *)
(* skills and runtime policies that administrators change, revision after  *)
(* revision, while Runs that froze an older revision call its tools and    *)
(* save their answers.                                                     *)
(*                                                                         *)
(* Administrators edit what they have looked at; a user approves tools of  *)
(* the list he was shown; a Run works with the catalogue it froze and asks *)
(* the current one, at every call and at its commit, whether it still may. *)
(***************************************************************************)
EXTENDS Naturals, Sequences

CONSTANTS
  Tools,         \* names of HTTP tools
  Skills,        \* names of skills
  Policies,      \* the runtime policies in use, of "sql", "web" and "sandbox"
  Declarations,  \* [Tools \cup Skills \cup Policies -> SUBSET Declaration]
  SqlDefault,    \* the SQL policy of the settings, used while there is none in the catalogue
  Admins,        \* administrators editing at once
  MaxRevision    \* bounds the changes of an instance

Names == Tools \cup Skills \cup Policies

ASSUME CapabilitiesAssumption ==
  /\ Policies \subseteq {"sql", "web", "sandbox"} /\ Tools \cap Skills = {}
  /\ \A n \in Names : \A d \in Declarations[n] : {d.enabled, d.approval} \subseteq BOOLEAN
  /\ MaxRevision \in Nat \ {0}

VARIABLES
  history,  \* Seq(Catalog): the retained versions, the last one is the row
  editor,   \* [Admins -> what an administrator has seen and is changing]
  admin,    \* the user of the Run has the role admin
  chat      \* the user's list of tools, and the Run made from it

capabilityVars == <<history, editor, admin, chat>>

\* scope: the tables of an SQL policy, the tools of a skill.
Absent == [version |-> 0, removed |-> FALSE]
RemovedItem == [version |-> 0, removed |-> TRUE]
Entry(n) == [version : 1..MaxRevision, declaration : Declarations[n]]
Registered(catalog, n) == n \in Names /\ catalog[n].version > 0
Declared(catalog, n) == catalog[n].declaration

row == history[Len(history)]

Asking == [step |-> "asking", shown |-> 0]
Looking == [step |-> "looking", seen |-> 0]

CapabilityInit ==
  /\ history = <<[n \in Names |-> Absent]>>
  /\ editor = [a \in Admins |-> Looking]
  /\ admin = TRUE
  /\ chat = Asking

-----------------------------------------------------------------------------
(* What a catalogue says.                                                  *)

\* A policy of the sandbox makes its tool; the others are there in any case.
Builtins(catalog) == {p \in Policies : p = "sandbox" => Registered(catalog, p)}

RequiresApproval(catalog, n) ==
  /\ Registered(catalog, n)
  /\ n = "sandbox" \/ (n \in Tools /\ Declared(catalog, n).approval)

SqlPolicy(catalog) == IF Registered(catalog, "sql") THEN Declared(catalog, "sql") ELSE SqlDefault

\* tool_reason is None.
ToolAvailable(catalog, role, n) ==
  CASE n = "sql" -> SqlPolicy(catalog).enabled
    [] n = "web" -> Registered(catalog, n) => Declared(catalog, n).enabled
    [] OTHER -> /\ Registered(catalog, n) /\ Declared(catalog, n).enabled
                /\ RequiresApproval(catalog, n) => role

SkillAvailable(catalog, role, s) ==
  /\ Registered(catalog, s) /\ Declared(catalog, s).enabled
  /\ \A n \in Declared(catalog, s).scope : ToolAvailable(catalog, role, n)

\* CapabilityCatalog.coherent.
Coherent(catalog) ==
  \A s \in Skills : Registered(catalog, s) =>
    \A n \in Declared(catalog, s).scope :
      /\ n \in Builtins(catalog) \/ Registered(catalog, n)
      /\ (Declared(catalog, s).enabled /\ n \in Tools) => Declared(catalog, n).enabled

-----------------------------------------------------------------------------
(* Administrators.                                                         *)

Look(a) ==
  /\ editor[a].step = "looking" /\ editor[a].seen # Len(history)
  /\ editor' = [editor EXCEPT ![a].seen = Len(history)]
  /\ UNCHANGED <<history, admin, chat>>

\* The row is locked FOR UPDATE by a change, FOR SHARE by a Run that saves.
RowFree == \A a \in Admins : editor[a].step # "changing"
Shared_Bug == FALSE
Shared == chat.step = "saving"

Reusable_Bug(entry) == TRUE
Reusable(entry) == entry # RemovedItem

\* The entry a change makes of the one there is.
Written(catalog, n, d) ==
  /\ n \in Policies \/ Reusable(catalog[n])
  /\ d \in Declarations[n]

\* change and update_runtime up to their checks: the row is read and locked.
Change(a, n, d) ==
  /\ editor[a].step = "looking" /\ editor[a].seen = Len(history) /\ Len(history) < MaxRevision
  /\ RowFree /\ ~Shared
  /\ Written(row, n, d)
  /\ LET new == [row EXCEPT ![n] = [version |-> @.version + 1, declaration |-> d]]
     IN Coherent(new) /\ editor' = [editor EXCEPT ![a] = [step |-> "changing", new |-> new]]
  /\ UNCHANGED <<history, admin, chat>>

Delete(a, n) ==
  /\ editor[a].step = "looking" /\ editor[a].seen = Len(history) /\ Len(history) < MaxRevision
  /\ RowFree /\ ~Shared
  /\ n \notin Policies /\ Registered(row, n)
  /\ \A s \in Skills : Registered(row, s) => n \notin Declared(row, s).scope
  /\ editor' = [editor EXCEPT ![a] = [step |-> "changing", new |-> [row EXCEPT ![n] = RemovedItem]]]
  /\ UNCHANGED <<history, admin, chat>>

Persist(a) ==
  /\ editor[a].step = "changing"
  /\ history' = Append(history, editor[a].new)
  /\ editor' = [editor EXCEPT ![a] = [step |-> "looking", seen |-> Len(history) + 1]]
  /\ UNCHANGED <<admin, chat>>

\* Roles change outside of this code, under the lock of the user's row.
Promote == ~admin /\ admin' = TRUE /\ UNCHANGED <<history, editor, chat>>
Demote == admin /\ ~Shared /\ admin' = FALSE /\ UNCHANGED <<history, editor, chat>>

-----------------------------------------------------------------------------
(* A Run.                                                                  *)

\* public_catalog.
Show ==
  /\ chat.step = "asking" /\ chat.shown # Len(history)
  /\ chat' = [chat EXCEPT !.shown = Len(history)]
  /\ UNCHANGED <<history, editor, admin>>

Confirmed_Bug(revision) == TRUE
Confirmed(revision) == revision = Len(history)

\* The tools a Run may use, of those its skill names.
Frozen(skill, approved) ==
  {n \in IF skill \in Skills THEN Declared(row, skill).scope ELSE Tools \cup Builtins(row) :
     ToolAvailable(row, admin, n) /\ (RequiresApproval(row, n) => n \in approved)}

\* freeze; it shares the transaction that creates the Run.
Freeze(skill, approved) ==
  /\ chat.step = "asking" /\ chat.shown > 0
  /\ approved # {} => /\ admin /\ Confirmed(chat.shown)
                      /\ \A n \in approved : RequiresApproval(row, n)
  /\ skill \in Skills =>
       /\ SkillAvailable(row, admin, skill)
       /\ \A n \in Declared(row, skill).scope : RequiresApproval(row, n) => n \in approved
  /\ approved \subseteq Frozen(skill, approved)
  /\ chat' = [step |-> "running", shown |-> chat.shown, revision |-> Len(history), catalog |-> row,
              skill |-> skill, allowed |-> Frozen(skill, approved), approved |-> approved, calls |-> {}]
  /\ UNCHANGED <<history, editor, admin>>

\* validate_execution: the current catalogue still allows what was frozen.
StillAllowed(run) ==
  /\ run.approved # {} => admin
  /\ history[run.revision] = run.catalog
  /\ run.skill \in Skills => \A c \in {run.catalog, row} : SkillAvailable(c, admin, run.skill)
  /\ "sql" \in run.allowed => /\ SqlPolicy(row).enabled
                              /\ SqlPolicy(run.catalog).scope \subseteq SqlPolicy(row).scope
  /\ \A n \in run.allowed : /\ ToolAvailable(row, admin, n)
                            /\ RequiresApproval(row, n) => n \in run.approved

\* Never the current catalogue instead of the one of the Run.
Used(run, n) == run.catalog[n]

\* A tool is called: its declaration is sent with the call.
Call(n) ==
  /\ chat.step = "running" /\ n \in chat.allowed /\ Registered(chat.catalog, n)
  /\ StillAllowed(chat) /\ ToolAvailable(chat.catalog, admin, n)
  /\ chat' = [chat EXCEPT !.calls = @ \cup {[tool |-> n, entry |-> Used(chat, n)]}]
  /\ UNCHANGED <<history, editor, admin>>

\* The transaction of the answer, or of files a tool made, locks what it checks.
ValidateApproval ==
  /\ chat.step = "running" /\ RowFree /\ StillAllowed(chat)
  /\ chat' = [chat EXCEPT !.step = "saving"]
  /\ UNCHANGED <<history, editor, admin>>

\* It is committed; or a check failed, or the transaction was rolled back.  The
\* user asks again.
Save == chat.step = "saving" /\ chat' = Asking /\ UNCHANGED <<history, editor, admin>>
Fail ==
  /\ chat.step \in {"running", "saving"} /\ chat' = Asking
  /\ UNCHANGED <<history, editor, admin>>

CapabilityNext ==
  \/ \E a \in Admins, n \in Names : (\E d \in Declarations[n] : Change(a, n, d)) \/ Delete(a, n)
  \/ \E a \in Admins : Look(a) \/ Persist(a)
  \/ \E skill \in Skills \cup {"none"}, approved \in SUBSET (Tools \cup {"sandbox"}) : Freeze(skill, approved)
  \/ \E n \in Names : Call(n)
  \/ Promote \/ Demote \/ Show \/ ValidateApproval \/ Save \/ Fail

-----------------------------------------------------------------------------
(* Properties                                                              *)

\* A name and a version mean one declaration, in whatever revision they are
\* found: receipts, artifacts and approvals name a tool by its version
\* (capabilities.py:146, 151).
VersionsIdentify ==
  \A i, j \in 1..Len(history), n \in Names :
    (Registered(history[i], n) /\ history[i][n].version = history[j][n].version)
      => history[i][n] = history[j][n]

\* A tool that needs approval is called with exactly the declaration that was on
\* the list when the user approved it, although administrators change both it
\* and the need for approval before the Run is made and while it works
\* (capabilities.py:224, 297).
ApprovedAsShown ==
  chat.step \in {"running", "saving"} =>
    \A c \in chat.calls :
      (c.tool = "sandbox" \/ (c.tool \in Tools /\ c.entry.declaration.approval))
        => c.tool \in chat.approved /\ c.entry = history[chat.shown][c.tool]

\* When an answer or a file is committed, the current catalogue still allows
\* everything the Run was allowed (capabilities.py:303-316).
AllowedAtCommit == chat.step = "saving" => StillAllowed(chat)
=============================================================================
