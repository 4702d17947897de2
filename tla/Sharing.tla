-------------------------------- MODULE Sharing --------------------------------
(***************************************************************************)
(* A team: its members, its knowledge base, the grants and the versions    *)
(* of one document published in it (app/service/sharing.py, its queries,   *)
(* app/web/sharing.py), and the answers that are given from it             *)
(* (app/service/chat.py).                                                  *)
(*                                                                         *)
(* A request is one transaction: a plan of statements, each of which locks *)
(* the rows it reads and checks them, then the change and the commit.  The *)
(* statements of several requests interleave; a row that is locked in a    *)
(* conflicting mode makes the statement wait.  Locks are PostgreSQL's: a   *)
(* FOR SHARE of a member locks the row of the organisation it is joined    *)
(* with too, and a row that is not there cannot be locked.                 *)
(***************************************************************************)
EXTENDS Naturals, Sequences

CONSTANTS
  Users,
  Founder,   \* the user that created the organisation
  Author,    \* owns the document
  Versions,  \* ready versions of the document, one series
  None,      \* no version, no role
  Requests,  \* requests in progress at once
  Idle       \* a slot of Requests that is free

ASSUME SharingAssumption ==
  /\ {Founder, Author} \subseteq Users
  /\ None \notin Versions \cup Users \cup {"viewer", "editor", "owner", "admin", "member"}

VARIABLES
  role,      \* [Users -> Roles]: rag.organization_members
  archived,  \* the organisation
  base,      \* "none", "open" or "deleted": the row of rag.knowledge_bases
  grant,     \* [Users -> Grants]: rag.knowledge_grants
  bound,     \* SUBSET Versions: rag.knowledge_documents
  current,   \* the version whose binding is current
  request,   \* [Requests -> Request]
  place,     \* [Requests -> Nat]: the statement of its plan that is next
  held       \* [Requests -> SUBSET Lock]

rows == <<role, archived, base, grant, bound, current>>
vars == <<rows, request, place, held>>

Roles == {"owner", "admin", "member", None}
Grants == {"viewer", "editor", None}
Row == {"organization", "base"} \X {None} \cup {"member", "grant"} \X Users
Lock == [row : Row, mode : {"share", "update"}]

\* The operations of SharingService that change something, and an answer
\* given from the knowledge base.
Request ==
  [op : {"setMember"}, actor : Users, target : Users, role : {"admin", "member"}]
  \cup [op : {"removeMember"}, actor : Users, target : Users]
  \cup [op : {"archive", "createBase", "deleteBase"}, actor : Users]
  \cup [op : {"setGrant"}, actor : Users, target : Users, role : Grants]
  \cup [op : {"publish"}, actor : {Author}, version : Versions, expected : Versions \cup {None}]
  \cup [op : {"unpublish"}, actor : Users, version : Versions]
  \cup [op : {"answer"}, actor : Users, versions : SUBSET Versions]

ASSUME IdleAssumption == Idle \notin Request

TypeOK ==
  /\ role \in [Users -> Roles] /\ archived \in BOOLEAN /\ base \in {"none", "open", "deleted"}
  /\ grant \in [Users -> Grants] /\ bound \subseteq Versions /\ current \in bound \cup {None}
  /\ request \in [Requests -> Request \cup {Idle}] /\ place \in [Requests -> 1..5]
  /\ held \in [Requests -> SUBSET Lock]

\* create_organization.
Init ==
  /\ role = [u \in Users |-> IF u = Founder THEN "owner" ELSE None]
  /\ archived = FALSE /\ base = "none" /\ grant = [u \in Users |-> None]
  /\ bound = {} /\ current = None
  /\ request = [r \in Requests |-> Idle] /\ place = [r \in Requests |-> 1]
  /\ held = [r \in Requests |-> {}]

-----------------------------------------------------------------------------
(* The statements.                                                         *)

Leads(u) == role[u] \in {"owner", "admin"}

\* The statements of an operation, in the order of the code.
Plan(q) ==
  CASE q.op \in {"setMember", "removeMember"} -> <<"actor", "target">>
    [] q.op \in {"archive", "createBase"} -> <<"actor">>
    [] q.op = "deleteBase" -> <<"base", "actor">>
    [] q.op = "setGrant" -> <<"base", "actor", "grantee">>
    [] q.op \in {"publish", "unpublish"} -> <<"base", "actor", "grant", "binding">>
    [] q.op = "answer" -> <<"actor", "base", "grant", "binding">>

Alone_Bug(q) == FALSE   \* the library is locked FOR SHARE

\* access(exclusive=True): every operation but an answer changes the library.
Alone(q) == q.op # "answer"

Share_Bug(u) == {}   \* the member is read without a lock

\* workspace_member(lock=True).
Share(u) ==
  {[row |-> <<"member", u>>, mode |-> "share"], [row |-> <<"organization", None>>, mode |-> "share"]}

Locks(q, statement) ==
  CASE statement = "actor" -> Share(q.actor)
    [] statement = "target" -> {[row |-> <<"member", q.target>>, mode |-> "update"]}
    [] statement = "base" -> {[row |-> <<"base", None>>, mode |-> IF Alone(q) THEN "update" ELSE "share"]}
    [] statement = "grant" /\ ~Leads(q.actor) -> {[row |-> <<"grant", q.actor>>, mode |-> "share"]}
    [] OTHER -> {}

There(row) ==
  CASE row[1] = "member" -> role[row[2]] # None
    [] row[1] = "grant" -> grant[row[2]] # None
    [] OTHER -> TRUE

Conflict(l, k) == l.row = k.row /\ "update" \in {l.mode, k.mode}
Waits(r, locks) ==
  \E s \in Requests \ {r} : \E l \in locks, k \in held[s] : There(l.row) /\ Conflict(l, k)

\* Only the owner makes, changes or removes an administrator, nobody the owner.
MayManage(q) ==
  /\ role[q.target] # "owner"
  /\ (role[q.target] = "admin" \/ (q.op = "setMember" /\ q.role = "admin")) => role[q.actor] = "owner"

MayRead(u) == Leads(u) \/ grant[u] # None
MayEdit(u) == Leads(u) \/ grant[u] = "editor"

\* What the rows of a statement must say.
Passes(q, statement) ==
  CASE statement = "actor" ->
         /\ ~archived /\ role[q.actor] # None
         /\ q.op = "archive" => role[q.actor] = "owner"
         /\ q.op \notin {"archive", "publish", "unpublish", "answer"} => Leads(q.actor)
    [] statement = "target" -> MayManage(q) /\ (q.op = "removeMember" => role[q.target] # None)
    [] statement = "base" -> base = "open"
    [] statement = "grantee" -> role[q.target] # None
    [] statement = "grant" -> IF q.op = "answer" THEN MayRead(q.actor) ELSE MayEdit(q.actor)
    [] statement = "binding" ->
         CASE q.op = "publish" -> current = q.expected
           [] q.op = "unpublish" -> q.version \in bound
           [] q.op = "answer" -> q.versions \subseteq bound

-----------------------------------------------------------------------------
(* Requests.                                                               *)

Allowed(locks) == {l \in locks : There(l.row)}

\* A statement has the locks it asks for, and the rows say what they must.
Runs(r, q, statement) ==
  /\ Passes(q, statement) /\ ~Waits(r, Locks(q, statement))
  /\ held' = [held EXCEPT ![r] = @ \cup Allowed(Locks(q, statement))]
  /\ place' = [place EXCEPT ![r] = @ + 1]

\* A request with its first statement; refused there, it changes nothing.
OpenRequest(r, q) ==
  /\ q.op # "answer"
  /\ q.op = "createBase" => base = "none" /\ \A s \in Requests : request[s] # Idle => request[s].op # "createBase"
  /\ Runs(r, q, Head(Plan(q)))
  /\ request' = [request EXCEPT ![r] = q]
  /\ UNCHANGED rows

\* scope: what is there for a question, read without locks when it is asked.
Scope(u) == IF ~archived /\ role[u] # None /\ base = "open" /\ MayRead(u) THEN bound ELSE {}

\* What the retrieval and the model work on: the documents the question names, of
\* whatever version, or the current version when it names none.  The transaction
\* that saves the answer is later, and names the same versions.
Ask(r, u, named) ==
  LET versions == IF named = {} THEN Scope(u) \cap {current} ELSE named
  IN /\ named \subseteq Scope(u) /\ versions # {}
     /\ request' = [request EXCEPT ![r] = [op |-> "answer", actor |-> u, versions |-> versions]]
     /\ UNCHANGED <<rows, place, held>>

CloseRequest(r) ==
  /\ request' = [request EXCEPT ![r] = Idle] /\ place' = [place EXCEPT ![r] = 1]
  /\ held' = [held EXCEPT ![r] = {}]

Busy(r) == request[r] # Idle
Ready(r) == Busy(r) /\ place[r] > Len(Plan(request[r]))

Execute(r) ==
  /\ Busy(r) /\ ~Ready(r)
  /\ Runs(r, request[r], Plan(request[r])[place[r]])
  /\ UNCHANGED <<rows, request>>

\* A statement is refused; the victim of a deadlock, a lost connection, a crash:
\* all is rolled back.
Abort(r) == Busy(r) /\ CloseRequest(r) /\ UNCHANGED rows

Cascade_Bug(target) == grant   \* without ON DELETE CASCADE

\* The grants of a member go with it.
Cascade(target) == [grant EXCEPT ![target] = None]

\* Another request has added the member that is to be inserted.
Collides(r) ==
  LET q == request[r]
  IN /\ q.op = "setMember" /\ role[q.target] # None
     /\ [row |-> <<"member", q.target>>, mode |-> "update"] \notin held[r]

CommitMembers(r, q) ==
  \/ /\ q.op = "setMember" /\ ~Collides(r)
     /\ role' = [role EXCEPT ![q.target] = q.role] /\ UNCHANGED <<archived, base, grant, bound, current>>
  \/ /\ q.op = "removeMember"
     /\ role' = [role EXCEPT ![q.target] = None] /\ grant' = Cascade(q.target)
     /\ UNCHANGED <<archived, base, bound, current>>
  \/ /\ q.op = "archive" /\ ~Waits(r, {[row |-> <<"organization", None>>, mode |-> "update"]})
     /\ archived' = TRUE /\ UNCHANGED <<role, base, grant, bound, current>>

\* The foreign key of a grant: its member is there, and not being removed.
CommitBase(r, q) ==
  \/ q.op = "createBase" /\ base' = "open" /\ UNCHANGED <<role, archived, grant, bound, current>>
  \/ /\ q.op = "deleteBase" /\ base' = "deleted"
     /\ grant' = [u \in Users |-> None] /\ bound' = {} /\ current' = None
     /\ UNCHANGED <<role, archived>>
  \/ /\ q.op = "setGrant" /\ role[q.target] # None
     /\ \A s \in Requests \ {r} : [row |-> <<"member", q.target>>, mode |-> "update"] \notin held[s]
     /\ grant' = [grant EXCEPT ![q.target] = q.role] /\ UNCHANGED <<role, archived, base, bound, current>>

\* clear_current_bindings, then the binding of the version.
CommitBinding(q) ==
  \/ /\ q.op = "publish" /\ bound' = bound \cup {q.version} /\ current' = q.version
     /\ UNCHANGED <<role, archived, base, grant>>
  \/ /\ q.op = "unpublish" /\ bound' = bound \ {q.version}
     /\ current' = IF current = q.version THEN None ELSE current
     /\ UNCHANGED <<role, archived, base, grant>>

\* An answer is saved in the transaction that locked its scope.
Commit(r) ==
  /\ Ready(r) /\ CloseRequest(r)
  /\ \/ CommitMembers(r, request[r]) \/ CommitBase(r, request[r]) \/ CommitBinding(request[r])
     \/ request[r].op = "answer" /\ UNCHANGED rows

Next ==
  \E r \in Requests :
    \/ /\ ~Busy(r)
       /\ \/ \E q \in Request : OpenRequest(r, q)
          \/ \E u \in Users, named \in SUBSET Versions : Ask(r, u, named)
    \/ Execute(r) \/ Commit(r) \/ Abort(r)

Spec == Init /\ [][Next]_vars

-----------------------------------------------------------------------------
(* Properties                                                              *)

\* What entitles a request to its effect.
Entitled(q) ==
  /\ ~archived /\ role[q.actor] # None
  /\ q.op \in {"setMember", "removeMember", "createBase", "deleteBase", "setGrant"} => Leads(q.actor)
  /\ q.op \in {"setMember", "removeMember"} => MayManage(q)
  /\ q.op = "archive" => role[q.actor] = "owner"
  /\ q.op \in {"publish", "unpublish"} => base = "open" /\ MayEdit(q.actor)
  /\ q.op = "answer" => base = "open" /\ MayRead(q.actor) /\ q.versions \subseteq bound

\* Who was entitled when asked is still entitled when the change or the answer
\* is committed, whatever was demoted, removed, revoked, unpublished or
\* archived in between (sharing.py:42, 47-58; chat.py:297).
EntitledAtCommit == \A r \in Requests : Ready(r) /\ ~Collides(r) => Entitled(request[r])

\* A publisher replaces the version it was shown, never one that another
\* publisher has put there meanwhile (sharing.py:197).
ReplacesWhatWasSeen ==
  \A r \in Requests : Ready(r) /\ request[r].op = "publish" => current = request[r].expected

\* Only members hold grants: who is removed and added again starts with none,
\* and no grant is given to someone who is being removed (sharing.py:107, 163).
GrantsOfMembers == \A u \in Users : grant[u] # None => role[u] # None
=============================================================================
