---------------------------- MODULE AccessControl ----------------------------
(***************************************************************************)
(* Groups, folder grants and the decisions made from them:                 *)
(* effective_permissions, require_permission, explain_effective_access,    *)
(* file_roots and the administration handlers of backend/app/main.py.      *)
(*                                                                         *)
(* A handler reads in several statements, each with its own snapshot, and  *)
(* writes in one transaction that holds the write lock of SQLite from its  *)
(* first statement.  So a request is a sequence of reads and one last      *)
(* write.  A handler whose write repeats every test of its reads (an       *)
(* UPDATE or DELETE of the row it loaded) is a single action: what it read *)
(* before has no effect.  Payloads are chosen where they are first used.   *)
(*                                                                         *)
(* Identifiers are random and not issued twice.  The model issues one      *)
(* again once no row and no request refers to it.                          *)
(*                                                                         *)
(* Left out: names and descriptions, and what depends on them only (a 409  *)
(* for a name in use changes nothing); the columns of a server but         *)
(* `enabled` (ServerRegistry has the others); changes of roles (Accounts   *)
(* has them); task definitions and tasks, deleted with their group or      *)
(* server by the same kind of foreign key.                                 *)
(***************************************************************************)
EXTENDS FiniteSets, Sequences, SequencesExt

CONSTANTS Users, Groups, Servers, Grants,  \* identifiers of the rows
          Role,      \* the role of each user
          Paths,     \* canonical paths, as sequences of names
          Reads,     \* LIST and DOWNLOAD
          Writes,    \* WRITE_PERMISSIONS
          Payloads,  \* sets of permissions that grants are given
          Requests   \* concurrent HTTP requests

ASSUME RoleAssumption == Role \in [Users -> {"ADMIN", "MANAGER", "USER", "AUDITOR"}]
ASSUME PayloadAssumption == {} \notin Payloads /\ Payloads \subseteq SUBSET (Reads \cup Writes)
ASSUME PathAssumption == \A p \in Paths : p \in Seq({p[i] : i \in DOMAIN p})

VARIABLES server,  \* each SftpServer row: not there, enabled or disabled
          group,   \* Group rows
          member,  \* GroupMember rows
          grant,   \* FolderGrant rows
          req      \* requests in flight

vars == <<server, group, member, grant, req>>
-----------------------------------------------------------------------------
Permissions == Reads \cup Writes
Types == {"USER", "GROUP"}
Ids == Users \cup Groups

\* The type and the identifier of a principal are two columns: a row can hold
\* the one of a group and the other of a user.
Row == [principal_type : Types, principal_id : Ids, server : Servers, path : Paths,
        permissions : Payloads, recursive : BOOLEAN]
NoGrant == [principal_id |-> "none"]

\* A request keeps what it has read: nothing yet, a row to be edited, a group to
\* be removed, or the groups of a user whose access is being decided.
Idle == [op |-> "idle"]
Creating == [op : {"create_grant"}, pc : {"server", "principal", "write"}, grant : Grants,
             server : Servers \cup {"none"},
             principal_type : Types \cup {"none"}, principal_id : Ids \cup {"none"}]
Updating == [op : {"update_grant"}, pc : {"server", "principal", "write"}, grant : Grants, loaded : Row,
             server : Servers \cup {"none"},
             principal_type : Types \cup {"none"}, principal_id : Ids \cup {"none"}]
Removing == [op : {"remove_group"}, pc : {"write"}, principal_id : Groups, grant : {"none"}, server : {"none"}]
Accessing == [op : {"access"}, pc : {"groups", "grants"}, user : Users, server : Servers, path : Paths,
              permission : Permissions, groups : SUBSET Groups, right : SUBSET BOOLEAN, raced : BOOLEAN]
Decided == [op : {"decided"}, answer : BOOLEAN, right : SUBSET BOOLEAN]

Granted == {g \in Grants : grant[g] # NoGrant}
ServerThere(s) == server[s] # "none"

\* Mutant: the principal is looked for in both tables.
PrincipalAnywhere(type, id) == id \in Users \cup group

PrincipalThere(type, id) == (type = "USER" /\ id \in Users) \/ (type = "GROUP" /\ id \in group)
Target(row) == <<row.principal_type, row.principal_id, row.server, row.path>>

TypeOK ==
  /\ server \in [Servers -> {"none", "enabled", "disabled"}]
  /\ group \subseteq Groups
  /\ member \subseteq Groups \X Users
  /\ grant \in [Grants -> Row \cup {NoGrant}]
  /\ \A g, h \in Granted : g # h => Target(grant[g]) # Target(grant[h])
  /\ req \in [Requests -> {Idle} \cup Creating \cup Updating \cup Removing \cup Accessing \cup Decided]

Init ==
  /\ server = [s \in Servers |-> "enabled"]
  /\ group = {}
  /\ member = {}
  /\ grant = [g \in Grants |-> NoGrant]
  /\ req = [r \in Requests |-> Idle]
-----------------------------------------------------------------------------
(* Decisions.  The operators take the rows they read, because a request    *)
(* reads memberships and grants at different moments.                      *)

GroupsOf(members, u) == {g \in Groups : <<g, u>> \in members}

\* The grants on server s of the user or of one of the groups.
Held(rows, u, groups, s) ==
  {row \in {rows[g] : g \in Grants} \ {NoGrant} :
     /\ row.server = s
     /\ \/ row.principal_type = "USER" /\ row.principal_id = u
        \/ row.principal_type = "GROUP" /\ row.principal_id \in groups}

\* `path == grant.path or recursive and below`
Applies(row, path) == row.path = path \/ (row.recursive /\ IsStrictPrefix(row.path, path))

\* What the role leaves of granted permissions: an auditor never writes.
Ceiling(u, permissions) == IF Role[u] = "AUDITOR" THEN permissions \ Writes ELSE permissions

PermissionsFrom(rows, u, groups, s, path) ==
  IF Role[u] = "ADMIN" THEN Permissions
  ELSE Ceiling(u, UNION {row.permissions : row \in {h \in Held(rows, u, groups, s) : Applies(h, path)}})

EffectivePermissions(rows, members, u, s, path) ==
  PermissionsFrom(rows, u, GroupsOf(members, u), s, path)

\* What require_permission would answer if it read everything at once.
Permitted(servers, rows, members, q) ==
  servers[q.server] = "enabled"
    /\ q.permission \in EffectivePermissions(rows, members, q.user, q.server, q.path)

\* explain_effective_access: the grants it names as sources.
Sources(u, s, path) == {h \in Held(grant, u, GroupsOf(member, u), s) : Applies(h, path)}

\* Mutant: the roots of an auditor show what the grants say.
RootPermissionsAsGranted(u, row) == row.permissions
RootPermissions(u, row) == Ceiling(u, row.permissions)

\* file_roots: an entry for each folder with a grant, its permissions merged.
Roots(u) ==
  LET enabled == {s \in Servers : server[s] = "enabled"}
      rows == UNION {Held(grant, u, GroupsOf(member, u), s) : s \in enabled}
  IN IF Role[u] = "ADMIN"
     THEN {[server |-> s, path |-> <<>>, permissions |-> Permissions] : s \in enabled}
     ELSE {[server |-> h.server, path |-> h.path,
            permissions |-> UNION {RootPermissions(u, k) :
                              k \in {k \in rows : k.server = h.server /\ k.path = h.path}}] : h \in rows}
-----------------------------------------------------------------------------
(* A commit.  Access checks in flight note whether the answer is another   *)
(* one now; after a second commit both answers are taken as right.         *)

Noting(reqs) ==
  [r \in Requests |->
     IF reqs[r].op # "access" THEN reqs[r]
     ELSE [reqs[r] EXCEPT
             !.right = IF reqs[r].raced THEN BOOLEAN
                       ELSE @ \cup {Permitted(server', grant', member', reqs[r])},
             !.raced = TRUE]]

Finish(r) == req' = Noting([req EXCEPT ![r] = Idle])
Refuse(r) == req' = [req EXCEPT ![r] = Idle] /\ UNCHANGED <<server, group, member, grant>>
Proceed(r, q) == req' = [req EXCEPT ![r] = q] /\ UNCHANGED <<server, group, member, grant>>
-----------------------------------------------------------------------------
(* Groups *)

Unreferenced(id) ==
  /\ \A a \in Granted : id \notin {a, grant[a].principal_id, grant[a].server}
  /\ \A r \in Requests :
       /\ req[r].op \in {"create_grant", "update_grant", "remove_group"} =>
            id \notin {req[r].grant, req[r].principal_id, req[r].server}
       /\ req[r].op = "update_grant" => id \notin {req[r].loaded.principal_id, req[r].loaded.server}

CreateGroup(r, g, us) ==
  /\ req[r] = Idle /\ g \notin group /\ Unreferenced(g)
  /\ group' = group \cup {g}
  /\ member' = member \cup ({g} \X us)
  /\ UNCHANGED <<server, grant>>
  /\ Finish(r)

\* The version is written in any case, which fails if the row is gone.
GroupStillThere(g) == g \in group

\* The members are replaced, not merged.
UpdateGroup(r, g, us) ==
  /\ req[r] = Idle /\ GroupStillThere(g)
  /\ member' = {m \in member : m[1] # g} \cup ({g} \X us)
  /\ UNCHANGED <<server, group, grant>>
  /\ Finish(r)

LoadGroup(r, g) ==
  /\ req[r] = Idle /\ g \in group
  /\ Proceed(r, [op |-> "remove_group", pc |-> "write", principal_id |-> g, grant |-> "none", server |-> "none"])

\* Grants of the group by query, memberships by cascade.  To delete a row that
\* is gone meanwhile is only a warning: the grants are deleted all the same.
RemoveGroup(r) ==
  /\ req[r].op = "remove_group"
  /\ LET g == req[r].principal_id
         theirs(row) == row # NoGrant /\ row.principal_type = "GROUP" /\ row.principal_id = g
     IN
       /\ group' = group \ {g}
       /\ member' = {m \in member : m[1] # g}
       /\ grant' = [a \in Grants |-> IF theirs(grant[a]) THEN NoGrant ELSE grant[a]]
  /\ UNCHANGED server
  /\ Finish(r)
-----------------------------------------------------------------------------
(* Servers *)

CreateServer(r, s) ==
  /\ req[r] = Idle /\ ~ServerThere(s) /\ Unreferenced(s)
  /\ server' = [server EXCEPT ![s] = "enabled"]
  /\ UNCHANGED <<group, member, grant>>
  /\ Finish(r)

\* The part of update_server about `enabled`.
SwitchServer(r, s) ==
  /\ req[r] = Idle /\ ServerThere(s)
  /\ server' = [server EXCEPT ![s] = IF @ = "enabled" THEN "disabled" ELSE "enabled"]
  /\ UNCHANGED <<group, member, grant>>
  /\ Finish(r)

DeleteServer(r, s) ==
  /\ req[r] = Idle /\ ServerThere(s)
  /\ server' = [server EXCEPT ![s] = "none"]
  /\ grant' = [a \in Grants |-> IF grant[a] # NoGrant /\ grant[a].server = s THEN NoGrant ELSE grant[a]]
  /\ UNCHANGED <<group, member>>
  /\ Finish(r)
-----------------------------------------------------------------------------
(* Grants *)

\* Mutant: the constraint has the column `recursive` in it.
TargetTakenAlike(a, row) ==
  \E h \in Granted \ {a} : Target(grant[h]) = Target(row) /\ grant[h].recursive = row.recursive

\* The unique constraint over the columns of the target.
TargetTaken(a, row) == \E h \in Granted \ {a} : Target(grant[h]) = Target(row)

\* Mutant: foreign keys are not enforced, the default of SQLite.
ServerKeyUnchecked(s) == s \in Servers

\* The foreign key of FolderGrant.server_id.  A principal has none.
ServerKey(s) == ServerThere(s)

StartCreate(r, a) ==
  /\ req[r] = Idle /\ a \notin Granted /\ Unreferenced(a)
  /\ Proceed(r, [op |-> "create_grant", pc |-> "server", grant |-> a,
                 server |-> "none", principal_type |-> "none", principal_id |-> "none"])

LoadGrant(r, a) ==
  /\ req[r] = Idle /\ a \in Granted
  /\ Proceed(r, [op |-> "update_grant", pc |-> "server", grant |-> a, loaded |-> grant[a],
                 server |-> "none", principal_type |-> "none", principal_id |-> "none"])

\* The payload names the principal and the server that were checked.
Checked(r, row) == /\ row.principal_type = req[r].principal_type
                   /\ row.principal_id = req[r].principal_id
                   /\ row.server = req[r].server

Editing(r, pc) == req[r].op \in {"create_grant", "update_grant"} /\ req[r].pc = pc

\* get_server ...
CheckServer(r, s) ==
  /\ Editing(r, "server")
  /\ IF server[s] = "enabled"
     THEN Proceed(r, [req[r] EXCEPT !.pc = "principal", !.server = s])
     ELSE Refuse(r)

\* ... then the principal ...
CheckPrincipal(r, type, id) ==
  /\ Editing(r, "principal")
  /\ IF PrincipalThere(type, id)
     THEN Proceed(r, [req[r] EXCEPT !.pc = "write", !.principal_type = type, !.principal_id = id])
     ELSE Refuse(r)

\* ... and the row, which is refused if a constraint of the table fails.
InsertGrant(r, row) ==
  /\ Editing(r, "write") /\ req[r].op = "create_grant"
  /\ Checked(r, row)
  /\ IF ServerKey(row.server) /\ ~TargetTaken(req[r].grant, row)
     THEN /\ grant' = [grant EXCEPT ![req[r].grant] = row]
          /\ UNCHANGED <<server, group, member>>
          /\ Finish(r)
     ELSE Refuse(r)

\* Only the columns that differ from the loaded row are written.  Two edits of a
\* grant to user u, to group g and to user v, leave the row (GROUP, v).
Merged(current, loaded, new) ==
  [c \in DOMAIN new |-> IF new[c] = loaded[c] THEN current[c] ELSE new[c]]

\* Mutant: the row is written whether it is still there or not.
RowWritten(a) == a \in Grants

\* The version is written in any case, which fails if the row is gone.
RowStillThere(a) == a \in Granted

WriteGrant(r, new) ==
  /\ Editing(r, "write") /\ req[r].op = "update_grant"
  /\ Checked(r, new)
  /\ LET a == req[r].grant
         row == IF a \in Granted THEN Merged(grant[a], req[r].loaded, new) ELSE new
     IN IF RowStillThere(a) /\ ServerKey(row.server) /\ ~TargetTaken(a, row)
        THEN /\ grant' = [grant EXCEPT ![a] = row]
             /\ UNCHANGED <<server, group, member>>
             /\ Finish(r)
        ELSE Refuse(r)

DeleteGrant(r, a) ==
  /\ req[r] = Idle /\ a \in Granted
  /\ grant' = [grant EXCEPT ![a] = NoGrant]
  /\ UNCHANGED <<server, group, member>>
  /\ Finish(r)
-----------------------------------------------------------------------------
(* A request for a file: get_server, then the memberships, then the grants. *)

StartAccess(r, u, s, path, permission) ==
  /\ req[r] = Idle /\ server[s] = "enabled"
  /\ LET q == [user |-> u, server |-> s, path |-> path, permission |-> permission]
     IN Proceed(r, [op |-> "access", pc |-> "groups", user |-> u, server |-> s, path |-> path,
                    permission |-> permission, groups |-> {},
                    right |-> {Permitted(server, grant, member, q)}, raced |-> FALSE])

ReadGroups(r) ==
  /\ req[r].op = "access" /\ req[r].pc = "groups"
  /\ Proceed(r, [req[r] EXCEPT !.groups = GroupsOf(member, req[r].user), !.pc = "grants"])

\* Mutant: the ceiling of the role is forgotten where a request is decided.
DecisionUncapped(q) ==
  \E row \in Held(grant, q.user, q.groups, q.server) : Applies(row, q.path) /\ q.permission \in row.permissions

Decision(q) == q.permission \in PermissionsFrom(grant, q.user, q.groups, q.server, q.path)

\* 403 or the file operation.
Decide(r) ==
  /\ req[r].op = "access" /\ req[r].pc = "grants"
  /\ Proceed(r, [op |-> "decided", answer |-> Decision(req[r]), right |-> req[r].right])

Answered(r) == req[r].op = "decided" /\ Refuse(r)
-----------------------------------------------------------------------------
Next ==
  \E r \in Requests :
    \/ \E g \in Groups : \/ \E us \in SUBSET Users : CreateGroup(r, g, us) \/ UpdateGroup(r, g, us)
                         \/ LoadGroup(r, g)
    \/ \E s \in Servers : \/ CreateServer(r, s) \/ SwitchServer(r, s) \/ DeleteServer(r, s)
                          \/ CheckServer(r, s)
                          \/ \E u \in Users, path \in Paths, permission \in Permissions :
                               StartAccess(r, u, s, path, permission)
    \/ \E a \in Grants : StartCreate(r, a) \/ LoadGrant(r, a) \/ DeleteGrant(r, a)
    \/ \E row \in Row : InsertGrant(r, row) \/ WriteGrant(r, row)
    \/ \E type \in Types, id \in Ids : CheckPrincipal(r, type, id)
    \/ RemoveGroup(r) \/ ReadGroups(r) \/ Decide(r) \/ Answered(r)

Spec == Init /\ [][Next]_vars
-----------------------------------------------------------------------------
(* Properties *)

\* A grant never outlives its server and a membership never outlives its group,
\* whatever was checked before the deletion.  A principal has no foreign key: a row
\* that names none, because its group is gone or because overlapping edits left the
\* type of one and the identifier of another, is a right of nobody.
NothingDangles ==
  /\ \A a \in Granted : ServerThere(grant[a].server)
  /\ \A m \in member : m[1] \in group
  /\ \A u \in Users, s \in Servers :
       \A row \in Held(grant, u, GroupsOf(member, u), s) : PrincipalThere(row.principal_type, row.principal_id)

\* The three places that compute rights agree: the sources of an explanation make
\* up the effective permissions, a root shows nothing that a request would be
\* refused there, and every permission lies at or below a root that shows it.
AccessAgrees ==
  \A u \in Users, s \in Servers : Role[u] # "ADMIN" /\ server[s] = "enabled" =>
    /\ \A p \in Paths :
         LET now == EffectivePermissions(grant, member, u, s, p)
         IN /\ now = Ceiling(u, UNION {row.permissions : row \in Sources(u, s, p)})
            /\ \A x \in now : \E root \in Roots(u) :
                 root.server = s /\ IsPrefix(root.path, p) /\ x \in root.permissions
    /\ \A root \in Roots(u) : root.server = s =>
         root.permissions \subseteq EffectivePermissions(grant, member, u, s, root.path)

\* Memberships and grants are read one after the other; still the answer to a
\* request was right at some moment while it ran, unless two administrators'
\* commits fell into that time.
DecisionsWereRight == \A r \in Requests : req[r].op = "decided" => req[r].answer \in req[r].right

\* A row appears in the table of grants only by the request that creates it: an
\* edit that loaded a grant before it was deleted does not bring it back.
DeletedStaysDeleted ==
  [][\A a \in Grants : a \notin Granted /\ a \in Granted' =>
       \E r \in Requests : req[r].op = "create_grant" /\ req'[r] = Idle]_vars

\* The two columns of a principal belong together, as they did in the payload that
\* was checked, except where an edit writes over another one that was committed
\* since it loaded the row (update_grant compares no version).
OfOneKind(row) == \/ row.principal_type = "USER" /\ row.principal_id \in Users
                  \/ row.principal_type = "GROUP" /\ row.principal_id \in Groups
MixedOnlyByOverlap ==
  [][\A a \in Grants : a \in Granted' =>
       \/ OfOneKind(grant'[a]) \/ grant'[a] = grant[a]
       \/ \E r \in Requests : /\ req[r].op = "update_grant" /\ req[r].grant = a
                              /\ req[r].loaded # grant[a] /\ req'[r] = Idle]_vars
=============================================================================
