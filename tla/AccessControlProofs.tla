------------------------- MODULE AccessControlProofs -------------------------
(***************************************************************************)
(* For any sets of users, groups, servers, paths, permissions and requests *)
(* of AccessControl: its types; that no grant or membership refers to a    *)
(* row that is gone; that an edit never brings a grant back; that the      *)
(* three places that compute rights agree; and that the answer to a        *)
(* request was right at some moment while it ran.                          *)
(*                                                                         *)
(* What a request checked earlier plays no part in the first of these: the *)
(* rows stay consistent because the last write repeats the foreign key and *)
(* the unique constraint, and because a deletion takes the dependent rows  *)
(* with it in one transaction.  The last one rests on these deletions too: *)
(* a request that has read its groups before a commit and reads its grants *)
(* after it would else be given what neither the rows before the commit    *)
(* nor those after it give.                                                *)
(***************************************************************************)
EXTENDS AccessControl, TLAPS

InFlight == {Idle} \cup Creating \cup Updating \cup Removing \cup Accessing \cup Decided

GrantType ==
  /\ grant \in [Grants -> Row \cup {NoGrant}]
  /\ \A g, h \in Granted : g # h => Target(grant[g]) # Target(grant[h])

ServerType == server \in [Servers -> {"none", "enabled", "disabled"}]
GroupType == group \subseteq Groups /\ member \subseteq Groups \X Users
ReqType == req \in [Requests -> InFlight]

\* The parts of the type invariant.
LEMMA Parts == TypeOK <=> ServerType /\ GroupType /\ GrantType /\ ReqType
  BY DEF TypeOK, ServerType, GroupType, GrantType, ReqType, InFlight

\* The foreign keys, which the write of a request repeats.
ServersThere == \A a \in Granted : ServerThere(grant[a].server)
GroupsThere == \A m \in member : m[1] \in group

IInv == TypeOK /\ ServersThere /\ GroupsThere
-----------------------------------------------------------------------------
(* Facts about the operators. *)

\* A merged row is a row, although its principal may be made of two.
LEMMA MergedType ==
  ASSUME NEW current \in Row, NEW loaded \in Row, NEW new \in Row
  PROVE  Merged(current, loaded, new) \in Row
  <1> DEFINE cols == {"principal_type", "principal_id", "server", "path", "permissions", "recursive"}
             m == Merged(current, loaded, new)
  <1>1. m = [c \in cols |-> IF new[c] = loaded[c] THEN current[c] ELSE new[c]]
    BY DEF Merged, Row
  <1>2. \A c \in cols : m[c] \in {current[c], new[c]}
    BY <1>1
  <1>3. /\ m.principal_type \in Types /\ m.principal_id \in Ids /\ m.server \in Servers /\ m.path \in Paths
        /\ m.permissions \in Payloads /\ m.recursive \in BOOLEAN
    BY <1>2 DEF Row
  <1>4. m = [principal_type |-> m.principal_type, principal_id |-> m.principal_id,
             server |-> m.server, path |-> m.path, permissions |-> m.permissions, recursive |-> m.recursive]
    BY <1>1
  <1> QED BY <1>3, <1>4 DEF Row

\* An entry that is no grant is told from every row by its columns.
LEMMA NoGrantNoRow == NoGrant \notin Row
  <1>1. \A row \in Row : DOMAIN row = {"principal_type", "principal_id", "server", "path", "permissions", "recursive"}
    BY DEF Row
  <1>2. DOMAIN NoGrant = {"principal_id"}
    BY DEF NoGrant
  <1> QED BY <1>1, <1>2

\* The kind of a request in flight is known from its operation.
LEMMA Kinds ==
  ASSUME NEW q \in InFlight
  PROVE  /\ q.op = "create_grant" => q \in Creating
         /\ q.op = "update_grant" => q \in Updating
         /\ q.op = "remove_group" => q \in Removing
         /\ q.op = "access" => q \in Accessing
  BY DEF InFlight, Idle, Creating, Updating, Removing, Accessing, Decided

\* To note a commit keeps the types of the requests.
LEMMA NotingType ==
  ASSUME NEW reqs \in [Requests -> InFlight]
  PROVE  Noting(reqs) \in [Requests -> InFlight]
  <1> SUFFICES ASSUME NEW r \in Requests PROVE Noting(reqs)[r] \in InFlight
    BY DEF Noting
  <1>1. CASE reqs[r].op # "access"
    BY <1>1 DEF Noting
  <1>2. CASE reqs[r].op = "access"
    <2> DEFINE now == Permitted(server', grant', member', reqs[r])
               right == IF reqs[r].raced THEN BOOLEAN ELSE reqs[r].right \cup {now}
    <2>1. reqs[r] \in Accessing
      BY <1>2, Kinds
    <2>2. now \in BOOLEAN
      BY DEF Permitted
    <2>3. right \in SUBSET BOOLEAN
      BY <2>1, <2>2 DEF Accessing
    <2>4. Noting(reqs)[r] = [reqs[r] EXCEPT !.right = right, !.raced = TRUE]
      BY <1>2 DEF Noting
    <2> HIDE DEF right
    <2>5. Noting(reqs)[r] \in Accessing
      BY <2>1, <2>3, <2>4 DEF Accessing
    <2> QED BY <2>5 DEF InFlight
  <1> QED BY <1>1, <1>2

\* A request that ends is a request of the right type.
LEMMA FinishType ==
  ASSUME ReqType, NEW r \in Requests, Finish(r)
  PROVE  ReqType'
  <1>1. [req EXCEPT ![r] = Idle] \in [Requests -> InFlight]
    BY DEF ReqType, InFlight
  <1> QED BY <1>1, NotingType DEF Finish, ReqType

\* A step that only moves its own request breaks nothing.
LEMMA ProceedKeeps ==
  ASSUME IInv, NEW r \in Requests, NEW q \in InFlight, Proceed(r, q)
  PROVE  IInv'
  <1>1. ReqType'
    BY Parts DEF Proceed, ReqType, IInv
  <1>2. UNCHANGED <<server, group, member, grant>>
    BY DEF Proceed
  <1> QED BY <1>1, <1>2 DEF IInv, TypeOK, ReqType, InFlight, ServersThere, GroupsThere, Granted, ServerThere

\* A refused request changes nothing.
LEMMA RefuseKeeps ==
  ASSUME IInv, NEW r \in Requests, Refuse(r)
  PROVE  IInv'
  BY ProceedKeeps DEF Refuse, Proceed, InFlight
-----------------------------------------------------------------------------
(* The writes.  Grants that stay keep their rows, so a deletion keeps the  *)
(* type of the table, and a write of one row keeps it if no other row has  *)
(* its target.                                                             *)

\* Grants are deleted: the others stay what they were.
LEMMA GrantsTaken ==
  ASSUME GrantType, NEW S \in SUBSET Grants,
         grant' = [a \in Grants |-> IF a \in S THEN NoGrant ELSE grant[a]]
  PROVE  GrantType' /\ Granted' = Granted \ S /\ \A a \in Granted' : grant'[a] = grant[a]
  <1>1. grant' \in [Grants -> Row \cup {NoGrant}]
    BY DEF GrantType
  <1>2. Granted' = Granted \ S
    BY DEF Granted
  <1>3. \A a \in Granted' : grant'[a] = grant[a]
    BY <1>2 DEF Granted
  <1> QED BY <1>1, <1>2, <1>3 DEF GrantType

\* A grant is written whose target no other grant has.
LEMMA GrantWritten ==
  ASSUME GrantType, NEW a \in Grants, NEW row \in Row, ~TargetTaken(a, row),
         grant' = [grant EXCEPT ![a] = row]
  PROVE  GrantType' /\ Granted' = Granted \cup {a}
  <1>1. grant' \in [Grants -> Row \cup {NoGrant}]
    BY DEF GrantType
  <1>2. \A h \in Grants : grant'[h] = IF h = a THEN row ELSE grant[h]
    BY DEF GrantType
  <1>3. Granted' = Granted \cup {a}
    BY <1>2, NoGrantNoRow DEF Granted
  <1>4. ASSUME NEW g \in Granted', NEW h \in Granted', g # h
        PROVE  Target(grant'[g]) # Target(grant'[h])
    <2>1. g \in Grants /\ h \in Grants
      BY DEF Granted
    <2>2. CASE g # a /\ h # a
      BY <1>2, <1>3, <2>1, <2>2, <1>4 DEF GrantType
    <2>3. CASE g = a
      BY <1>2, <1>3, <1>4, <2>1, <2>3 DEF TargetTaken
    <2>4. CASE h = a
      BY <1>2, <1>3, <1>4, <2>1, <2>4 DEF TargetTaken
    <2> QED BY <2>2, <2>3, <2>4
  <1> QED BY <1>1, <1>3, <1>4 DEF GrantType

\* The members of a new group are members of a group that is there.
LEMMA CreateGroupKeeps ==
  ASSUME IInv, NEW r \in Requests, NEW g \in Groups, NEW us \in SUBSET Users, CreateGroup(r, g, us)
  PROVE  IInv'
  <1>1. ReqType'
    BY FinishType, Parts DEF CreateGroup, IInv
  <1>2. GroupType' /\ GroupsThere'
    BY Parts DEF CreateGroup, IInv, GroupType, GroupsThere
  <1>3. ServerType' /\ GrantType' /\ ServersThere'
    BY Parts DEF CreateGroup, IInv, ServerType, GrantType, ServersThere, Granted, ServerThere
  <1> QED BY <1>1, <1>2, <1>3, Parts DEF IInv, TypeOK, ServerType, GroupType, GrantType, ReqType, InFlight

\* An update replaces the members of a group that is still there (GroupStillThere).
LEMMA UpdateGroupKeeps ==
  ASSUME IInv, NEW r \in Requests, NEW g \in Groups, NEW us \in SUBSET Users, UpdateGroup(r, g, us)
  PROVE  IInv'
  <1>1. ReqType'
    BY FinishType, Parts DEF UpdateGroup, IInv
  <1>2. GroupType' /\ GroupsThere'
    BY Parts DEF UpdateGroup, IInv, GroupType, GroupsThere, GroupStillThere
  <1>3. ServerType' /\ GrantType' /\ ServersThere'
    BY Parts DEF UpdateGroup, IInv, ServerType, GrantType, ServersThere, Granted, ServerThere
  <1> QED BY <1>1, <1>2, <1>3 DEF IInv, TypeOK, ServerType, GroupType, GrantType, ReqType, InFlight

\* A group goes with its memberships and its grants.
LEMMA RemoveGroupKeeps ==
  ASSUME IInv, NEW r \in Requests, RemoveGroup(r)
  PROVE  IInv'
  <1> DEFINE g == req[r].principal_id
             S == {a \in Grants : /\ grant[a] # NoGrant
                                  /\ grant[a].principal_type = "GROUP"
                                  /\ grant[a].principal_id = g}
  <1>1. ReqType'
    BY FinishType, Parts DEF RemoveGroup, IInv
  <1>2. GroupType' /\ GroupsThere'
    BY Parts DEF RemoveGroup, IInv, GroupType, GroupsThere
  <1>3. grant' = [a \in Grants |-> IF a \in S THEN NoGrant ELSE grant[a]]
    BY DEF RemoveGroup
  <1>4. S \in SUBSET Grants
    OBVIOUS
  <1> HIDE DEF S
  <1>5. GrantType' /\ Granted' = Granted \ S /\ \A a \in Granted' : grant'[a] = grant[a]
    BY <1>3, <1>4, GrantsTaken, Parts DEF IInv
  <1>6. ServerType' /\ ServersThere'
    BY <1>5, Parts DEF RemoveGroup, IInv, ServerType, ServersThere, ServerThere
  <1> QED BY <1>1, <1>2, <1>5, <1>6 DEF IInv, TypeOK, ServerType, GroupType, GrantType, ReqType, InFlight

\* Nothing refers to a server that is new.
LEMMA CreateServerKeeps ==
  ASSUME IInv, NEW r \in Requests, NEW s \in Servers, CreateServer(r, s)
  PROVE  IInv'
  <1>1. ReqType'
    BY FinishType, Parts DEF CreateServer, IInv
  <1>2. ServerType' /\ GroupType' /\ GroupsThere' /\ GrantType'
    BY Parts DEF CreateServer, IInv, ServerType, GroupType, GroupsThere, GrantType, Granted
  <1>3. ServersThere'
    BY Parts DEF CreateServer, IInv, ServerType, ServersThere, Granted, ServerThere
  <1> QED BY <1>1, <1>2, <1>3 DEF IInv, TypeOK, ServerType, GroupType, GrantType, ReqType, InFlight

\* Switching a server on or off deletes nothing.
LEMMA SwitchServerKeeps ==
  ASSUME IInv, NEW r \in Requests, NEW s \in Servers, SwitchServer(r, s)
  PROVE  IInv'
  <1>1. ReqType'
    BY FinishType, Parts DEF SwitchServer, IInv
  <1>2. ServerType' /\ GroupType' /\ GroupsThere' /\ GrantType'
    BY Parts DEF SwitchServer, IInv, ServerType, GroupType, GroupsThere, GrantType, Granted
  <1>3. ServersThere'
    BY Parts DEF SwitchServer, IInv, ServerType, ServersThere, Granted, ServerThere
  <1> QED BY <1>1, <1>2, <1>3 DEF IInv, TypeOK, ServerType, GroupType, GrantType, ReqType, InFlight

\* A server goes with the grants on it (the foreign key cascades).
LEMMA DeleteServerKeeps ==
  ASSUME IInv, NEW r \in Requests, NEW s \in Servers, DeleteServer(r, s)
  PROVE  IInv'
  <1> DEFINE S == {a \in Grants : grant[a] # NoGrant /\ grant[a].server = s}
  <1>1. ReqType'
    BY FinishType, Parts DEF DeleteServer, IInv
  <1>2. ServerType' /\ GroupType' /\ GroupsThere'
    BY Parts DEF DeleteServer, IInv, ServerType, GroupType, GroupsThere
  <1>3. grant' = [a \in Grants |-> IF a \in S THEN NoGrant ELSE grant[a]]
    BY DEF DeleteServer
  <1>4. S \in SUBSET Grants /\ \A a \in Granted \ S : grant[a].server # s
    BY DEF Granted
  <1> HIDE DEF S
  <1>5. GrantType' /\ Granted' = Granted \ S /\ \A a \in Granted' : grant'[a] = grant[a]
    BY <1>3, <1>4, GrantsTaken, Parts DEF IInv
  <1>6. \A a \in Granted : grant[a].server \in Servers
    BY Parts DEF IInv, GrantType, Granted, Row
  <1>7. ServersThere'
    BY <1>4, <1>5, <1>6, Parts DEF DeleteServer, IInv, ServerType, ServersThere, ServerThere
  <1> QED BY <1>1, <1>2, <1>5, <1>7 DEF IInv, TypeOK, ServerType, GroupType, GrantType, ReqType, InFlight

\* Nothing refers to a grant.
LEMMA DeleteGrantKeeps ==
  ASSUME IInv, NEW r \in Requests, NEW a \in Grants, DeleteGrant(r, a)
  PROVE  IInv'
  <1>1. ReqType'
    BY FinishType, Parts DEF DeleteGrant, IInv
  <1>2. ServerType' /\ GroupType' /\ GroupsThere'
    BY Parts DEF DeleteGrant, IInv, ServerType, GroupType, GroupsThere
  <1>3. grant' = [h \in Grants |-> IF h \in {a} THEN NoGrant ELSE grant[h]]
    BY Parts DEF DeleteGrant, IInv, GrantType
  <1>4. GrantType' /\ Granted' = Granted \ {a} /\ \A h \in Granted' : grant'[h] = grant[h]
    BY <1>3, GrantsTaken, Parts DEF IInv
  <1>5. ServersThere'
    BY <1>4 DEF DeleteGrant, IInv, ServersThere, ServerThere
  <1> QED BY <1>1, <1>2, <1>4, <1>5 DEF IInv, TypeOK, ServerType, GroupType, GrantType, ReqType, InFlight

\* One row written, the server of which is there.
LEMMA OneRowKeeps ==
  ASSUME IInv, NEW r \in Requests, NEW a \in Grants, NEW row \in Row,
         ServerKey(row.server), ~TargetTaken(a, row),
         grant' = [grant EXCEPT ![a] = row], UNCHANGED <<server, group, member>>, Finish(r)
  PROVE  IInv'
  <1>1. ReqType'
    BY FinishType, Parts DEF IInv
  <1>2. ServerType' /\ GroupType' /\ GroupsThere'
    BY Parts DEF IInv, ServerType, GroupType, GroupsThere
  <1>3. GrantType' /\ Granted' = Granted \cup {a}
    BY GrantWritten, Parts DEF IInv
  <1>4. \A h \in Grants : grant'[h] = IF h = a THEN row ELSE grant[h]
    BY Parts DEF IInv, GrantType
  <1>5. ServersThere'
    BY <1>3, <1>4 DEF IInv, ServersThere, ServerThere, ServerKey, Granted
  <1> QED BY <1>1, <1>2, <1>3, <1>5 DEF IInv, TypeOK, ServerType, GroupType, GrantType, ReqType, InFlight

\* A grant is inserted on a server that is there: ServerKey is tested at the write.
LEMMA InsertGrantKeeps ==
  ASSUME IInv, NEW r \in Requests, NEW row \in Row, InsertGrant(r, row)
  PROVE  IInv'
  <1>1. req[r].grant \in Grants
    BY Parts, Kinds DEF InsertGrant, Editing, IInv, ReqType, Creating
  <1>2. CASE ServerKey(row.server) /\ ~TargetTaken(req[r].grant, row)
    BY <1>1, <1>2, OneRowKeeps DEF InsertGrant
  <1>3. CASE ~(ServerKey(row.server) /\ ~TargetTaken(req[r].grant, row))
    BY <1>3, RefuseKeeps DEF InsertGrant
  <1> QED BY <1>2, <1>3

\* A grant that has gone is not written again (RowStillThere).
LEMMA WriteGrantKeeps ==
  ASSUME IInv, NEW r \in Requests, NEW new \in Row, WriteGrant(r, new)
  PROVE  IInv'
  <1> DEFINE a == req[r].grant
             row == IF a \in Granted THEN Merged(grant[a], req[r].loaded, new) ELSE new
             allowed == RowStillThere(a) /\ ServerKey(row.server) /\ ~TargetTaken(a, row)
  <1>1. a \in Grants /\ req[r].loaded \in Row
    BY Parts, Kinds DEF WriteGrant, Editing, IInv, ReqType, Updating
  <1>2. a \in Granted => grant[a] \in Row
    BY <1>1, Parts DEF IInv, GrantType, Granted
  <1>3. row \in Row
    BY <1>1, <1>2, MergedType
  <1>4. CASE allowed
    <2>1. /\ grant' = [grant EXCEPT ![a] = row]
          /\ UNCHANGED <<server, group, member>> /\ Finish(r)
      BY <1>4 DEF WriteGrant
    <2> HIDE DEF row
    <2> QED BY <1>1, <1>3, <1>4, <2>1, OneRowKeeps
  <1>5. CASE ~allowed
    <2>1. Refuse(r)
      BY <1>5 DEF WriteGrant
    <2> QED BY <2>1, RefuseKeeps
  <1> QED BY <1>4, <1>5
-----------------------------------------------------------------------------
(* The reads. *)

\* A read moves only its request.
LEMMA LoadGroupKeeps ==
  ASSUME IInv, NEW r \in Requests, NEW g \in Groups, LoadGroup(r, g)
  PROVE  IInv'
  BY ProceedKeeps DEF LoadGroup, InFlight, Removing

\* A read moves only its request.
LEMMA StartCreateKeeps ==
  ASSUME IInv, NEW r \in Requests, NEW a \in Grants, StartCreate(r, a)
  PROVE  IInv'
  BY ProceedKeeps DEF StartCreate, InFlight, Creating

\* A read moves only its request, and the row it has loaded has the type of a row.
LEMMA LoadGrantKeeps ==
  ASSUME IInv, NEW r \in Requests, NEW a \in Grants, LoadGrant(r, a)
  PROVE  IInv'
  <1>1. grant[a] \in Row
    BY Parts DEF LoadGrant, IInv, GrantType, Granted
  <1> QED BY <1>1, ProceedKeeps DEF LoadGrant, InFlight, Updating

\* A check moves only its request.
LEMMA CheckServerKeeps ==
  ASSUME IInv, NEW r \in Requests, NEW s \in Servers, CheckServer(r, s)
  PROVE  IInv'
  <1> DEFINE q == [req[r] EXCEPT !.pc = "principal", !.server = s]
  <1>1. req[r] \in Creating \cup Updating
    BY Parts, Kinds DEF CheckServer, Editing, IInv, ReqType
  <1>2. q \in InFlight
    BY <1>1 DEF InFlight, Creating, Updating
  <1>3. Refuse(r) \/ Proceed(r, q)
    BY DEF CheckServer
  <1> HIDE DEF q
  <1> QED BY <1>2, <1>3, ProceedKeeps, RefuseKeeps

\* A check moves only its request, or refuses it.
LEMMA CheckPrincipalKeeps ==
  ASSUME IInv, NEW r \in Requests, NEW type \in Types, NEW id \in Ids, CheckPrincipal(r, type, id)
  PROVE  IInv'
  <1> DEFINE q == [req[r] EXCEPT !.pc = "write", !.principal_type = type, !.principal_id = id]
  <1>1. req[r] \in Creating \cup Updating
    BY Parts, Kinds DEF CheckPrincipal, Editing, IInv, ReqType
  <1>2. q \in InFlight
    BY <1>1 DEF InFlight, Creating, Updating
  <1>3. Refuse(r) \/ Proceed(r, q)
    BY DEF CheckPrincipal
  <1> HIDE DEF q
  <1> QED BY <1>2, <1>3, ProceedKeeps, RefuseKeeps

\* An access check begins with the answer of that moment.
LEMMA StartAccessKeeps ==
  ASSUME IInv, NEW r \in Requests, NEW u \in Users, NEW s \in Servers, NEW path \in Paths,
         NEW permission \in Permissions, StartAccess(r, u, s, path, permission)
  PROVE  IInv'
  <1> DEFINE now == Permitted(server, grant, member,
                      [user |-> u, server |-> s, path |-> path, permission |-> permission])
             q == [op |-> "access", pc |-> "groups", user |-> u, server |-> s, path |-> path,
                   permission |-> permission, groups |-> {}, right |-> {now}, raced |-> FALSE]
  <1>1. now \in BOOLEAN
    BY DEF Permitted
  <1>2. Proceed(r, q)
    BY DEF StartAccess
  <1> HIDE DEF now
  <1>3. q \in InFlight
    BY <1>1 DEF InFlight, Accessing
  <1> HIDE DEF q
  <1> QED BY <1>2, <1>3, ProceedKeeps

\* An access check reads the memberships.
LEMMA ReadGroupsKeeps ==
  ASSUME IInv, NEW r \in Requests, ReadGroups(r)
  PROVE  IInv'
  <1> DEFINE q == [req[r] EXCEPT !.groups = GroupsOf(member, req[r].user), !.pc = "grants"]
  <1>1. req[r] \in Accessing
    BY Parts, Kinds DEF ReadGroups, IInv, ReqType
  <1>2. GroupsOf(member, req[r].user) \in SUBSET Groups
    BY DEF GroupsOf
  <1>3. q \in InFlight
    BY <1>1, <1>2 DEF InFlight, Accessing
  <1>4. Proceed(r, q)
    BY DEF ReadGroups
  <1> HIDE DEF q
  <1> QED BY <1>3, <1>4, ProceedKeeps

\* An access check decides and leaves its answer.
LEMMA DecideKeeps ==
  ASSUME IInv, NEW r \in Requests, Decide(r)
  PROVE  IInv'
  <1> DEFINE q == [op |-> "decided", answer |-> Decision(req[r]), right |-> req[r].right]
  <1>1. req[r] \in Accessing
    BY Parts, Kinds DEF Decide, IInv, ReqType
  <1>2. Decision(req[r]) \in BOOLEAN
    BY DEF Decision
  <1>3. q \in InFlight
    BY <1>1, <1>2 DEF InFlight, Accessing, Decided
  <1>4. Proceed(r, q)
    BY DEF Decide
  <1> HIDE DEF q
  <1> QED BY <1>3, <1>4, ProceedKeeps

\* An answer that was given goes.
LEMMA AnsweredKeeps ==
  ASSUME IInv, NEW r \in Requests, Answered(r)
  PROVE  IInv'
  BY RefuseKeeps DEF Answered
-----------------------------------------------------------------------------
(* Decisions.  A second invariant follows what the answer to each request   *)
(* will be.                                                                *)

\* The answer on given rows, without the test of the server, and the answer with
\* the groups that the request has read.
Now(rows, members, q) == q.permission \in EffectivePermissions(rows, members, q.user, q.server, q.path)
DecisionOn(rows, q) == q.permission \in PermissionsFrom(rows, q.user, q.groups, q.server, q.path)

\* Answer b to request q would be right.
RightIs(q, b) == (b /\ TRUE \in q.right) \/ (~b /\ FALSE \in q.right)

\* The answer that a request heads for is right; before a commit fell into it, the
\* server, the rows and the groups it has read are the present ones.
RightOf(q) ==
  /\ q.op = "access" =>
       /\ q.pc = "groups" => RightIs(q, Now(grant, member, q))
       /\ q.pc = "grants" => RightIs(q, DecisionOn(grant, q))
       /\ q.raced = FALSE => /\ server[q.server] = "enabled"
                             /\ RightIs(q, Now(grant, member, q))
                             /\ q.pc = "grants" => q.groups = GroupsOf(member, q.user)
  /\ q.op = "decided" => q.answer \in q.right

Rights == \A r \in Requests : RightOf(req[r])

\* A row gives the request what it asks for.
Gives(row, groups, q) ==
  /\ row # NoGrant /\ row.server = q.server
  /\ \/ row.principal_type = "USER" /\ row.principal_id = q.user
     \/ row.principal_type = "GROUP" /\ row.principal_id \in groups
  /\ Applies(row, q.path)
  /\ q.permission \in row.permissions

Capped(q) == Role[q.user] = "AUDITOR" /\ q.permission \in Writes

\* What a set of rows answers to a request: an administrator everything, others
\* what some row gives and the role does not withhold.
LEMMA DecisionMeans ==
  ASSUME NEW q \in Accessing, NEW rows, NEW groups
  PROVE  (q.permission \in PermissionsFrom(rows, q.user, groups, q.server, q.path))
           <=> \/ Role[q.user] = "ADMIN"
               \/ ~Capped(q) /\ \E g \in Grants : Gives(rows[g], groups, q)
  <1> DEFINE given == UNION {row.permissions : row \in {h \in Held(rows, q.user, groups, q.server) : Applies(h, q.path)}}
  <1>1. q.permission \in Permissions /\ q.user \in Users
    BY DEF Accessing
  <1>2. (q.permission \in given) <=> \E g \in Grants : Gives(rows[g], groups, q)
    BY DEF Held, Gives
  <1>3. (q.permission \in Ceiling(q.user, given)) <=> (~Capped(q) /\ q.permission \in given)
    <2> HIDE DEF given
    <2> QED BY <1>1, RoleAssumption DEF Ceiling, Capped
  <1>4. PermissionsFrom(rows, q.user, groups, q.server, q.path)
          = IF Role[q.user] = "ADMIN" THEN Permissions ELSE Ceiling(q.user, given)
    BY DEF PermissionsFrom
  <1> HIDE DEF given
  <1> QED BY <1>1, <1>2, <1>3, <1>4

\* After a commit that fell into request q first, what q heads for is what it
\* would have got before, or what it would get now.
Follows(q) ==
  LET now == Permitted(server', grant', member', q)
      before == Now(grant, member, q)
  IN /\ (Now(grant', member', q) <=> now) \/ (Now(grant', member', q) <=> before)
     /\ q.groups = GroupsOf(member, q.user) =>
          (DecisionOn(grant', q) <=> now) \/ (DecisionOn(grant', q) <=> before)

\* Requests that ask for the same get the same answers.
LEMMA SameQuestion ==
  ASSUME NEW p, NEW q, NEW rows, NEW members,
         p.user = q.user, p.server = q.server, p.path = q.path,
         p.permission = q.permission, p.groups = q.groups
  PROVE  /\ Now(rows, members, p) <=> Now(rows, members, q)
         /\ DecisionOn(rows, p) <=> DecisionOn(rows, q)
  BY Zenon DEF Now, DecisionOn

\* A commit keeps what running checks rely on if they follow it.
LEMMA CommitKeepsRights ==
  ASSUME IInv, Rights, NEW r \in Requests, Finish(r),
         \A q \in Accessing : server[q.server] = "enabled" => Follows(q)
  PROVE  Rights'
  <1> SUFFICES ASSUME NEW k \in Requests PROVE RightOf(req[k])'
    BY DEF Rights
  <1>1. ReqType
    BY Parts DEF IInv
  <1>2. CASE k = r
    <2>1. req'[k] = Idle
      BY <1>1, <1>2 DEF Finish, Noting, Idle, ReqType
    <2> QED BY <2>1 DEF RightOf, Idle
  <1>3. CASE k # r /\ req[k].op # "access"
    <2>1. req'[k] = req[k]
      BY <1>1, <1>3 DEF Finish, Noting, ReqType
    <2> QED BY <1>3, <2>1 DEF Rights, RightOf
  <1>4. CASE k # r /\ req[k].op = "access"
    <2> DEFINE p == req[k]
               now == Permitted(server', grant', member', p)
    <2>1. p \in Accessing /\ RightOf(p)
      BY <1>1, <1>4, Kinds DEF ReqType, Rights
    <2>2. req'[k] = [p EXCEPT !.right = IF p.raced THEN BOOLEAN ELSE p.right \cup {now}, !.raced = TRUE]
      BY <1>1, <1>4, Zenon DEF Finish, Noting, ReqType
    <2>3. now \in BOOLEAN
      BY DEF Permitted
    <2>4. p.raced = TRUE \/ p.raced = FALSE
      BY <2>1 DEF Accessing
    <2>5. PICK q : q = req'[k]
      OBVIOUS
    <2>6. PICK old \in Accessing : old = p
      BY <2>1
    <2>7. PICK n \in BOOLEAN : n = now
      BY <2>3
    <2> HIDE DEF now
    <2>8. /\ q.user = old.user /\ q.server = old.server /\ q.path = old.path
          /\ q.permission = old.permission /\ q.groups = old.groups /\ q.op = "access" /\ q.pc = old.pc
          /\ q.raced = TRUE
      BY <1>4, <2>2, <2>5, <2>6 DEF Accessing
    <2>9. q.right = IF old.raced THEN BOOLEAN ELSE old.right \cup {n}
      BY <2>2, <2>5, <2>6, <2>7 DEF Accessing
    <2>10. /\ Now(grant', member', q) <=> Now(grant', member', old)
           /\ DecisionOn(grant', q) <=> DecisionOn(grant', old)
      BY <2>8, SameQuestion
    <2>11. /\ old.pc = "groups" => RightIs(q, Now(grant', member', q))
           /\ old.pc = "grants" => RightIs(q, DecisionOn(grant', q))
      <3>1. CASE old.raced = TRUE
        <4>1. q.right = BOOLEAN
          BY <2>9, <3>1
        <4> QED BY <4>1 DEF RightIs
      <3>2. CASE old.raced = FALSE
        <4>1. q.right = old.right \cup {n}
          BY <2>9, <3>2
        <4>2. server[old.server] = "enabled" /\ RightIs(old, Now(grant, member, old))
          BY <1>4, <2>1, <2>6, <3>2 DEF RightOf
        <4>3. old.pc = "grants" => old.groups = GroupsOf(member, old.user)
          BY <1>4, <2>1, <2>6, <3>2 DEF RightOf
        <4>4. Follows(old)
          BY <4>2
        <4>5. n = Permitted(server', grant', member', old)
          BY <2>6, <2>7 DEF now
        <4>6. (Now(grant', member', old) <=> n) \/ (Now(grant', member', old) <=> Now(grant, member, old))
          BY <4>4, <4>5 DEF Follows
        <4>7. old.pc = "grants" =>
                (DecisionOn(grant', old) <=> n) \/ (DecisionOn(grant', old) <=> Now(grant, member, old))
          BY <4>3, <4>4, <4>5 DEF Follows
        <4>8. TRUE \in q.right <=> (TRUE \in old.right \/ n)
          BY <4>1
        <4>9. FALSE \in q.right <=> (FALSE \in old.right \/ ~n)
          BY <4>1
        <4> QED BY <2>10, <4>2, <4>6, <4>7, <4>8, <4>9 DEF RightIs
      <3> QED BY <2>4, <2>6, <3>1, <3>2
    <2> QED BY <2>5, <2>8, <2>11 DEF RightOf
  <1> QED BY <1>2, <1>3, <1>4

\* A commit that leaves the grants and the switches of the servers alone.
LEMMA MembersFollow ==
  ASSUME NEW q \in Accessing, server[q.server] = "enabled", UNCHANGED <<server, grant>>
  PROVE  Follows(q)
  <1>1. Now(grant', member', q) <=> Permitted(server', grant', member', q)
    BY DEF Now, Permitted
  <1>2. q.groups = GroupsOf(member, q.user) => (DecisionOn(grant', q) <=> Now(grant, member, q))
    BY DEF Now, DecisionOn, EffectivePermissions
  <1> QED BY <1>1, <1>2 DEF Follows

\* A commit about the servers only.
LEMMA ServersFollow ==
  ASSUME NEW q \in Accessing, UNCHANGED <<grant, member>>
  PROVE  Follows(q)
  <1>1. Now(grant', member', q) <=> Now(grant, member, q)
    BY DEF Now
  <1>2. q.groups = GroupsOf(member, q.user) => (DecisionOn(grant', q) <=> Now(grant, member, q))
    BY DEF Now, DecisionOn, EffectivePermissions
  <1> QED BY <1>1, <1>2 DEF Follows

\* A commit about the grants only.
LEMMA GrantsFollow ==
  ASSUME NEW q \in Accessing, server[q.server] = "enabled", UNCHANGED <<server, member>>
  PROVE  Follows(q)
  <1>1. Now(grant', member', q) <=> Permitted(server', grant', member', q)
    BY DEF Now, Permitted
  <1>2. q.groups = GroupsOf(member, q.user) => (DecisionOn(grant', q) <=> Now(grant', member', q))
    BY DEF Now, DecisionOn, EffectivePermissions
  <1> QED BY <1>1, <1>2 DEF Follows

\* A group that is removed takes its grants along: on the rows that stay, the
\* groups read before and those of now give the same.
LEMMA RemovalFollows ==
  ASSUME NEW r \in Requests, RemoveGroup(r), NEW q \in Accessing, server[q.server] = "enabled"
  PROVE  Follows(q)
  <1> DEFINE g == req[r].principal_id
             before == GroupsOf(member, q.user)
             now == GroupsOf(member', q.user)
  <1>1. Now(grant', member', q) <=> Permitted(server', grant', member', q)
    BY DEF Now, Permitted, RemoveGroup
  <1>2. \A a \in Grants : grant'[a] # NoGrant /\ grant'[a].principal_type = "GROUP" => grant'[a].principal_id # g
    BY DEF RemoveGroup
  <1>3. now \subseteq before /\ before \subseteq now \cup {g}
    BY DEF RemoveGroup, GroupsOf
  <1> HIDE DEF g, before, now
  <1>4. \A a \in Grants : Gives(grant'[a], before, q) <=> Gives(grant'[a], now, q)
    BY <1>2, <1>3 DEF Gives
  <1>5. (\E a \in Grants : Gives(grant'[a], before, q)) <=> (\E a \in Grants : Gives(grant'[a], now, q))
    BY <1>4
  <1>6. q.permission \in PermissionsFrom(grant', q.user, before, q.server, q.path)
          <=> q.permission \in PermissionsFrom(grant', q.user, now, q.server, q.path)
    BY <1>5, DecisionMeans
  <1>7. q.groups = before => (DecisionOn(grant', q) <=> Now(grant', member', q))
    BY <1>6 DEF DecisionOn, Now, EffectivePermissions, now
  <1> QED BY <1>1, <1>7 DEF Follows, before

\* A server that is deleted takes its grants along: a request for it gets nothing
\* any more, and nothing else changes.
LEMMA DeletionFollows ==
  ASSUME ServerType, NEW r \in Requests, NEW s \in Servers, DeleteServer(r, s),
         NEW q \in Accessing
  PROVE  Follows(q)
  <1> DEFINE groups == GroupsOf(member, q.user)
  <1>1. q.groups = groups => (DecisionOn(grant', q) <=> Now(grant', member', q))
    BY DEF Now, DecisionOn, EffectivePermissions, DeleteServer
  <1>2. /\ Now(grant', member', q) <=> q.permission \in PermissionsFrom(grant', q.user, groups, q.server, q.path)
        /\ Now(grant, member, q) <=> q.permission \in PermissionsFrom(grant, q.user, groups, q.server, q.path)
    BY DEF Now, EffectivePermissions, DeleteServer
  <1> HIDE DEF groups
  <1>3. CASE Role[q.user] = "ADMIN"
    <2>1. Now(grant', member', q) <=> Now(grant, member, q)
      BY <1>2, <1>3, DecisionMeans
    <2> QED BY <1>1, <2>1 DEF Follows, groups
  <1>4. CASE Role[q.user] # "ADMIN" /\ q.server = s
    <2>1. \A a \in Grants : ~Gives(grant'[a], groups, q)
      BY <1>4 DEF DeleteServer, Gives
    <2>2. ~Now(grant', member', q)
      BY <1>2, <1>4, <2>1, DecisionMeans
    <2>3. server'[q.server] = "none"
      BY <1>4 DEF DeleteServer, ServerType
    <2>4. ~Permitted(server', grant', member', q)
      BY <2>3 DEF Permitted
    <2> QED BY <1>1, <2>2, <2>4 DEF Follows, groups
  <1>5. CASE Role[q.user] # "ADMIN" /\ q.server # s
    <2>1. \A a \in Grants : Gives(grant'[a], groups, q) <=> Gives(grant[a], groups, q)
      BY <1>5 DEF DeleteServer, Gives
    <2>2. (\E a \in Grants : Gives(grant'[a], groups, q)) <=> (\E a \in Grants : Gives(grant[a], groups, q))
      BY <2>1
    <2>3. Now(grant', member', q) <=> Now(grant, member, q)
      BY <1>2, <2>2, DecisionMeans
    <2> QED BY <1>1, <2>3 DEF Follows, groups
  <1> QED BY <1>3, <1>4, <1>5

\* A step of a request that changes no row.
LEMMA ProceedKeepsRights ==
  ASSUME IInv, Rights, NEW r \in Requests, NEW q, RightOf(q), Proceed(r, q)
  PROVE  Rights'
  <1> SUFFICES ASSUME NEW k \in Requests PROVE RightOf(req[k])'
    BY DEF Rights
  <1>1. PICK x : x = req'[k]
    OBVIOUS
  <1>2. x = q \/ x = req[k]
    BY <1>1, Parts DEF IInv, ReqType, Proceed
  <1>3. RightOf(x)
    BY <1>2 DEF Rights
  <1>4. UNCHANGED <<server, group, member, grant>>
    BY DEF Proceed
  <1> QED BY <1>1, <1>3, <1>4 DEF RightOf

\* A refused request disturbs no running check.
LEMMA RefuseKeepsRights ==
  ASSUME IInv, Rights, NEW r \in Requests, Refuse(r)
  PROVE  Rights'
  <1>1. RightOf(Idle)
    BY DEF RightOf, Idle
  <1> QED BY <1>1, ProceedKeepsRights DEF Refuse, Proceed

\* What is none of the requests that decide has nothing to be right about.
LEMMA OthersRight ==
  ASSUME NEW q, q.op \notin {"access", "decided"}
  PROVE  RightOf(q)
  BY DEF RightOf

\* The reads of a request.
LEMMA StartAccessKeepsRights ==
  ASSUME IInv, Rights, NEW r \in Requests, NEW u \in Users, NEW s \in Servers, NEW path \in Paths,
         NEW permission \in Permissions, StartAccess(r, u, s, path, permission)
  PROVE  Rights'
  <1> DEFINE ask == [user |-> u, server |-> s, path |-> path, permission |-> permission]
             now == Permitted(server, grant, member, ask)
             q == [op |-> "access", pc |-> "groups", user |-> u, server |-> s, path |-> path,
                   permission |-> permission, groups |-> {}, right |-> {now}, raced |-> FALSE]
  <1>1. Proceed(r, q) /\ server[s] = "enabled"
    BY DEF StartAccess
  <1>2. now <=> permission \in EffectivePermissions(grant, member, u, s, path)
    BY <1>1 DEF Permitted
  <1>3. PICK n \in BOOLEAN : n = now
    BY DEF Permitted
  <1> HIDE DEF now
  <1>4. /\ q.right = {n} /\ q.op = "access" /\ q.pc = "groups" /\ q.raced = FALSE
        /\ q.user = u /\ q.server = s /\ q.path = path /\ q.permission = permission
    BY <1>3
  <1> HIDE DEF q
  <1>5. n <=> Now(grant, member, q)
    BY <1>2, <1>3, <1>4 DEF Now
  <1>6. RightIs(q, Now(grant, member, q))
    BY <1>4, <1>5 DEF RightIs
  <1>7. RightOf(q)
    BY <1>1, <1>4, <1>6 DEF RightOf
  <1> QED BY <1>1, <1>7, ProceedKeepsRights

\* A check that reads the memberships heads for an answer that was right.
LEMMA ReadGroupsKeepsRights ==
  ASSUME IInv, Rights, NEW r \in Requests, ReadGroups(r)
  PROVE  Rights'
  <1> DEFINE p == req[r]
             q == [p EXCEPT !.groups = GroupsOf(member, p.user), !.pc = "grants"]
  <1>1. p \in Accessing /\ p.op = "access" /\ p.pc = "groups" /\ RightOf(p)
    BY Parts, Kinds DEF ReadGroups, IInv, ReqType, Rights
  <1>2. Proceed(r, q)
    BY DEF ReadGroups
  <1>3. /\ q.user = p.user /\ q.server = p.server /\ q.path = p.path /\ q.permission = p.permission
        /\ q.groups = GroupsOf(member, p.user) /\ q.op = "access" /\ q.pc = "grants"
        /\ q.raced = p.raced /\ q.right = p.right
    BY <1>1 DEF Accessing
  <1> HIDE DEF q, p
  <1>4. RightIs(p, Now(grant, member, p))
    BY <1>1 DEF RightOf
  <1>5. (Now(grant, member, q) <=> Now(grant, member, p)) /\ (DecisionOn(grant, q) <=> Now(grant, member, p))
    BY <1>3, Zenon DEF Now, DecisionOn, EffectivePermissions
  <1>6. RightIs(q, Now(grant, member, q)) /\ RightIs(q, DecisionOn(grant, q))
    BY <1>3, <1>4, <1>5 DEF RightIs
  <1>7. p.raced = FALSE => server[p.server] = "enabled"
    BY <1>1 DEF RightOf
  <1>8. RightOf(q)
    BY <1>3, <1>6, <1>7 DEF RightOf
  <1> QED BY <1>2, <1>8, ProceedKeepsRights

\* A check that decides gives the answer it was heading for.
LEMMA DecideKeepsRights ==
  ASSUME IInv, Rights, NEW r \in Requests, Decide(r)
  PROVE  Rights'
  <1> DEFINE p == req[r]
             q == [op |-> "decided", answer |-> Decision(p), right |-> p.right]
  <1>1. p.op = "access" /\ p.pc = "grants" /\ RightOf(p)
    BY DEF Decide, Rights
  <1>2. Proceed(r, q)
    BY DEF Decide
  <1>3. RightIs(p, DecisionOn(grant, p))
    BY <1>1 DEF RightOf
  <1>4. Decision(p) <=> DecisionOn(grant, p)
    BY DEF Decision, DecisionOn
  <1>5. PICK a \in BOOLEAN : a = Decision(p)
    <2>1. Decision(p) \in BOOLEAN
      BY DEF Decision
    <2> QED BY <2>1, Zenon
  <1>6. a \in p.right
    BY <1>3, <1>4, <1>5 DEF RightIs
  <1>7. q.op = "decided" /\ q.answer = a /\ q.right = p.right
    BY <1>5
  <1> HIDE DEF q, p
  <1>8. RightOf(q)
    BY <1>6, <1>7 DEF RightOf
  <1> QED BY <1>2, <1>8, ProceedKeepsRights

\* Requests that edit and loads decide nothing.
LEMMA CheckServerKeepsRights ==
  ASSUME IInv, Rights, NEW r \in Requests, NEW s \in Servers, CheckServer(r, s)
  PROVE  Rights'
  <1> DEFINE q == [req[r] EXCEPT !.pc = "principal", !.server = s]
  <1>1. req[r] \in Creating \cup Updating
    BY Parts, Kinds DEF CheckServer, Editing, IInv, ReqType
  <1>2. q.op \in {"create_grant", "update_grant"}
    BY <1>1 DEF Creating, Updating
  <1>3. Refuse(r) \/ Proceed(r, q)
    BY DEF CheckServer
  <1> HIDE DEF q
  <1>4. RightOf(q)
    BY <1>2, OthersRight
  <1> QED BY <1>3, <1>4, ProceedKeepsRights, RefuseKeepsRights

\* The check of a principal disturbs no access check.
LEMMA CheckPrincipalKeepsRights ==
  ASSUME IInv, Rights, NEW r \in Requests, NEW type \in Types, NEW id \in Ids, CheckPrincipal(r, type, id)
  PROVE  Rights'
  <1> DEFINE q == [req[r] EXCEPT !.pc = "write", !.principal_type = type, !.principal_id = id]
  <1>1. req[r] \in Creating \cup Updating
    BY Parts, Kinds DEF CheckPrincipal, Editing, IInv, ReqType
  <1>2. q.op \in {"create_grant", "update_grant"}
    BY <1>1 DEF Creating, Updating
  <1>3. Refuse(r) \/ Proceed(r, q)
    BY DEF CheckPrincipal
  <1> HIDE DEF q
  <1>4. RightOf(q)
    BY <1>2, OthersRight
  <1> QED BY <1>3, <1>4, ProceedKeepsRights, RefuseKeepsRights

\* The reads of the editing handlers disturb no access check.
LEMMA LoadsKeepRights ==
  ASSUME IInv, Rights, NEW r \in Requests,
         \/ \E g \in Groups : LoadGroup(r, g)
         \/ \E a \in Grants : StartCreate(r, a) \/ LoadGrant(r, a)
  PROVE  Rights'
  <1>1. CASE \E g \in Groups : LoadGroup(r, g)
    BY <1>1, OthersRight, ProceedKeepsRights DEF LoadGroup
  <1>2. CASE \E a \in Grants : StartCreate(r, a)
    BY <1>2, OthersRight, ProceedKeepsRights DEF StartCreate
  <1>3. CASE \E a \in Grants : LoadGrant(r, a)
    BY <1>3, OthersRight, ProceedKeepsRights DEF LoadGrant
  <1> QED BY <1>1, <1>2, <1>3

\* The commits.
LEMMA GroupCommitsKeepRights ==
  ASSUME IInv, Rights, NEW r \in Requests, NEW g \in Groups, NEW us \in SUBSET Users,
         CreateGroup(r, g, us) \/ UpdateGroup(r, g, us)
  PROVE  Rights'
  <1>1. UNCHANGED <<server, grant>> /\ Finish(r)
    BY DEF CreateGroup, UpdateGroup
  <1>2. \A q \in Accessing : server[q.server] = "enabled" => Follows(q)
    BY <1>1, MembersFollow
  <1> QED BY <1>1, <1>2, CommitKeepsRights

\* The deletion of a group is followed by every running check.
LEMMA RemoveGroupKeepsRights ==
  ASSUME IInv, Rights, NEW r \in Requests, RemoveGroup(r)
  PROVE  Rights'
  <1>1. \A q \in Accessing : server[q.server] = "enabled" => Follows(q)
    BY RemovalFollows
  <1>2. Finish(r)
    BY DEF RemoveGroup
  <1> QED BY <1>1, <1>2, CommitKeepsRights

\* So is a change of the servers.
LEMMA ServerCommitsKeepRights ==
  ASSUME IInv, Rights, NEW r \in Requests, NEW s \in Servers,
         CreateServer(r, s) \/ SwitchServer(r, s) \/ DeleteServer(r, s)
  PROVE  Rights'
  <1>1. Finish(r)
    BY DEF CreateServer, SwitchServer, DeleteServer
  <1>2. \A q \in Accessing : Follows(q)
    <2>1. CASE CreateServer(r, s) \/ SwitchServer(r, s)
      <3>1. UNCHANGED <<grant, member>>
        BY <2>1 DEF CreateServer, SwitchServer
      <3> QED BY <3>1, ServersFollow
    <2>2. CASE DeleteServer(r, s)
      BY <2>2, DeletionFollows, Parts DEF IInv
    <2> QED BY <2>1, <2>2
  <1> QED BY <1>1, <1>2, CommitKeepsRights

\* A commit of grants alone is followed: the memberships read before it are still true.
LEMMA GrantCommitKeepsRights ==
  ASSUME IInv, Rights, NEW r \in Requests, UNCHANGED <<server, group, member>>, Finish(r)
  PROVE  Rights'
  <1>1. \A q \in Accessing : server[q.server] = "enabled" => Follows(q)
    BY GrantsFollow
  <1> QED BY <1>1, CommitKeepsRights

\* The three handlers that write grants are such commits.
LEMMA GrantWritesKeepRights ==
  ASSUME IInv, Rights, NEW r \in Requests,
         \/ \E a \in Grants : DeleteGrant(r, a)
         \/ \E row \in Row : InsertGrant(r, row) \/ WriteGrant(r, row)
  PROVE  Rights'
  <1>1. CASE \E a \in Grants : DeleteGrant(r, a)
    BY <1>1, GrantCommitKeepsRights DEF DeleteGrant
  <1>2. CASE \E row \in Row : InsertGrant(r, row)
    <2>1. Refuse(r) \/ (UNCHANGED <<server, group, member>> /\ Finish(r))
      BY <1>2 DEF InsertGrant
    <2> QED BY <2>1, GrantCommitKeepsRights, RefuseKeepsRights
  <1>3. CASE \E row \in Row : WriteGrant(r, row)
    <2>1. Refuse(r) \/ (UNCHANGED <<server, group, member>> /\ Finish(r))
      BY <1>3 DEF WriteGrant
    <2> QED BY <2>1, GrantCommitKeepsRights, RefuseKeepsRights
  <1> QED BY <1>1, <1>2, <1>3

\* Every step keeps what running checks rely on.
LEMMA StepKeepsRights == IInv /\ Rights /\ [Next]_vars => Rights'
  <1> SUFFICES ASSUME IInv, Rights, [Next]_vars PROVE Rights'
    OBVIOUS
  <1>1. CASE UNCHANGED vars
    BY <1>1 DEF Rights, RightOf, vars
  <1>2. ASSUME NEW r \in Requests, NEW g \in Groups, NEW us \in SUBSET Users,
               CreateGroup(r, g, us) \/ UpdateGroup(r, g, us)
        PROVE  Rights'
    BY <1>2, GroupCommitsKeepRights
  <1>3. ASSUME NEW r \in Requests, NEW g \in Groups, LoadGroup(r, g)
        PROVE  Rights'
    BY <1>3, LoadsKeepRights
  <1>4. ASSUME NEW r \in Requests, NEW s \in Servers,
               CreateServer(r, s) \/ SwitchServer(r, s) \/ DeleteServer(r, s) \/ CheckServer(r, s)
        PROVE  Rights'
    BY <1>4, ServerCommitsKeepRights, CheckServerKeepsRights
  <1>5. ASSUME NEW r \in Requests, NEW s \in Servers, NEW u \in Users, NEW path \in Paths,
               NEW permission \in Permissions, StartAccess(r, u, s, path, permission)
        PROVE  Rights'
    BY <1>5, StartAccessKeepsRights
  <1>6. ASSUME NEW r \in Requests, NEW a \in Grants,
               StartCreate(r, a) \/ LoadGrant(r, a) \/ DeleteGrant(r, a)
        PROVE  Rights'
    BY <1>6, LoadsKeepRights, GrantWritesKeepRights
  <1>7. ASSUME NEW r \in Requests, NEW row \in Row, InsertGrant(r, row) \/ WriteGrant(r, row)
        PROVE  Rights'
    BY <1>7, GrantWritesKeepRights
  <1>8. ASSUME NEW r \in Requests, NEW type \in Types, NEW id \in Ids, CheckPrincipal(r, type, id)
        PROVE  Rights'
    BY <1>8, CheckPrincipalKeepsRights
  <1>9. ASSUME NEW r \in Requests, RemoveGroup(r) \/ ReadGroups(r) \/ Decide(r) \/ Answered(r)
        PROVE  Rights'
    BY <1>9, RemoveGroupKeepsRights, ReadGroupsKeepsRights, DecideKeepsRights, RefuseKeepsRights
       DEF Answered
  <1> QED BY <1>1, <1>2, <1>3, <1>4, <1>5, <1>6, <1>7, <1>8, <1>9 DEF Next
-----------------------------------------------------------------------------
\* The invariant holds at first.
LEMMA Initially == Init => IInv
  BY DEF Init, IInv, TypeOK, Granted, ServersThere, GroupsThere, Idle

\* Every step keeps it.
LEMMA Step == IInv /\ [Next]_vars => IInv'
  <1> SUFFICES ASSUME IInv, [Next]_vars PROVE IInv'
    OBVIOUS
  <1>1. CASE UNCHANGED vars
    BY <1>1 DEF IInv, TypeOK, Granted, ServersThere, GroupsThere, ServerThere, vars
  <1>2. ASSUME NEW r \in Requests, NEW g \in Groups, NEW us \in SUBSET Users,
               CreateGroup(r, g, us) \/ UpdateGroup(r, g, us)
        PROVE  IInv'
    BY <1>2, CreateGroupKeeps, UpdateGroupKeeps
  <1>3. ASSUME NEW r \in Requests, NEW g \in Groups, LoadGroup(r, g)
        PROVE  IInv'
    BY <1>3, LoadGroupKeeps
  <1>4. ASSUME NEW r \in Requests, NEW s \in Servers,
               CreateServer(r, s) \/ SwitchServer(r, s) \/ DeleteServer(r, s) \/ CheckServer(r, s)
        PROVE  IInv'
    BY <1>4, CreateServerKeeps, SwitchServerKeeps, DeleteServerKeeps, CheckServerKeeps
  <1>5. ASSUME NEW r \in Requests, NEW s \in Servers, NEW u \in Users, NEW path \in Paths,
               NEW permission \in Permissions, StartAccess(r, u, s, path, permission)
        PROVE  IInv'
    BY <1>5, StartAccessKeeps
  <1>6. ASSUME NEW r \in Requests, NEW a \in Grants,
               StartCreate(r, a) \/ LoadGrant(r, a) \/ DeleteGrant(r, a)
        PROVE  IInv'
    BY <1>6, StartCreateKeeps, LoadGrantKeeps, DeleteGrantKeeps
  <1>7. ASSUME NEW r \in Requests, NEW row \in Row, InsertGrant(r, row) \/ WriteGrant(r, row)
        PROVE  IInv'
    BY <1>7, InsertGrantKeeps, WriteGrantKeeps
  <1>8. ASSUME NEW r \in Requests, NEW type \in Types, NEW id \in Ids, CheckPrincipal(r, type, id)
        PROVE  IInv'
    BY <1>8, CheckPrincipalKeeps
  <1>9. ASSUME NEW r \in Requests, RemoveGroup(r) \/ ReadGroups(r) \/ Decide(r) \/ Answered(r)
        PROVE  IInv'
    BY <1>9, RemoveGroupKeeps, ReadGroupsKeeps, DecideKeeps, AnsweredKeeps
  <1> QED BY <1>1, <1>2, <1>3, <1>4, <1>5, <1>6, <1>7, <1>8, <1>9 DEF Next

\* IInv is an invariant.
LEMMA Invariance == Spec => []IInv
  BY Initially, Step, PTL DEF Spec

\* Rows and requests keep their types, and no two grants have one target.
THEOREM AccessTypeOK == Spec => []TypeOK
  <1>1. IInv => TypeOK
    BY DEF IInv
  <1> QED BY <1>1, Invariance, PTL

\* No grant outlives its server, no membership its group, and a grant to a
\* group that is gone is a right of nobody.
THEOREM AccessNothingDangles == Spec => []NothingDangles
  <1>1. ASSUME IInv PROVE NothingDangles
    <2>1. ASSUME NEW u \in Users, NEW s \in Servers, NEW h \in Held(grant, u, GroupsOf(member, u), s)
          PROVE  PrincipalThere(h.principal_type, h.principal_id)
      <3>1. \/ h.principal_type = "USER" /\ h.principal_id = u
            \/ h.principal_type = "GROUP" /\ h.principal_id \in GroupsOf(member, u)
        BY <2>1 DEF Held
      <3>2. \A g \in GroupsOf(member, u) : g \in group
        BY <1>1 DEF IInv, GroupsThere, GroupsOf
      <3> QED BY <3>1, <3>2 DEF PrincipalThere
    <2> QED BY <1>1, <2>1 DEF NothingDangles, IInv, ServersThere, GroupsThere
  <1>2. IInv => NothingDangles
    BY <1>1
  <1> QED BY <1>2, Invariance, PTL

\* The handlers that change the table of grants.
LEMMA GrantWriters ==
  ASSUME Next, grant' # grant
  PROVE  \E r \in Requests :
           \/ RemoveGroup(r)
           \/ \E s \in Servers : DeleteServer(r, s)
           \/ \E h \in Grants : DeleteGrant(r, h)
           \/ \E row \in Row : InsertGrant(r, row)
           \/ \E row \in Row : WriteGrant(r, row)
  <1>1. \A r \in Requests : \A g \in Groups : \A us \in SUBSET Users :
          ~CreateGroup(r, g, us) /\ ~UpdateGroup(r, g, us)
    BY DEF CreateGroup, UpdateGroup
  <1>2. \A r \in Requests : \A g \in Groups : ~LoadGroup(r, g)
    BY DEF LoadGroup, Proceed
  <1>3. \A r \in Requests : \A s \in Servers :
          ~CreateServer(r, s) /\ ~SwitchServer(r, s) /\ ~CheckServer(r, s)
    BY DEF CreateServer, SwitchServer, CheckServer, Proceed, Refuse
  <1>4. \A r \in Requests : \A s \in Servers : \A u \in Users, path \in Paths, permission \in Permissions :
          ~StartAccess(r, u, s, path, permission)
    BY DEF StartAccess, Proceed
  <1>5. \A r \in Requests : \A h \in Grants : ~StartCreate(r, h) /\ ~LoadGrant(r, h)
    BY DEF StartCreate, LoadGrant, Proceed
  <1>6. \A r \in Requests : \A type \in Types, id \in Ids : ~CheckPrincipal(r, type, id)
    BY DEF CheckPrincipal, Proceed, Refuse
  <1>7. \A r \in Requests : ~ReadGroups(r) /\ ~Decide(r) /\ ~Answered(r)
    BY DEF ReadGroups, Decide, Answered, Proceed, Refuse
  <1> QED BY <1>1, <1>2, <1>3, <1>4, <1>5, <1>6, <1>7 DEF Next

\* Only the request that creates a grant puts a row into the table.
THEOREM AccessDeletedStaysDeleted == Spec => DeletedStaysDeleted
  <1> DEFINE Kept == \A a \in Grants : a \notin Granted /\ a \in Granted' =>
                       \E r \in Requests : req[r].op = "create_grant" /\ req'[r] = Idle
  <1>1. ASSUME IInv, [Next]_vars PROVE [Kept]_vars
    <2> SUFFICES ASSUME NEW a \in Grants, a \notin Granted, a \in Granted'
                 PROVE  \E r \in Requests : req[r].op = "create_grant" /\ req'[r] = Idle
      OBVIOUS
    <2>1. grant'[a] # grant[a]
      BY DEF Granted
    <2>2. grant' # grant
      BY <2>1
    <2>3. PICK r \in Requests :
            \/ RemoveGroup(r)
            \/ \E s \in Servers : DeleteServer(r, s)
            \/ \E h \in Grants : DeleteGrant(r, h)
            \/ \E row \in Row : InsertGrant(r, row)
            \/ \E row \in Row : WriteGrant(r, row)
      BY <1>1, <2>2, GrantWriters DEF vars
    <2>4. CASE RemoveGroup(r)
      BY <2>1, <2>4 DEF RemoveGroup, Granted
    <2>5. CASE \E s \in Servers : DeleteServer(r, s)
      BY <2>1, <2>5 DEF DeleteServer, Granted
    <2>6. CASE \E h \in Grants : DeleteGrant(r, h)
      BY <1>1, <2>1, <2>6, Parts DEF DeleteGrant, Granted, IInv, GrantType
    <2>7. CASE \E row \in Row : InsertGrant(r, row)
      <3>1. Finish(r) /\ req[r].op = "create_grant"
        BY <2>2, <2>7 DEF InsertGrant, Refuse
      <3>2. req'[r] = Idle
        BY <1>1, <3>1, Parts DEF Finish, Noting, Idle, IInv, ReqType
      <3> QED BY <3>1, <3>2
    <2>8. CASE \E row \in Row : WriteGrant(r, row)
      <3>1. req[r].grant \in Granted /\ \E row : grant' = [grant EXCEPT ![req[r].grant] = row]
        BY <2>2, <2>8 DEF WriteGrant, Refuse, RowStillThere
      <3>2. req[r].grant # a
        BY <3>1
      <3>3. grant'[a] = grant[a]
        BY <1>1, <3>1, <3>2, Parts DEF IInv, GrantType
      <3> QED BY <2>1, <3>3
    <2> QED BY <2>3, <2>4, <2>5, <2>6, <2>7, <2>8
  <1>2. IInv /\ [Next]_vars => [Kept]_vars
    BY <1>1
  <1> QED BY <1>2, Invariance, PTL DEF Spec, DeletedStaysDeleted

\* Memberships and grants are read at different moments, and still the answer to
\* a request was right at some moment while it ran, unless two administrators'
\* commits fell into that time.
THEOREM AccessDecisionsWereRight == Spec => []DecisionsWereRight
  <1>1. Init => Rights
    BY DEF Init, Rights, RightOf, Idle
  <1>2. Rights => DecisionsWereRight
    BY DEF Rights, RightOf, DecisionsWereRight
  <1> QED BY <1>1, <1>2, StepKeepsRights, Invariance, PTL DEF Spec

\* The three places that compute rights agree: the sources of an explanation make
\* up the effective permissions, a root shows nothing that a request would be
\* refused there, and every permission lies at or below a root that shows it.
THEOREM AccessAgreesEverywhere == Spec => []AccessAgrees
  <1>1. ASSUME IInv, NEW u \in Users, NEW s \in Servers, Role[u] # "ADMIN", server[s] = "enabled",
               NEW p \in Paths
        PROVE  EffectivePermissions(grant, member, u, s, p)
                 = Ceiling(u, UNION {row.permissions : row \in Sources(u, s, p)})
    BY <1>1, Zenon DEF EffectivePermissions, PermissionsFrom, Sources
  <1>2. ASSUME IInv, NEW u \in Users, NEW s \in Servers, Role[u] # "ADMIN", server[s] = "enabled",
               NEW p \in Paths, NEW x \in EffectivePermissions(grant, member, u, s, p)
        PROVE  \E root \in Roots(u) :
                 root.server = s /\ IsPrefix(root.path, p) /\ x \in root.permissions
    <2> DEFINE held == Held(grant, u, GroupsOf(member, u), s)
               rows == UNION {Held(grant, u, GroupsOf(member, u), t) : t \in {t \in Servers : server[t] = "enabled"}}
               RootAt(h) == [server |-> h.server, path |-> h.path,
                             permissions |-> UNION {RootPermissions(u, k) :
                               k \in {k \in rows : k.server = h.server /\ k.path = h.path}}]
    <2>1. x \in Ceiling(u, UNION {row.permissions : row \in Sources(u, s, p)})
      BY <1>1, <1>2
    <2>2. PICK h \in Sources(u, s, p) : x \in Ceiling(u, h.permissions)
      BY <2>1 DEF Ceiling
    <2>3. h \in held /\ Applies(h, p) /\ h.server = s /\ h \in Row
      BY <1>2, <2>2, Parts DEF Sources, Held, IInv, GrantType
    <2>4. h \in rows
      BY <1>2, <2>3
    <2>5. Roots(u) = {RootAt(k) : k \in rows}
      BY <1>2, Zenon DEF Roots
    <2>6. x \in RootAt(h).permissions
      BY <2>2, <2>4 DEF RootPermissions
    <2>7. RootAt(h).server = s /\ RootAt(h).path = h.path
      BY <2>3
    <2>8. IsPrefix(h.path, p)
      BY <2>3, PathAssumption DEF Applies, IsStrictPrefix, IsPrefix, Row
    <2>9. RootAt(h) \in Roots(u)
      BY <2>4, <2>5
    <2> HIDE DEF rows, RootAt
    <2> QED BY <2>6, <2>7, <2>8, <2>9
  <1>3. ASSUME IInv, NEW u \in Users, NEW s \in Servers, Role[u] # "ADMIN", server[s] = "enabled",
               NEW root \in Roots(u), root.server = s
        PROVE  root.permissions \subseteq EffectivePermissions(grant, member, u, s, root.path)
    <2> SUFFICES ASSUME NEW x \in root.permissions
                 PROVE  x \in EffectivePermissions(grant, member, u, s, root.path)
      OBVIOUS
    <2> DEFINE rows == UNION {Held(grant, u, GroupsOf(member, u), t) : t \in {t \in Servers : server[t] = "enabled"}}
    <2>1. PICK h \in rows :
            root = [server |-> h.server, path |-> h.path,
                    permissions |-> UNION {RootPermissions(u, k) :
                      k \in {k \in rows : k.server = h.server /\ k.path = h.path}}]
      BY <1>3, Zenon DEF Roots
    <2>2. PICK k \in rows : k.server = s /\ k.path = root.path /\ x \in RootPermissions(u, k)
      BY <1>3, <2>1
    <2>3. k \in Held(grant, u, GroupsOf(member, u), s)
      BY <2>2 DEF Held
    <2>4. k \in Sources(u, s, root.path)
      BY <2>2, <2>3 DEF Sources, Applies
    <2>5. x \in Ceiling(u, UNION {row.permissions : row \in Sources(u, s, root.path)})
      BY <2>2, <2>4 DEF Ceiling, RootPermissions
    <2> QED BY <1>3, <2>5, Zenon DEF EffectivePermissions, PermissionsFrom, Sources
  <1>4. IInv => AccessAgrees
    BY <1>1, <1>2, <1>3 DEF AccessAgrees
  <1> QED BY <1>4, Invariance, PTL
-----------------------------------------------------------------------------
(* The two columns of a principal.  What a request is about to write was   *)
(* checked as a pair; only a row that another edit has changed can become  *)
(* a pair that nobody has checked.                                         *)

\* A request that is about to write names a principal that exists or existed.
Checks(q) == q.op \in {"create_grant", "update_grant"} /\ q.pc = "write" => OfOneKind(q)
PairsChecked == \A r \in Requests : Checks(req[r])

\* A step that only moves its own request.
LEMMA ProceedKeepsPairs ==
  ASSUME ReqType, PairsChecked, NEW r \in Requests, NEW q, Checks(q), Proceed(r, q)
  PROVE  PairsChecked'
  <1> SUFFICES ASSUME NEW k \in Requests PROVE Checks(req'[k])
    BY DEF PairsChecked, Checks, OfOneKind
  <1>1. req'[k] = IF k = r THEN q ELSE req[k]
    BY DEF Proceed, ReqType
  <1> QED BY <1>1 DEF PairsChecked

\* A request that neither creates nor updates a grant, or does not write yet.
LEMMA NothingToCheck ==
  ASSUME NEW q, q.op \notin {"create_grant", "update_grant"} \/ q.pc # "write"
  PROVE  Checks(q)
  BY DEF Checks

\* A refused request has nothing to write.
LEMMA RefuseKeepsPairs ==
  ASSUME ReqType, PairsChecked, NEW r \in Requests, Refuse(r)
  PROVE  PairsChecked'
  <1>1. Checks(Idle)
    BY DEF Checks, Idle
  <1> QED BY <1>1, ProceedKeepsPairs DEF Refuse, Proceed

\* A commit changes of the other requests only what running checks have noted.
LEMMA FinishKeepsPairs ==
  ASSUME ReqType, PairsChecked, NEW r \in Requests, Finish(r)
  PROVE  PairsChecked'
  <1> SUFFICES ASSUME NEW k \in Requests PROVE Checks(req'[k])
    BY DEF PairsChecked, Checks, OfOneKind
  <1> DEFINE old == [req EXCEPT ![r] = Idle][k]
  <1>1. old = Idle \/ old = req[k]
    BY DEF ReqType
  <1>2. Checks(old)
    BY <1>1, NothingToCheck DEF PairsChecked, Idle
  <1>3. old \in InFlight
    BY <1>1 DEF ReqType, InFlight
  <1>4. CASE old.op # "access"
    <2>1. req'[k] = old
      BY <1>4 DEF Finish, Noting
    <2> QED BY <1>2, <2>1
  <1>5. CASE old.op = "access"
    <2>1. \E right : req'[k] = [old EXCEPT !.right = right, !.raced = TRUE]
      BY <1>5 DEF Finish, Noting
    <2> HIDE DEF old
    <2>2. req'[k].op = "access"
      BY <1>3, <1>5, <2>1, Kinds DEF Accessing
    <2> QED BY <2>2, NothingToCheck
  <1> QED BY <1>4, <1>5

\* The check of the principal, in the table that its type names.
LEMMA CheckPrincipalKeepsPairs ==
  ASSUME IInv, PairsChecked, NEW r \in Requests, NEW type \in Types, NEW id \in Ids,
         CheckPrincipal(r, type, id)
  PROVE  PairsChecked'
  <1> DEFINE q == [req[r] EXCEPT !.pc = "write", !.principal_type = type, !.principal_id = id]
  <1>1. ReqType /\ GroupType
    BY Parts DEF IInv
  <1>2. req[r] \in Creating \cup Updating
    BY <1>1, Kinds DEF CheckPrincipal, Editing, ReqType
  <1>3. CASE PrincipalThere(type, id)
    <2>1. q.principal_type = type /\ q.principal_id = id
      BY <1>2 DEF Creating, Updating
    <2>2. Proceed(r, q)
      BY <1>3 DEF CheckPrincipal
    <2> HIDE DEF q
    <2>3. Checks(q)
      BY <1>1, <1>3, <2>1 DEF Checks, OfOneKind, PrincipalThere, GroupType
    <2> QED BY <1>1, <2>2, <2>3, ProceedKeepsPairs
  <1>4. CASE ~PrincipalThere(type, id)
    BY <1>1, <1>4, RefuseKeepsPairs DEF CheckPrincipal
  <1> QED BY <1>3, <1>4

\* The check of the server comes before.
LEMMA CheckServerKeepsPairs ==
  ASSUME IInv, PairsChecked, NEW r \in Requests, NEW s \in Servers, CheckServer(r, s)
  PROVE  PairsChecked'
  <1> DEFINE q == [req[r] EXCEPT !.pc = "principal", !.server = s]
  <1>1. ReqType
    BY Parts DEF IInv
  <1>2. req[r] \in Creating \cup Updating
    BY <1>1, Kinds DEF CheckServer, Editing, ReqType
  <1>3. q.pc = "principal"
    BY <1>2 DEF Creating, Updating
  <1>4. Refuse(r) \/ Proceed(r, q)
    BY DEF CheckServer
  <1> HIDE DEF q
  <1> QED BY <1>1, <1>3, <1>4, NothingToCheck, ProceedKeepsPairs, RefuseKeepsPairs

\* A running access check writes nothing.
LEMMA ReadGroupsKeepsPairs ==
  ASSUME IInv, PairsChecked, NEW r \in Requests, ReadGroups(r)
  PROVE  PairsChecked'
  <1> DEFINE q == [req[r] EXCEPT !.groups = GroupsOf(member, req[r].user), !.pc = "grants"]
  <1>1. ReqType
    BY Parts DEF IInv
  <1>2. req[r] \in Accessing
    BY <1>1, Kinds DEF ReadGroups, ReqType
  <1>3. q.op = "access"
    BY <1>2 DEF Accessing
  <1>4. Proceed(r, q)
    BY DEF ReadGroups
  <1> HIDE DEF q
  <1> QED BY <1>1, <1>3, <1>4, NothingToCheck, ProceedKeepsPairs

\* The other reads begin or end a request.
LEMMA ReadsKeepPairs ==
  ASSUME ReqType, PairsChecked, NEW r \in Requests,
         \/ \E g \in Groups : LoadGroup(r, g)
         \/ \E a \in Grants : StartCreate(r, a) \/ LoadGrant(r, a)
         \/ \E s \in Servers, u \in Users, path \in Paths, permission \in Permissions :
              StartAccess(r, u, s, path, permission)
         \/ Decide(r) \/ Answered(r)
  PROVE  PairsChecked'
  <1>1. CASE \E g \in Groups : LoadGroup(r, g)
    BY <1>1, NothingToCheck, ProceedKeepsPairs DEF LoadGroup
  <1>2. CASE \E a \in Grants : StartCreate(r, a)
    BY <1>2, NothingToCheck, ProceedKeepsPairs DEF StartCreate
  <1>3. CASE \E a \in Grants : LoadGrant(r, a)
    BY <1>3, NothingToCheck, ProceedKeepsPairs DEF LoadGrant
  <1>4. CASE \E s \in Servers, u \in Users, path \in Paths, permission \in Permissions :
               StartAccess(r, u, s, path, permission)
    BY <1>4, NothingToCheck, ProceedKeepsPairs DEF StartAccess
  <1>5. CASE Decide(r)
    BY <1>5, NothingToCheck, ProceedKeepsPairs DEF Decide
  <1>6. CASE Answered(r)
    BY <1>6, RefuseKeepsPairs DEF Answered
  <1> QED BY <1>1, <1>2, <1>3, <1>4, <1>5, <1>6

\* The commits, and the writes that are refused instead.
LEMMA CommitsKeepPairs ==
  ASSUME ReqType, PairsChecked, NEW r \in Requests,
         \/ \E g \in Groups, us \in SUBSET Users : CreateGroup(r, g, us) \/ UpdateGroup(r, g, us)
         \/ \E s \in Servers : CreateServer(r, s) \/ SwitchServer(r, s) \/ DeleteServer(r, s)
         \/ \E a \in Grants : DeleteGrant(r, a)
         \/ \E row \in Row : InsertGrant(r, row) \/ WriteGrant(r, row)
         \/ RemoveGroup(r)
  PROVE  PairsChecked'
  <1>1. Finish(r) \/ Refuse(r)
    BY DEF CreateGroup, UpdateGroup, CreateServer, SwitchServer, DeleteServer, DeleteGrant,
           InsertGrant, WriteGrant, RemoveGroup
  <1> QED BY <1>1, FinishKeepsPairs, RefuseKeepsPairs

\* Every step keeps the pairs.
LEMMA StepKeepsPairs == IInv /\ PairsChecked /\ [Next]_vars => PairsChecked'
  <1> SUFFICES ASSUME IInv, PairsChecked, [Next]_vars PROVE PairsChecked'
    OBVIOUS
  <1>1. ReqType
    BY Parts DEF IInv
  <1>2. CASE UNCHANGED vars
    BY <1>2 DEF PairsChecked, Checks, OfOneKind, vars
  <1>3. CASE Next
    BY <1>1, <1>3, CheckPrincipalKeepsPairs, CheckServerKeepsPairs, ReadGroupsKeepsPairs,
       ReadsKeepPairs, CommitsKeepPairs DEF Next
  <1> QED BY <1>2, <1>3

\* An edit of the row it has loaded writes all of its payload.
LEMMA MergedAlone ==
  ASSUME NEW loaded \in Row, NEW new \in Row
  PROVE  /\ Merged(loaded, loaded, new).principal_type = new.principal_type
         /\ Merged(loaded, loaded, new).principal_id = new.principal_id
  <1>1. DOMAIN new = {"principal_type", "principal_id", "server", "path", "permissions", "recursive"}
    BY DEF Row
  <1> QED BY <1>1 DEF Merged

\* A step that writes a grant writes a checked pair, or writes over another edit.
LEMMA StepMixes ==
  ASSUME IInv, PairsChecked, Next, NEW a \in Grants, a \in Granted', grant'[a] # grant[a]
  PROVE  \/ OfOneKind(grant'[a])
         \/ \E r \in Requests : /\ req[r].op = "update_grant" /\ req[r].grant = a
                                /\ req[r].loaded # grant[a] /\ req'[r] = Idle
  <1>1. ReqType /\ GrantType
    BY Parts DEF IInv
  <1>2. grant' # grant
    OBVIOUS
  <1>3. PICK r \in Requests :
          \/ RemoveGroup(r) \/ (\E s \in Servers : DeleteServer(r, s)) \/ \E h \in Grants : DeleteGrant(r, h)
          \/ \E row \in Row : InsertGrant(r, row)
          \/ \E row \in Row : WriteGrant(r, row)
    BY <1>2, GrantWriters
  <1>4. CASE RemoveGroup(r) \/ (\E s \in Servers : DeleteServer(r, s)) \/ \E h \in Grants : DeleteGrant(r, h)
    BY <1>1, <1>4 DEF RemoveGroup, DeleteServer, DeleteGrant, Granted, GrantType
  <1>5. CASE \E row \in Row : InsertGrant(r, row)
    <2>1. PICK row \in Row : InsertGrant(r, row)
      BY <1>5
    <2>2. grant'[a] = row
      BY <1>1, <2>1 DEF InsertGrant, Refuse, GrantType
    <2>3. OfOneKind(row)
      BY <2>1 DEF PairsChecked, Checks, OfOneKind, InsertGrant, Editing, Checked
    <2> QED BY <2>2, <2>3
  <1>6. CASE \E row \in Row : WriteGrant(r, row)
    <2>1. PICK new \in Row : WriteGrant(r, new)
      BY <1>6
    <2>2. req[r] \in Updating /\ OfOneKind(new)
      BY <1>1, <2>1, Kinds DEF PairsChecked, Checks, OfOneKind, WriteGrant, Editing, Checked, ReqType
    <2>3. /\ req[r].grant \in Granted /\ Finish(r)
          /\ grant' = [grant EXCEPT ![req[r].grant] = Merged(grant[req[r].grant], req[r].loaded, new)]
      BY <1>2, <2>1 DEF WriteGrant, Refuse, RowStillThere
    <2>4. req[r].grant = a /\ grant'[a] = Merged(grant[a], req[r].loaded, new)
      BY <1>1, <2>3 DEF GrantType
    <2>5. CASE req[r].loaded = grant[a]
      <3>1. req[r].loaded \in Row
        BY <2>2 DEF Updating
      <3>2. /\ grant'[a].principal_type = new.principal_type
            /\ grant'[a].principal_id = new.principal_id
        BY <2>4, <2>5, <3>1, MergedAlone
      <3> QED BY <2>2, <3>2 DEF OfOneKind
    <2>6. CASE req[r].loaded # grant[a]
      <3>1. req'[r] = Idle
        BY <1>1, <2>3 DEF Finish, Noting, Idle, ReqType
      <3>2. req[r].op = "update_grant"
        BY <2>2 DEF Updating
      <3> QED BY <2>4, <2>6, <3>1, <3>2
    <2> QED BY <2>5, <2>6
  <1> QED BY <1>3, <1>4, <1>5, <1>6

\* The type and the identifier of a grant's principal were checked as a pair, except
\* where an edit writes over another one that was committed since it loaded the row.
THEOREM AccessMixedOnlyByOverlap == Spec => MixedOnlyByOverlap
  <1> DEFINE Paired == \A a \in Grants : a \in Granted' =>
                         \/ OfOneKind(grant'[a]) \/ grant'[a] = grant[a]
                         \/ \E r \in Requests : /\ req[r].op = "update_grant" /\ req[r].grant = a
                                                /\ req[r].loaded # grant[a] /\ req'[r] = Idle
  <1>1. Init => PairsChecked
    BY DEF Init, PairsChecked, Checks, Idle
  <1>2. IInv /\ PairsChecked /\ [Next]_vars => [Paired]_vars
    BY StepMixes, Zenon
  <1> QED BY <1>1, <1>2, StepKeepsPairs, Invariance, PTL DEF Spec, MixedOnlyByOverlap
=============================================================================
