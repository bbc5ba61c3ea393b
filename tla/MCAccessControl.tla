--------------------------- MODULE MCAccessControl ---------------------------
(***************************************************************************)
(* Instances of AccessControl for TLC.                                     *)
(***************************************************************************)
EXTENDS AccessControl, TLC

CONSTANTS u1, au, g1, s1, a1, a2, r1, r2

MCRole == [u \in {u1, au} |-> IF u = au THEN "AUDITOR" ELSE "USER"]
MCPaths == {<<>>, <<"a">>}
MCGrants == {a1, a2}
MCRequests == {r1, r2}
MCPayloads == {{"LIST"}, {"UPLOAD"}}

\* Two requests edit grants in several steps at once only if both have loaded the
\* same plain grant (which is enough to mix the principals of two edits in a row),
\* and with two grants in the table no request is followed beyond its first step.
Editor(r) == req[r].op \in {"create_grant", "update_grant"}
Plain(row) == row.path = <<>> /\ row.permissions = {"LIST"} /\ row.recursive
OneGrant == \A r \in Requests :
  req[r].op = "update_grant" /\ req[r].grant = req[r1].grant /\ Plain(req[r].loaded)
Few ==
  /\ Editor(r1) /\ Editor(r2) => OneGrant
  /\ Cardinality({a \in Grants : grant[a] # NoGrant}) = 2 => \A r \in Requests : req[r] = Idle
Interchangeable == Permutations(MCGrants) \cup Permutations(MCRequests)
=============================================================================
