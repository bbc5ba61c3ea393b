------------------------------ MODULE Accounts ------------------------------
(***************************************************************************)
(* Accounts and browser sessions: current_auth and the handlers of         *)
(* sign-up, sign-in, sign-out, password change and user administration in  *)
(* backend/app/main.py.                                                    *)
(*                                                                         *)
(* A request loads its session and its account, marks the session as used  *)
(* (an UPDATE that fails if the session is gone) and goes on with the      *)
(* account it loaded.  A handler loads the account it is about, except its *)
(* own, which the ORM keeps from the authentication, and writes later; the *)
(* ORM writes only the columns that differ from what it loaded.  From its  *)
(* first write to its commit a request holds the write lock of SQLite, so  *)
(* that part is one action.                                                *)
(*                                                                         *)
(* Left out: names, addresses and passwords (a wrong one only refuses the  *)
(* request), the CSRF token, the sign-in throttle, and the roles MANAGER   *)
(* and AUDITOR, which these handlers treat like USER.                      *)
(***************************************************************************)
EXTENDS FiniteSets

CONSTANTS Users,     \* account identifiers
          Root,      \* the account of bootstrap_admin
          Sessions,  \* session identifiers (random, never reused)
          Requests   \* concurrent HTTP requests

\* The marks of a session row that is not there are no account identifiers.
ASSUME AccountsAssumption == Root \in Users /\ "unused" \notin Users /\ "gone" \notin Users

VARIABLES account,  \* committed columns role and state of each User row
          session,  \* owner of each Session row
          expired,  \* sessions past their idle or absolute limit
          revoked,  \* history: sessions there when the sessions of their owner were revoked
          req       \* requests in flight

vars == <<account, session, expired, revoked, req>>
-----------------------------------------------------------------------------
Roles == {"ADMIN", "USER"}
States == {"PENDING_APPROVAL", "ACTIVE", "SUSPENDED", "REJECTED"}
Admitted == {"ACTIVE", "PENDING_APPROVAL"}
ActiveAdmin == [role |-> "ADMIN", state |-> "ACTIVE"]
NoAccount == [role |-> "USER", state |-> "NONE"]
Row == [role : Roles, state : States]
Idle == [pc |-> "idle"]

\* Session rows: not issued yet, gone, or owned by a user.
Live(s) == session[s] \in Users
Exists(u) == account[u] # NoAccount

TypeOK ==
  /\ account \in [Users -> Row \cup {NoAccount}]
  /\ session \in [Sessions -> Users \cup {"unused", "gone"}]
  /\ \A s \in Sessions : s \in expired => session[s] # "unused"
  /\ \A s \in revoked : session[s] = "gone"
  /\ \A r \in Requests :
       /\ req[r].pc \in {"idle", "signin", "session", "user", "in", "check", "write"}
       /\ req[r].pc \in {"user", "in", "check", "write"} => req[r].auth \in Row
       /\ req[r].pc \in {"check", "write"} => req[r].loaded \in Row /\ req[r].new \in Row

Init ==
  /\ account = [u \in Users |-> IF u = Root THEN ActiveAdmin ELSE NoAccount]
  /\ session = [s \in Sessions |-> "unused"]
  /\ expired = {} /\ revoked = {}
  /\ req = [r \in Requests |-> Idle]

End(r) == req' = [req EXCEPT ![r] = Idle]
-----------------------------------------------------------------------------
(* Sign-up, sign-in and the limits of a session *)

SignUp(u) ==
  /\ ~Exists(u)
  /\ account' = [account EXCEPT ![u] = [role |-> "USER", state |-> "PENDING_APPROVAL"]]
  /\ UNCHANGED <<session, expired, revoked, req>>

\* login: the account is loaded and the password is right ...
LoadLogin(r, u) ==
  /\ req[r] = Idle
  /\ account[u].state \in Admitted
  /\ req' = [req EXCEPT ![r] = [pc |-> "signin", u |-> u]]
  /\ UNCHANGED <<account, session, expired, revoked>>

\* ... and the new session is committed.
Login(r, s) ==
  /\ req[r].pc = "signin"
  /\ session[s] = "unused"
  /\ session' = [session EXCEPT ![s] = req[r].u]
  /\ End(r)
  /\ UNCHANGED <<account, expired, revoked>>

Expire(s) ==
  /\ Live(s) /\ s \notin expired
  /\ expired' = expired \cup {s}
  /\ UNCHANGED <<account, session, revoked, req>>
-----------------------------------------------------------------------------
(* current_auth *)

LoadSession(r, s) ==
  /\ req[r] = Idle
  /\ Live(s)
  /\ IF s \in expired
     THEN session' = [session EXCEPT ![s] = "gone"] /\ UNCHANGED req
     ELSE req' = [req EXCEPT ![r] = [pc |-> "session", s |-> s, u |-> session[s]]] /\ UNCHANGED session
  /\ UNCHANGED <<account, expired, revoked>>

LoadUser(r) ==
  LET row == account[req[r].u]
  IN /\ req[r].pc = "session"
     /\ IF row.state \in Admitted
        THEN req' = [req EXCEPT ![r] = [pc |-> "user", s |-> @.s, u |-> @.u, auth |-> row]]
        ELSE End(r)
     /\ UNCHANGED <<account, session, expired, revoked>>

\* last_used_at: the idle limit of a session starts again, the absolute one does not.
Touch(r) ==
  /\ req[r].pc = "user"
  /\ IF Live(req[r].s)
     THEN /\ req' = [req EXCEPT ![r].pc = "in"]
          /\ expired' \in {expired, expired \ {req[r].s}}
     ELSE End(r) /\ UNCHANGED expired
  /\ UNCHANGED <<account, session, revoked>>

\* The handler only reads, refuses (the new address is in use, say), or breaks off.
Answer(r) ==
  /\ req[r].pc \in {"signin", "in", "write"}
  /\ End(r)
  /\ UNCHANGED <<account, session, expired, revoked>>
-----------------------------------------------------------------------------
(* Handlers that only touch sessions *)

IsActive(r) == req[r].auth.state = "ACTIVE"
IsAdmin(r) == req[r].auth = ActiveAdmin

Logout(r) ==
  /\ req[r].pc = "in"
  /\ session' = [session EXCEPT ![req[r].s] = "gone"]
  /\ End(r)
  /\ UNCHANGED <<account, expired, revoked>>

\* Mutant: only the sessions within their limits are deleted.
RevokeUnexpired(u) ==
  /\ session' = [s \in Sessions |-> IF session[s] = u /\ s \notin expired THEN "gone" ELSE session[s]]
  /\ revoked' = revoked \cup {s \in Sessions : session[s] = u}

\* DELETE FROM sessions WHERE user_id = u
Revoke(u) ==
  /\ session' = [s \in Sessions |-> IF session[s] = u THEN "gone" ELSE session[s]]
  /\ revoked' = revoked \cup {s \in Sessions : session[s] = u}

ChangePassword(r) ==
  /\ req[r].pc = "in" /\ IsActive(r)
  /\ Revoke(req[r].u)
  /\ End(r)
  /\ UNCHANGED <<account, expired>>

RevokeUserSessions(r, t) ==
  /\ req[r].pc = "in" /\ IsAdmin(r)
  /\ Exists(t)
  /\ Revoke(t)
  /\ End(r)
  /\ UNCHANGED <<account, expired>>
-----------------------------------------------------------------------------
(* update_user, approve_user, reject_user *)

\* The row a handler finds: its own account is the one of the authentication.
Found(r, t) == IF t = req[r].u THEN req[r].auth ELSE account[t]

\* Mutant: anybody may change the role and the state of the own account.
MayUpdateSelf(r, t, new) == IsAdmin(r) \/ (req[r].auth.role # "ADMIN" /\ IsActive(r) /\ t = req[r].u)

\* Who may update t to new: an administrator, or t its own name and address.
MayUpdate(r, t, new) ==
  \/ IsAdmin(r)
  \/ req[r].auth.role # "ADMIN" /\ IsActive(r) /\ t = req[r].u /\ new = Found(r, t)

Load(r, op, t, new, pc) ==
  req' = [req EXCEPT ![r] = [pc |-> pc, op |-> op, auth |-> @.auth,
                             t |-> t, loaded |-> Found(r, t), new |-> new]]

\* update_user.  Who takes an active administrator out of office must look for another one.
LoadForUpdate(r, t, new) ==
  /\ req[r].pc = "in" /\ Exists(t)
  /\ MayUpdate(r, t, new)
  /\ Load(r, "update", t, new, IF Found(r, t) = ActiveAdmin /\ new # ActiveAdmin THEN "check" ELSE "write")
  /\ UNCHANGED <<account, session, expired, revoked>>

CheckLastAdmin(r) ==
  /\ req[r].pc = "check"
  /\ IF \E u \in Users \ {req[r].t} : account[u] = ActiveAdmin
     THEN req' = [req EXCEPT ![r].pc = "write"]
     ELSE End(r)
  /\ UNCHANGED <<account, session, expired, revoked>>

LoadForApproval(r, t, role) ==
  /\ req[r].pc = "in" /\ IsAdmin(r) /\ Exists(t)
  /\ Load(r, "approve", t, [role |-> role, state |-> "ACTIVE"], "write")
  /\ UNCHANGED <<account, session, expired, revoked>>

LoadForRejection(r, t) ==
  /\ req[r].pc = "in" /\ IsAdmin(r) /\ Exists(t)
  /\ Found(r, t) # ActiveAdmin
  /\ Load(r, "reject", t, [Found(r, t) EXCEPT !.state = "REJECTED"], "write")
  /\ UNCHANGED <<account, session, expired, revoked>>

\* Mutant: an update ends the sessions of its account only if the role changes.
EndsSessionsByRole(r) == \/ req[r].op = "reject"
                         \/ req[r].op = "update" /\ req[r].new.role # req[r].loaded.role

\* An approval leaves the sessions of its account alone.
EndsSessions(r) == \/ req[r].op = "reject"
                   \/ req[r].op = "update" /\ req[r].new # req[r].loaded

Column(loaded, new, current) == IF new # loaded THEN new ELSE current

Commit(r) ==
  LET t == req[r].t
  IN /\ req[r].pc = "write"
     /\ account' = [account EXCEPT ![t] =
          [role |-> Column(req[r].loaded.role, req[r].new.role, @.role),
           state |-> Column(req[r].loaded.state, req[r].new.state, @.state)]]
     /\ IF EndsSessions(r) THEN Revoke(t) ELSE UNCHANGED <<session, revoked>>
     /\ End(r)
     /\ UNCHANGED expired
-----------------------------------------------------------------------------
Handle(r) ==
  \/ LoadUser(r) \/ Touch(r) \/ Answer(r) \/ Logout(r) \/ ChangePassword(r)
  \/ \E t \in Users : \/ RevokeUserSessions(r, t)
                      \/ \E new \in Row : LoadForUpdate(r, t, new)
                      \/ \E role \in Roles : LoadForApproval(r, t, role)
                      \/ LoadForRejection(r, t)
  \/ CheckLastAdmin(r) \/ Commit(r)

Next ==
  \/ \E u \in Users : SignUp(u)
  \/ \E s \in Sessions : Expire(s)
  \/ \E r \in Requests : \/ \E u \in Users : LoadLogin(r, u)
                         \/ \E s \in Sessions : Login(r, s) \/ LoadSession(r, s)
                         \/ Handle(r)

Spec == Init /\ [][Next]_vars
-----------------------------------------------------------------------------
(* Properties *)

\* Nobody gets past current_auth whose account is suspended or rejected by then or
\* whose session has been revoked, although session and account are loaded one after
\* the other and a sign-in that was under way may leave a session behind: an account
\* that is blocked after it was loaded loses its sessions in the same transaction,
\* and the UPDATE of the session notices.
EntryIsCurrent ==
  [][\A r \in Requests : req[r].pc = "user" /\ req'[r].pc = "in" =>
       account[req[r].u].state \in Admitted /\ req[r].s \notin revoked]_vars

\* A role or a state changes only to what a request of an active administrator asked
\* for: an edit of a profile, or an approval that loaded an older row, never brings back
\* a column that somebody else has changed meanwhile (update_user, approve_user).
Asked(r, u, column) ==
  /\ req[r].pc = "write" /\ req[r].t = u /\ req'[r] = Idle
  /\ req[r].auth = ActiveAdmin
  /\ account'[u][column] = req[r].new[column] /\ req[r].new[column] # req[r].loaded[column]
OnlyAdminsDecide ==
  [][\A u \in Users, column \in {"role", "state"} :
       Exists(u) /\ account'[u][column] # account[u][column] => \E r \in Requests : Asked(r, u, column)]_vars

\* "The system must always retain at least one active Admin"
\* (spec/02-identity-and-access.md:151).  update_user looks for another one before it
\* writes; approve_user does not, and gives its account the role USER by default.
SomeAdminActive == \E u \in Users : account[u] = ActiveAdmin
=============================================================================
