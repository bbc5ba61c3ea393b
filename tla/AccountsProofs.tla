--------------------------- MODULE AccountsProofs ---------------------------
(***************************************************************************)
(* Proofs about Accounts, for every set of accounts, sessions and          *)
(* concurrent requests.                                                    *)
(*                                                                         *)
(* What makes current_auth safe is a relation between a request that has   *)
(* loaded its account and the session it came with: as long as the session *)
(* row is there, the account is still one that may enter (Current).  It    *)
(* holds because a session never changes its owner (Owned) and because a   *)
(* transaction that blocks an account takes the sessions with it; an       *)
(* approval, which leaves them alone, only ever makes an account active    *)
(* (Decisions).                                                            *)
(***************************************************************************)
EXTENDS Accounts, TLAPS

IdleType == [pc : {"idle"}]
SigninType == [pc : {"signin"}, u : Users]
SessionType == [pc : {"session"}, s : Sessions, u : Users]
UserType == [pc : {"user", "in"}, s : Sessions, u : Users, auth : Row]
WriteType == [pc : {"check", "write"}, op : {"update", "approve", "reject"},
              auth : Row, t : Users, loaded : Row, new : Row]
ReqType == IdleType \cup SigninType \cup SessionType \cup UserType \cup WriteType

\* The variables as functions and sets.
Shape ==
  /\ account \in [Users -> Row \cup {NoAccount}]
  /\ session \in [Sessions -> Users \cup {"unused", "gone"}]
  /\ expired \subseteq Sessions /\ revoked \subseteq Sessions
  /\ req \in [Requests -> ReqType]

\* The history of revocations and the limits belong to sessions that were issued.
Issued == /\ \A s \in expired : session[s] # "unused"
          /\ \A s \in revoked : session[s] = "gone"

\* The session of a request is still that of its account, or gone.
OwnedBy(q) == q.pc \in {"session", "user", "in"} => session[q.s] \in {q.u, "gone"}
Owned == \A r \in Requests : OwnedBy(req[r])

\* An account that may enter stays so until its sessions are gone.
CurrentIn(q) == q.pc = "user" /\ Live(q.s) => account[q.u].state \in Admitted
Current == \A r \in Requests : CurrentIn(req[r])

\* A request that writes finds the row, and was made by an active administrator or changes nothing;
\* an approval makes its account active.
DecidedBy(q) ==
  q.pc \in {"check", "write"} => /\ Exists(q.t)
                                 /\ q.auth = ActiveAdmin \/ q.new = q.loaded
                                 /\ q.op = "approve" => q.new.state = "ACTIVE"
Decisions == \A r \in Requests : DecidedBy(req[r])

IInv == Shape /\ Issued /\ Owned /\ Current /\ Decisions
-----------------------------------------------------------------------------
\* The row of no account is none, and marks no session.
LEMMA Marks ==
  /\ NoAccount \notin Row
  /\ Admitted \subseteq States /\ "NONE" \notin Admitted
  /\ ActiveAdmin \in Row /\ "ACTIVE" \in Admitted /\ "PENDING_APPROVAL" \in Admitted
BY DEF NoAccount, Row, Roles, States, Admitted, ActiveAdmin

\* What the program counter of a request says of its other fields.
LEMMA ReqFacts ==
  ASSUME NEW q \in ReqType
  PROVE  /\ q.pc = "idle" => q = Idle
         /\ q.pc = "signin" => q \in SigninType /\ q.u \in Users
         /\ q.pc = "session" => q \in SessionType /\ q.s \in Sessions /\ q.u \in Users
         /\ q.pc \in {"user", "in"} =>
              q \in UserType /\ q.s \in Sessions /\ q.u \in Users /\ q.auth \in Row
         /\ q.pc \in {"check", "write"} =>
              /\ q \in WriteType /\ q.op \in {"update", "approve", "reject"}
              /\ q.auth \in Row /\ q.t \in Users /\ q.loaded \in Row /\ q.new \in Row
BY DEF ReqType, IdleType, SigninType, SessionType, UserType, WriteType, Idle

\* The type invariant is the part of the inductive one that mentions no history.
LEMMA TypeFollows == Shape /\ Issued => TypeOK
<1> SUFFICES ASSUME Shape, Issued PROVE TypeOK
  OBVIOUS
<1>1. ASSUME NEW r \in Requests
      PROVE  /\ req[r].pc \in {"idle", "signin", "session", "user", "in", "check", "write"}
             /\ req[r].pc \in {"user", "in", "check", "write"} => req[r].auth \in Row
             /\ req[r].pc \in {"check", "write"} => req[r].loaded \in Row /\ req[r].new \in Row
  <2>1. req[r] \in ReqType
    BY DEF Shape
  <2>2. req[r].pc \in {"idle", "signin", "session", "user", "in", "check", "write"}
    BY <2>1 DEF ReqType, IdleType, SigninType, SessionType, UserType, WriteType
  <2> QED
    BY <2>1, <2>2, ReqFacts
<1> QED
  BY <1>1 DEF TypeOK, Shape, Issued

\* The invariant holds at first.
LEMMA InitIInv == Init => IInv
<1> SUFFICES ASSUME Init PROVE IInv
  OBVIOUS
<1>1. Idle \in ReqType /\ Idle.pc = "idle"
  BY DEF Idle, ReqType, IdleType
<1>2. Shape
  BY <1>1, Marks DEF Init, Shape
<1>3. Issued
  BY DEF Init, Issued
<1>4. Owned /\ Current /\ Decisions
  BY <1>1 DEF Init, Owned, Current, Decisions, OwnedBy, CurrentIn, DecidedBy
<1> QED
  BY <1>2, <1>3, <1>4 DEF IInv
-----------------------------------------------------------------------------
\* A step that only moves one request keeps the invariant if it holds of the new record.
LEMMA ReqStep ==
  ASSUME IInv, NEW r \in Requests, NEW q \in ReqType,
         OwnedBy(q), CurrentIn(q), DecidedBy(q),
         req' = [req EXCEPT ![r] = q],
         expired' \subseteq expired,
         UNCHANGED <<account, session, revoked>>
  PROVE  IInv'
<1>1. \A x \in Requests : req'[x] = IF x = r THEN q ELSE req[x]
  BY DEF IInv, Shape
<1>2. Shape'
  BY DEF IInv, Shape
<1>3. Issued'
  BY DEF IInv, Issued
<1>4. \A x \in Requests : OwnedBy(req'[x]) /\ CurrentIn(req'[x]) /\ DecidedBy(req'[x])
  BY <1>1 DEF IInv, Owned, Current, Decisions
<1>5. Owned' /\ Current' /\ Decisions'
  BY <1>4 DEF Owned, Current, Decisions, OwnedBy, CurrentIn, DecidedBy, Live, Exists
<1> QED
  BY <1>2, <1>3, <1>5 DEF IInv

\* A step that ends at most one request keeps the invariant if a session changes its
\* owner only when it is issued and an account that is blocked is left without sessions.
LEMMA WorldStep ==
  ASSUME IInv,
         req' = req \/ \E r \in Requests : req' = [req EXCEPT ![r] = Idle],
         account' \in [Users -> Row \cup {NoAccount}],
         session' \in [Sessions -> Users \cup {"unused", "gone"}],
         expired' \subseteq Sessions, revoked' \subseteq Sessions, Issued',
         \A s \in Sessions : session[s] = "unused" \/ session'[s] \in {session[s], "gone"},
         \A u \in Users : account[u].state \in Admitted =>
            account'[u].state \in Admitted \/ \A s \in Sessions : session'[s] # u,
         \A u \in Users : Exists(u) => account'[u] # NoAccount
  PROVE  IInv'
<1>0. Idle \in ReqType /\ Idle.pc = "idle"
  BY DEF Idle, ReqType, IdleType
<1>1. Shape' /\ \A x \in Requests : req'[x] \in {req[x], Idle}
  BY <1>0 DEF IInv, Shape
<1>2. ASSUME NEW x \in Requests
      PROVE  OwnedBy(req[x])' /\ CurrentIn(req[x])' /\ DecidedBy(req[x])'
  <2>1. CASE req'[x] = Idle
    BY <1>0, <2>1 DEF OwnedBy, CurrentIn, DecidedBy
  <2>2. CASE req'[x] = req[x]
    <3> DEFINE q == req[x]
    <3>1. q \in ReqType /\ OwnedBy(q) /\ CurrentIn(q) /\ DecidedBy(q)
      BY DEF IInv, Shape, Owned, Current, Decisions
    <3>2. q' = q
      BY <2>2
    <3> HIDE DEF q
    <3>3. DecidedBy(q)'
      BY <3>1, <3>2, ReqFacts DEF DecidedBy, Exists
    <3>4. ASSUME q.pc \in {"session", "user", "in"}
          PROVE  q.s \in Sessions /\ q.u \in Users /\ session[q.s] \in {q.u, "gone"}
                 /\ session'[q.s] \in {q.u, "gone"} /\ (Live(q.s)' => Live(q.s) /\ session'[q.s] = q.u)
      <4>1. q.s \in Sessions /\ q.u \in Users
        BY <3>1, <3>4, ReqFacts
      <4>2. session[q.s] \in {q.u, "gone"}
        BY <3>1, <3>4 DEF OwnedBy
      <4>3. session'[q.s] \in {q.u, "gone"}
        BY <4>1, <4>2, AccountsAssumption
      <4> QED
        BY <4>1, <4>2, <4>3, <3>2, AccountsAssumption DEF Live
    <3>5. OwnedBy(q)'
      BY <3>2, <3>4 DEF OwnedBy
    <3>6. CurrentIn(q)'
      BY <3>1, <3>2, <3>4 DEF CurrentIn
    <3> QED
      BY <3>3, <3>5, <3>6 DEF q
  <2> QED
    BY <1>1, <2>1, <2>2
<1> QED
  BY <1>1, <1>2 DEF IInv, Owned, Current, Decisions
-----------------------------------------------------------------------------
(* One lemma per action *)

\* SignUp: the account is new, and its state one that may enter.
LEMMA SignUpStep == ASSUME IInv, NEW u \in Users, SignUp(u) PROVE IInv'
<1>1. [role |-> "USER", state |-> "PENDING_APPROVAL"] \in Row
  BY DEF Row, Roles, States
<1>2. Issued'
  BY DEF SignUp, IInv, Issued
<1>3. \A x \in Users : account'[x].state \in Admitted \/ account'[x] = account[x]
  BY DEF SignUp, IInv, Shape, Admitted
<1> QED
  BY <1>1, <1>2, <1>3, WorldStep DEF SignUp, IInv, Shape, Exists

\* LoadLogin: nothing depends on the account that is signing in.
LEMMA LoadLoginStep == ASSUME IInv, NEW r \in Requests, NEW u \in Users, LoadLogin(r, u) PROVE IInv'
<1> DEFINE q == [pc |-> "signin", u |-> u]
<1>1. q \in ReqType /\ q.pc = "signin"
  BY DEF ReqType, SigninType
<1>2. req' = [req EXCEPT ![r] = q] /\ expired' = expired /\ UNCHANGED <<account, session, revoked>>
  BY DEF LoadLogin
<1> HIDE DEF q
<1>3. OwnedBy(q) /\ CurrentIn(q) /\ DecidedBy(q)
  BY <1>1 DEF OwnedBy, CurrentIn, DecidedBy
<1> QED
  BY <1>1, <1>2, <1>3, ReqStep

\* Login: a session that was never issued gets its owner.
LEMMA LoginStep == ASSUME IInv, NEW r \in Requests, NEW s \in Sessions, Login(r, s) PROVE IInv'
<1>1. req[r] \in ReqType /\ req[r].pc = "signin"
  BY DEF Login, IInv, Shape
<1>2. req[r].u \in Users
  BY <1>1, ReqFacts
<1>3. Issued'
  BY <1>2, AccountsAssumption DEF Login, IInv, Shape, Issued
<1> QED
  BY <1>2, <1>3, WorldStep DEF Login, End, IInv, Shape, Exists

\* Expire: the limit of a session that was issued passes.
LEMMA ExpireStep == ASSUME IInv, NEW s \in Sessions, Expire(s) PROVE IInv'
<1>1. Issued'
  BY AccountsAssumption DEF Expire, Live, IInv, Shape, Issued
<1> QED
  BY <1>1, WorldStep DEF Expire, IInv, Shape, Exists

\* LoadSession: the request takes the owner from the row, or deletes the row.
LEMMA LoadSessionStep == ASSUME IInv, NEW r \in Requests, NEW s \in Sessions, LoadSession(r, s) PROVE IInv'
<1>1. CASE s \in expired
  <2>1. session' = [session EXCEPT ![s] = "gone"] /\ UNCHANGED <<account, expired, revoked, req>>
    BY <1>1 DEF LoadSession
  <2>2. Issued'
    BY <2>1 DEF IInv, Shape, Issued
  <2> QED
    BY <2>1, <2>2, WorldStep DEF IInv, Shape, Exists
<1>2. CASE s \notin expired
  <2> DEFINE q == [pc |-> "session", s |-> s, u |-> session[s]]
  <2>1. session[s] \in Users
    BY DEF LoadSession, Live
  <2>2. q \in ReqType /\ q.pc = "session" /\ q.s = s /\ q.u = session[s]
    BY <2>1 DEF ReqType, SessionType
  <2>3. req' = [req EXCEPT ![r] = q] /\ expired' = expired /\ UNCHANGED <<account, session, revoked>>
    BY <1>2 DEF LoadSession
  <2> HIDE DEF q
  <2>4. OwnedBy(q) /\ CurrentIn(q) /\ DecidedBy(q)
    BY <2>2 DEF OwnedBy, CurrentIn, DecidedBy
  <2> QED
    BY <2>2, <2>3, <2>4, ReqStep
<1> QED
  BY <1>1, <1>2

\* LoadUser: the account loaded is one that may enter, or the request ends.
LEMMA LoadUserStep == ASSUME IInv, NEW r \in Requests, LoadUser(r) PROVE IInv'
<1> DEFINE p == req[r]
           row == account[p.u]
<1>1. p \in ReqType /\ p.pc = "session" /\ OwnedBy(p)
  BY DEF LoadUser, IInv, Shape, Owned
<1>2. p.s \in Sessions /\ p.u \in Users
  BY <1>1, ReqFacts
<1>3. CASE row.state \in Admitted
  <2> DEFINE q == [pc |-> "user", s |-> p.s, u |-> p.u, auth |-> row]
  <2>1. row \in Row
    BY <1>2, <1>3, Marks DEF IInv, Shape, NoAccount
  <2>2. q \in ReqType /\ q.pc = "user" /\ q.s = p.s /\ q.u = p.u
    BY <1>2, <2>1 DEF ReqType, UserType
  <2>3. req' = [req EXCEPT ![r] = q] /\ expired' = expired /\ UNCHANGED <<account, session, revoked>>
    BY <1>3 DEF LoadUser
  <2>4. account[q.u].state \in Admitted
    BY <1>3
  <2> HIDE DEF q
  <2>5. OwnedBy(q) /\ CurrentIn(q) /\ DecidedBy(q)
    BY <1>1, <2>2, <2>4 DEF OwnedBy, CurrentIn, DecidedBy
  <2> QED
    BY <2>2, <2>3, <2>5, ReqStep
<1>4. CASE row.state \notin Admitted
  <2>1. req' = [req EXCEPT ![r] = Idle] /\ UNCHANGED <<account, session, expired, revoked>>
    BY <1>4 DEF LoadUser, End
  <2> QED
    BY <2>1, WorldStep DEF IInv, Shape, Issued, Exists
<1> QED
  BY <1>3, <1>4

\* Touch: the request goes on with what it loaded, or ends if the session is gone.
LEMMA TouchStep == ASSUME IInv, NEW r \in Requests, Touch(r) PROVE IInv'
<1> DEFINE p == req[r]
<1>1. p \in ReqType /\ p.pc = "user" /\ OwnedBy(p)
  BY DEF Touch, IInv, Shape, Owned
<1>2. p \in UserType /\ p.s \in Sessions
  BY <1>1, ReqFacts
<1>3. CASE Live(p.s)
  <2> DEFINE q == [p EXCEPT !.pc = "in"]
  <2>1. q \in ReqType /\ q.pc = "in" /\ q.s = p.s /\ q.u = p.u
    BY <1>2 DEF ReqType, UserType
  <2>2. req' = [req EXCEPT ![r] = q] /\ expired' \subseteq expired /\ UNCHANGED <<account, session, revoked>>
    BY <1>3 DEF Touch, IInv, Shape
  <2> HIDE DEF q
  <2>3. OwnedBy(q) /\ CurrentIn(q) /\ DecidedBy(q)
    BY <1>1, <2>1 DEF OwnedBy, CurrentIn, DecidedBy
  <2> QED
    BY <2>1, <2>2, <2>3, ReqStep
<1>4. CASE ~Live(p.s)
  <2>1. req' = [req EXCEPT ![r] = Idle] /\ UNCHANGED <<account, session, expired, revoked>>
    BY <1>4 DEF Touch, End
  <2> QED
    BY <2>1, WorldStep DEF IInv, Shape, Issued, Exists
<1> QED
  BY <1>3, <1>4

\* Answer: the request ends.
LEMMA AnswerStep == ASSUME IInv, NEW r \in Requests, Answer(r) PROVE IInv'
BY WorldStep DEF Answer, End, IInv, Shape, Issued, Exists

\* Logout: the session of the request goes.
LEMMA LogoutStep == ASSUME IInv, NEW r \in Requests, Logout(r) PROVE IInv'
<1>1. req[r].s \in Sessions
  BY ReqFacts DEF Logout, IInv, Shape
<1>2. req[r].pc = "in" /\ session[req[r].s] # "unused"
  BY ReqFacts, AccountsAssumption DEF Logout, IInv, Shape, Owned, OwnedBy
<1>3. Issued'
  BY <1>1, <1>2 DEF Logout, IInv, Shape, Issued
<1> QED
  BY <1>1, <1>3, WorldStep DEF Logout, End, IInv, Shape, Exists

\* What a revocation does to the sessions.
LEMMA Revoked ==
  ASSUME IInv, NEW u \in Users, Revoke(u), expired' = expired
  PROVE  /\ session' \in [Sessions -> Users \cup {"unused", "gone"}]
         /\ revoked' \subseteq Sessions
         /\ Issued'
         /\ \A s \in Sessions : session'[s] \in {session[s], "gone"}
         /\ \A s \in Sessions : session'[s] # u
BY AccountsAssumption DEF Revoke, IInv, Shape, Issued

\* ChangePassword: the sessions of the own account go.
LEMMA ChangePasswordStep == ASSUME IInv, NEW r \in Requests, ChangePassword(r) PROVE IInv'
<1>1. req[r].u \in Users
  BY ReqFacts DEF ChangePassword, IInv, Shape
<1>2. Revoke(req[r].u) /\ req' = [req EXCEPT ![r] = Idle] /\ UNCHANGED <<account, expired>>
  BY DEF ChangePassword, End
<1> QED
  BY <1>1, <1>2, Revoked, WorldStep DEF IInv, Shape, Exists

\* RevokeUserSessions: the sessions of another account go.
LEMMA RevokeUserSessionsStep ==
  ASSUME IInv, NEW r \in Requests, NEW t \in Users, RevokeUserSessions(r, t) PROVE IInv'
<1>1. Revoke(t) /\ req' = [req EXCEPT ![r] = Idle] /\ UNCHANGED <<account, expired>>
  BY DEF RevokeUserSessions, End
<1> QED
  BY <1>1, Revoked, WorldStep DEF IInv, Shape, Exists

\* The row a handler finds is a row, its own or the stored one.
LEMMA FoundRow ==
  ASSUME IInv, NEW r \in Requests, NEW t \in Users, req[r].pc = "in", Exists(t)
  PROVE  Found(r, t) \in Row /\ req[r].auth \in Row
<1>1. req[r].auth \in Row
  BY ReqFacts DEF IInv, Shape
<1>2. account[t] \in Row
  BY DEF Exists, IInv, Shape
<1> QED
  BY <1>1, <1>2 DEF Found

\* A handler that loads a row keeps the invariant if it may make the change.
LEMMA LoadStep ==
  ASSUME IInv, NEW r \in Requests, NEW t \in Users, NEW new \in Row,
         NEW op \in {"update", "approve", "reject"}, NEW pc \in {"check", "write"},
         req[r].pc = "in", Exists(t), Load(r, op, t, new, pc),
         req[r].auth = ActiveAdmin \/ new = Found(r, t),
         op = "approve" => new.state = "ACTIVE",
         UNCHANGED <<account, session, expired, revoked>>
  PROVE  IInv'
<1> DEFINE q == [pc |-> pc, op |-> op, auth |-> req[r].auth, t |-> t, loaded |-> Found(r, t), new |-> new]
<1>1. Found(r, t) \in Row /\ req[r].auth \in Row
  BY FoundRow
<1>2. q \in ReqType
  BY <1>1 DEF ReqType, WriteType
<1>3. q.pc \in {"check", "write"} /\ DecidedBy(q)
  BY DEF DecidedBy, Exists
<1>4. req' = [req EXCEPT ![r] = q] /\ expired' = expired
  BY DEF Load, IInv, Shape
<1> HIDE DEF q
<1>5. OwnedBy(q) /\ CurrentIn(q)
  BY <1>3 DEF OwnedBy, CurrentIn
<1> QED
  BY <1>2, <1>3, <1>4, <1>5, ReqStep

\* LoadForUpdate: who is no administrator leaves the row as it was found.
LEMMA LoadForUpdateStep ==
  ASSUME IInv, NEW r \in Requests, NEW t \in Users, NEW new \in Row, LoadForUpdate(r, t, new) PROVE IInv'
<1> DEFINE pc == IF Found(r, t) = ActiveAdmin /\ new # ActiveAdmin THEN "check" ELSE "write"
<1>1. req[r].pc = "in" /\ Exists(t) /\ pc \in {"check", "write"}
      /\ Load(r, "update", t, new, pc) /\ UNCHANGED <<account, session, expired, revoked>>
  BY DEF LoadForUpdate
<1>2. req[r].auth = ActiveAdmin \/ new = Found(r, t)
  BY DEF LoadForUpdate, MayUpdate, IsAdmin
<1> HIDE DEF pc
<1> QED
  BY <1>1, <1>2, LoadStep

\* CheckLastAdmin: the request goes on to write or ends.
LEMMA CheckLastAdminStep == ASSUME IInv, NEW r \in Requests, CheckLastAdmin(r) PROVE IInv'
<1> DEFINE p == req[r]
           q == [p EXCEPT !.pc = "write"]
<1>1. p \in ReqType /\ p.pc = "check" /\ DecidedBy(p)
  BY DEF CheckLastAdmin, IInv, Shape, Decisions
<1>2. p \in WriteType
  BY <1>1, ReqFacts
<1>3. q \in ReqType /\ q.pc = "write" /\ q.auth = p.auth /\ q.new = p.new /\ q.loaded = p.loaded /\ q.op = p.op /\ q.t = p.t
  BY <1>2 DEF ReqType, WriteType
<1>4. UNCHANGED <<account, session, expired, revoked>>
      /\ (req' = [req EXCEPT ![r] = q] \/ req' = [req EXCEPT ![r] = Idle])
  BY DEF CheckLastAdmin, End, IInv, Shape
<1> HIDE DEF q
<1>5. OwnedBy(q) /\ CurrentIn(q) /\ DecidedBy(q)
  BY <1>1, <1>3 DEF OwnedBy, CurrentIn, DecidedBy
<1>6. CASE req' = [req EXCEPT ![r] = q]
  BY <1>3, <1>4, <1>5, <1>6, ReqStep
<1>7. CASE req' = [req EXCEPT ![r] = Idle]
  BY <1>4, <1>7, WorldStep DEF IInv, Shape, Issued, Exists
<1> QED
  BY <1>4, <1>6, <1>7

\* LoadForApproval: an administrator, and the account becomes active.
LEMMA LoadForApprovalStep ==
  ASSUME IInv, NEW r \in Requests, NEW t \in Users, NEW role \in Roles, LoadForApproval(r, t, role) PROVE IInv'
<1> DEFINE new == [role |-> role, state |-> "ACTIVE"]
<1>1. new \in Row /\ new.state = "ACTIVE"
  BY DEF Row, States
<1>2. req[r].pc = "in" /\ Exists(t) /\ req[r].auth = ActiveAdmin
      /\ Load(r, "approve", t, new, "write") /\ UNCHANGED <<account, session, expired, revoked>>
  BY DEF LoadForApproval, IsAdmin
<1> HIDE DEF new
<1> QED
  BY <1>1, <1>2, LoadStep

\* LoadForRejection: an administrator.
LEMMA LoadForRejectionStep ==
  ASSUME IInv, NEW r \in Requests, NEW t \in Users, LoadForRejection(r, t) PROVE IInv'
<1> DEFINE new == [Found(r, t) EXCEPT !.state = "REJECTED"]
<1>1. req[r].pc = "in" /\ Exists(t) /\ req[r].auth = ActiveAdmin
      /\ Load(r, "reject", t, new, "write") /\ UNCHANGED <<account, session, expired, revoked>>
  BY DEF LoadForRejection, IsAdmin
<1>2. new \in Row
  BY <1>1, FoundRow DEF Row, States
<1> HIDE DEF new
<1> QED
  BY <1>1, <1>2, LoadStep

\* Commit: an account that is blocked by it loses its sessions in the same step.
LEMMA CommitStep == ASSUME IInv, NEW r \in Requests, Commit(r) PROVE IInv'
<1> DEFINE q == req[r]
           row == [role |-> Column(q.loaded.role, q.new.role, account[q.t].role),
                   state |-> Column(q.loaded.state, q.new.state, account[q.t].state)]
<1>1. q \in ReqType /\ q.pc = "write" /\ DecidedBy(q)
  BY DEF Commit, IInv, Shape, Decisions
<1>2. /\ q.op \in {"update", "approve", "reject"} /\ q.t \in Users
      /\ q.loaded \in Row /\ q.new \in Row
  BY <1>1, ReqFacts
<1>3. account' = [account EXCEPT ![q.t] = row] /\ expired' = expired /\ req' = [req EXCEPT ![r] = Idle]
  BY DEF Commit, End
<1>4. account[q.t] \in Row
  BY <1>1, <1>2 DEF DecidedBy, Exists, IInv, Shape
<1>5. row \in Row /\ row # NoAccount
  BY <1>2, <1>4, Marks DEF Row, Column
<1>6. account' \in [Users -> Row \cup {NoAccount}]
      /\ \A u \in Users : Exists(u) => account'[u] # NoAccount
  BY <1>2, <1>3, <1>5 DEF IInv, Shape, Exists
<1>7. CASE EndsSessions(r)
  <2>1. Revoke(q.t)
    BY <1>7 DEF Commit
  <2>2. \A u \in Users : account'[u] = account[u] \/ u = q.t
    BY <1>2, <1>3 DEF IInv, Shape
  <2> QED
    BY <1>2, <1>3, <1>6, <2>1, <2>2, Revoked, WorldStep DEF IInv, Shape, Exists
<1>8. CASE ~EndsSessions(r)
  <2>1. UNCHANGED <<session, revoked>>
    BY <1>8 DEF Commit
  <2>2. row.state = account[q.t].state \/ row.state = "ACTIVE"
    BY <1>1, <1>2, <1>8 DEF EndsSessions, DecidedBy, Column
  <2>3. \A u \in Users : account'[u].state \in {account[u].state, "ACTIVE"}
    BY <1>2, <1>3, <2>2 DEF IInv, Shape
  <2> QED
    BY <1>3, <1>6, <2>1, <2>3, Marks, WorldStep DEF IInv, Shape, Issued, Exists
<1> QED
  BY <1>7, <1>8

\* Every step keeps the invariant.
LEMMA NextIInv == IInv /\ [Next]_vars => IInv'
<1> SUFFICES ASSUME IInv, [Next]_vars PROVE IInv'
  OBVIOUS
<1>1. CASE UNCHANGED vars
  BY <1>1, WorldStep DEF vars, IInv, Shape, Issued, Exists
<1>2. ASSUME NEW u \in Users, SignUp(u) PROVE IInv'
  BY <1>2, SignUpStep
<1>3. ASSUME NEW s \in Sessions, Expire(s) PROVE IInv'
  BY <1>3, ExpireStep
<1>4. ASSUME NEW r \in Requests, NEW u \in Users, LoadLogin(r, u) PROVE IInv'
  BY <1>4, LoadLoginStep
<1>5. ASSUME NEW r \in Requests, NEW s \in Sessions, Login(r, s) \/ LoadSession(r, s) PROVE IInv'
  BY <1>5, LoginStep, LoadSessionStep
<1>6. ASSUME NEW r \in Requests, Handle(r) PROVE IInv'
  <2>1. CASE LoadUser(r) \/ Touch(r) \/ Answer(r) \/ Logout(r) \/ ChangePassword(r)
    BY <2>1, LoadUserStep, TouchStep, AnswerStep, LogoutStep, ChangePasswordStep
  <2>2. ASSUME NEW t \in Users, RevokeUserSessions(r, t) PROVE IInv'
    BY <2>2, RevokeUserSessionsStep
  <2>3. ASSUME NEW t \in Users, NEW new \in Row, LoadForUpdate(r, t, new) PROVE IInv'
    BY <2>3, LoadForUpdateStep
  <2>4. ASSUME NEW t \in Users, NEW role \in Roles, LoadForApproval(r, t, role) PROVE IInv'
    BY <2>4, LoadForApprovalStep
  <2>5. ASSUME NEW t \in Users, LoadForRejection(r, t) PROVE IInv'
    BY <2>5, LoadForRejectionStep
  <2>6. CASE CheckLastAdmin(r) \/ Commit(r)
    BY <2>6, CheckLastAdminStep, CommitStep
  <2> QED
    BY <1>6, <2>1, <2>2, <2>3, <2>4, <2>5, <2>6 DEF Handle
<1> QED
  BY <1>1, <1>2, <1>3, <1>4, <1>5, <1>6 DEF Next

\* The inductive invariant.
LEMMA Invariance == Spec => []IInv
BY InitIInv, NextIInv, PTL DEF Spec
-----------------------------------------------------------------------------
(* Who may enter, and who may change a row *)

\* Only Touch takes a request past current_auth.
LEMMA OnlyTouchEnters ==
  ASSUME IInv, Next, NEW r \in Requests, req[r].pc = "user", req'[r].pc = "in"
  PROVE  Live(req[r].s)
<1>1. ASSUME NEW x \in Requests, x # r \/ ~Live(req[r].s), Touch(x) PROVE req'[r].pc # "in"
  BY <1>1 DEF Touch, End, Idle, IInv, Shape
<1>3. ASSUME NEW x \in Requests, Handle(x), ~Touch(x) PROVE req'[r].pc # "in"
  <2>1. ASSUME NEW t \in Users,
               \/ \E new \in Row : LoadForUpdate(x, t, new)
               \/ \E role \in Roles : LoadForApproval(x, t, role)
               \/ LoadForRejection(x, t)
        PROVE  req'[r].pc # "in"
    <3>1. CASE x = r
      BY <2>1, <3>1 DEF LoadForUpdate, LoadForApproval, LoadForRejection
    <3>2. CASE x # r
      BY <2>1, <3>2 DEF LoadForUpdate, LoadForApproval, LoadForRejection, Load, IInv, Shape
    <3> QED
      BY <3>1, <3>2
  <2>2. CASE LoadUser(x)
    BY <2>2 DEF LoadUser, End, Idle, IInv, Shape
  <2>3. CASE Answer(x) \/ Logout(x) \/ ChangePassword(x) \/ \E t \in Users : RevokeUserSessions(x, t)
    BY <2>3 DEF Answer, Logout, ChangePassword, RevokeUserSessions, End, Idle, IInv, Shape
  <2>4. CASE CheckLastAdmin(x) \/ Commit(x)
    BY <2>4 DEF CheckLastAdmin, Commit, End, Idle, IInv, Shape
  <2> QED
    BY <1>3, <2>1, <2>2, <2>3, <2>4 DEF Handle
<1>4. ASSUME NEW x \in Requests,
             \/ \E u \in Users : LoadLogin(x, u)
             \/ \E s \in Sessions : Login(x, s) \/ LoadSession(x, s)
      PROVE  req'[r].pc # "in"
  BY <1>4 DEF LoadLogin, Login, LoadSession, End, Idle, IInv, Shape
<1>5. ASSUME \/ \E u \in Users : SignUp(u)
             \/ \E s \in Sessions : Expire(s)
      PROVE  req'[r].pc # "in"
  BY <1>5 DEF SignUp, Expire
<1> QED
  BY <1>1, <1>3, <1>4, <1>5 DEF Next

\* Only a sign-up and a commit touch the accounts.
LEMMA AccountWriters ==
  ASSUME [Next]_vars
  PROVE  \/ account' = account
         \/ \E u \in Users : SignUp(u)
         \/ \E r \in Requests : Commit(r)
<1>1. ASSUME NEW r \in Requests, Handle(r) PROVE account' = account \/ Commit(r)
  BY <1>1 DEF Handle, LoadUser, Touch, Answer, Logout, ChangePassword, RevokeUserSessions,
              LoadForUpdate, LoadForApproval, LoadForRejection, CheckLastAdmin
<1> QED
  BY <1>1 DEF Next, vars, Expire, LoadLogin, Login, LoadSession

\* A column of an existing account changes only to what an administrator asked for.
LEMMA Changes ==
  ASSUME IInv, [Next]_vars, NEW u \in Users, NEW column \in {"role", "state"},
         Exists(u), account'[u][column] # account[u][column]
  PROVE  \E r \in Requests : Asked(r, u, column)
<1>1. ASSUME NEW t \in Users, SignUp(t) PROVE FALSE
  BY <1>1 DEF SignUp, IInv, Shape
<1>2. PICK r \in Requests : Commit(r)
  BY <1>1, AccountWriters
<1> DEFINE q == req[r]
           row == [role |-> Column(q.loaded.role, q.new.role, account[q.t].role),
                   state |-> Column(q.loaded.state, q.new.state, account[q.t].state)]
<1>3. q \in ReqType /\ q.pc = "write" /\ DecidedBy(q)
  BY <1>2 DEF Commit, IInv, Shape, Decisions
<1>4. q.t \in Users /\ q.loaded \in Row /\ q.new \in Row
  BY <1>3, ReqFacts
<1>5. account' = [account EXCEPT ![q.t] = row] /\ req'[r] = Idle
  BY <1>2 DEF Commit, End, IInv, Shape
<1>6. u = q.t /\ account'[u] = row
  BY <1>4, <1>5 DEF IInv, Shape
<1>7. q.new[column] # q.loaded[column] /\ account'[u][column] = q.new[column]
  <2>1. CASE column = "role"
    BY <1>6, <2>1 DEF Column
  <2>2. CASE column = "state"
    BY <1>6, <2>2 DEF Column
  <2> QED
    BY <2>1, <2>2
<1>8. q.auth = ActiveAdmin
  BY <1>3, <1>7 DEF DecidedBy
<1> QED
  BY <1>3, <1>5, <1>6, <1>7, <1>8 DEF Asked
-----------------------------------------------------------------------------
\* The tables, the histories and the requests in flight keep their types, whatever
\* requests run side by side: no session is used or revoked before it was issued, and
\* no handler writes a row that was never there.
THEOREM AccountsTypeOK == Spec => []TypeOK
<1>1. IInv => TypeOK
  BY TypeFollows DEF IInv
<1> QED
  BY <1>1, Invariance, PTL

\* Who gets past current_auth is not blocked at that moment and uses a session that
\* was not revoked, for any number of requests, although session and account were
\* loaded one after the other.
THEOREM AccountsEntryIsCurrent == Spec => EntryIsCurrent
<1>1. ASSUME IInv, Next, NEW r \in Requests, req[r].pc = "user", req'[r].pc = "in"
      PROVE  account[req[r].u].state \in Admitted /\ req[r].s \notin revoked
  <2>1. Live(req[r].s)
    BY <1>1, OnlyTouchEnters
  <2> QED
    BY <1>1, <2>1, AccountsAssumption DEF IInv, Current, CurrentIn, Issued, Live
<1>2. IInv /\ [Next]_vars =>
        [\A r \in Requests : req[r].pc = "user" /\ req'[r].pc = "in" =>
            account[req[r].u].state \in Admitted /\ req[r].s \notin revoked]_vars
  BY <1>1
<1> QED
  BY <1>2, Invariance, PTL DEF Spec, EntryIsCurrent

\* A role or a state changes only to what a request of an active administrator asked
\* for, however many handlers hold older rows: the ORM writes the columns that differ
\* from what was loaded, and who is no administrator differs in none.
THEOREM AccountsOnlyAdminsDecide == Spec => OnlyAdminsDecide
<1>1. IInv /\ [Next]_vars =>
        [\A u \in Users, column \in {"role", "state"} :
            Exists(u) /\ account'[u][column] # account[u][column] => \E r \in Requests : Asked(r, u, column)]_vars
  BY Changes
<1> QED
  BY <1>1, Invariance, PTL DEF Spec, OnlyAdminsDecide
=============================================================================
