---------------------------- MODULE ServerRegistry ----------------------------
(***************************************************************************)
(* The connection of an SFTP server as administrators edit it:             *)
(* create_server, update_server, rotate_server_credential and              *)
(* delete_server of backend/app/main.py.                                   *)
(*                                                                         *)
(* A handler loads the row, awaits a connection test if the connection     *)
(* changes, and writes the columns that differ from what it loaded.  Other *)
(* requests commit in between, so columns of two edits may end up in one   *)
(* row.  What a payload holds is chosen at the write: nothing reads it     *)
(* before, but for the test, whose answer depends on the payload alone.    *)
(*                                                                         *)
(* Left out: the user name, which is compared and written like the port;   *)
(* root path, description and `enabled`, which no other column depends on; *)
(* names in use (409, no change); test_server, which writes no column of   *)
(* the model; changes of the key of a host.                                *)
(***************************************************************************)
EXTENDS FiniteSets

CONSTANTS Servers,   \* server identifiers
          Hosts, Ports,
          Requests   \* concurrent HTTP requests

VARIABLES row,    \* committed connection columns of each SftpServer row
          mixed,  \* history: rows written from a stale copy and not renewed since
          req     \* requests in flight

vars == <<row, mixed, req>>
-----------------------------------------------------------------------------
AuthTypes == {"PASSWORD", "PRIVATE_KEY"}
Adapters == {"REAL", "MOCK"}
NoCredential == "none"

Connection == [host : Hosts, port : Ports, auth_type : AuthTypes, adapter_type : Adapters]

\* The key a connection test discovers.  Every address has a key of its own.
KeyAt(c) == IF c.adapter_type = "MOCK" THEN <<"mock-local">> ELSE <<c.host, c.port>>
Keys == {KeyAt(c) : c \in Connection}

\* A test that finds no key counts as failed.
Discovered(c) == KeyAt(c)

\* `credential` is the kind of secret that was encrypted.
Row == [host : Hosts, port : Ports, auth_type : AuthTypes, adapter_type : Adapters,
        credential : AuthTypes \cup {NoCredential}, pin : Keys]
NoRow == [host |-> "none"]
Idle == [op |-> "idle"]

TypeOK ==
  /\ row \in [Servers -> Row \cup {NoRow}]
  /\ mixed \subseteq {s \in Servers : row[s] # NoRow}
  /\ \A r \in Requests :
       \/ req[r] = Idle
       \/ req[r] \in [op : {"update", "rotate"}, server : Servers, loaded : Row]

Init ==
  /\ row = [s \in Servers |-> NoRow]
  /\ mixed = {}
  /\ req = [r \in Requests |-> Idle]
-----------------------------------------------------------------------------
Referenced(s) == \E r \in Requests : req[r] # Idle /\ req[r].server = s

\* A test that can succeed: a real server wants a secret of the announced kind.
Connects(c, credential) == c.adapter_type = "MOCK" \/ credential = c.auth_type

\* A first secret is required, and encrypted for a real server only.
FirstCredential(c) == IF c.adapter_type = "MOCK" THEN NoCredential ELSE c.auth_type

Stored(c, credential, key) ==
  [host |-> c.host, port |-> c.port, auth_type |-> c.auth_type, adapter_type |-> c.adapter_type,
   credential |-> credential, pin |-> key]

CreateServer(r, s, c) ==
  /\ req[r] = Idle /\ row[s] = NoRow /\ ~Referenced(s)
  /\ row' = [row EXCEPT ![s] = Stored(c, FirstCredential(c), Discovered(c))]
  /\ UNCHANGED <<mixed, req>>

Load(r, op, s) ==
  /\ req[r] = Idle /\ row[s] # NoRow
  /\ req' = [req EXCEPT ![r] = [op |-> op, server |-> s, loaded |-> row[s]]]
  /\ UNCHANGED <<row, mixed>>

\* 404, 422, 502 or a row that is gone by the write.
Refuse(r) ==
  /\ req[r] # Idle
  /\ req' = [req EXCEPT ![r] = Idle]
  /\ UNCHANGED <<row, mixed>>
-----------------------------------------------------------------------------
\* Without a new secret a real server keeps its own, if it has one of that kind.
CredentialGiven(old, c, supplied) ==
  supplied \/ c.adapter_type = "MOCK" \/ (old.credential # NoCredential /\ c.auth_type = old.auth_type)

\* Mutant: a new port is not a new connection.
ChangedButPort(old, c, supplied) ==
  supplied \/ c.host # old.host \/ c.auth_type # old.auth_type \/ c.adapter_type # old.adapter_type

ConnectionChanged(old, c, supplied) ==
  \/ supplied
  \/ c.host # old.host \/ c.port # old.port
  \/ c.auth_type # old.auth_type \/ c.adapter_type # old.adapter_type

\* Only columns that differ from the loaded row are written.  A new secret
\* always differs: its encryption is randomised.
Merged(current, loaded, new, supplied) ==
  [k \in DOMAIN new |-> IF new[k] = loaded[k] /\ ~(k = "credential" /\ supplied)
                        THEN current[k] ELSE new[k]]

Write(r, new, supplied, tested) ==
  LET s == req[r].server
      old == req[r].loaded
  IN /\ row[s] # NoRow
     /\ row' = [row EXCEPT ![s] = Merged(@, old, new, supplied)]
     /\ mixed' = IF old # row[s] THEN mixed \cup {s} ELSE IF tested THEN mixed \ {s} ELSE mixed
     /\ req' = [req EXCEPT ![r] = Idle]

\* The payload, the test of it if it changes the connection, and the commit.
UpdateServer(r, c, supplied) ==
  /\ req[r].op = "update"
  /\ LET old == req[r].loaded
         credential == IF supplied THEN c.auth_type ELSE old.credential
         tested == ConnectionChanged(old, c, supplied)
     IN /\ CredentialGiven(old, c, supplied)
        /\ tested => Connects(c, credential)
        /\ Write(r, Stored(c, credential, IF tested THEN Discovered(c) ELSE old.pin), supplied, tested)

\* Mutant: the kind of the new secret is not written with it.
RotatedKind(old, kind) == old.auth_type
NewKind(old, kind) == kind

\* Not tested, and the pin stays.
RotateCredential(r, kind) ==
  /\ req[r].op = "rotate"
  /\ Write(r, [req[r].loaded EXCEPT !.auth_type = NewKind(req[r].loaded, kind), !.credential = kind],
           TRUE, FALSE)

\* Deletes by identifier whatever the row holds by then.
DeleteServer(r, s) ==
  /\ req[r] = Idle /\ row[s] # NoRow
  /\ row' = [row EXCEPT ![s] = NoRow]
  /\ mixed' = mixed \ {s}
  /\ UNCHANGED req

Next ==
  \E r \in Requests :
    \/ \E s \in Servers : \/ \E c \in Connection : CreateServer(r, s, c)
                          \/ \E op \in {"update", "rotate"} : Load(r, op, s)
                          \/ DeleteServer(r, s)
    \/ \E c \in Connection, supplied \in BOOLEAN : UpdateServer(r, c, supplied)
    \/ \E kind \in AuthTypes : RotateCredential(r, kind)
    \/ Refuse(r)

Spec == Init /\ [][Next]_vars
-----------------------------------------------------------------------------
(* Properties.  Edits that overlap may leave a row with the address of one *)
(* and the key or the secret of the other: a later connection is refused   *)
(* until an edit that was not overtaken tests the connection again.        *)

\* The pinned key is that of the address in the row: no sequence of edits, of
\* the adapter and back included, leaves a pin of an address left behind.
PinFitsAddress ==
  \A s \in Servers \ mixed : row[s] # NoRow => row[s].pin = KeyAt(row[s])

\* The secret a real server is given is of the kind its row announces: a detour
\* over the demo adapter, where the kind may change without a secret, included.
CredentialFits ==
  \A s \in Servers \ mixed :
    row[s] # NoRow /\ row[s].adapter_type = "REAL" => row[s].credential = row[s].auth_type
=============================================================================
