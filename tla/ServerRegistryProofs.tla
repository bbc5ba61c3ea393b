------------------------- MODULE ServerRegistryProofs -------------------------
(***************************************************************************)
(* The invariants of ServerRegistry, for any number of servers, addresses  *)
(* and requests.                                                           *)
(*                                                                         *)
(* They are inductive together.  An edit whose copy of the row was stale   *)
(* puts the row among the mixed ones, of which nothing is claimed.  Any    *)
(* other edit merges into the very row it loaded, so the result is its     *)
(* payload (Unmixed): either the connection was tested, and pin and secret *)
(* are those of the payload, or no connection column has changed.          *)
(***************************************************************************)
EXTENDS ServerRegistry, TLAPS

\* The address and the secret of a row belong together.
Fits(c) ==
  /\ c.pin = KeyAt(c)
  /\ c.adapter_type = "REAL" => c.credential = c.auth_type

AllFit == \A s \in Servers \ mixed : row[s] # NoRow => Fits(row[s])

IInv == TypeOK /\ AllFit

\* The absent row is not a row.
LEMMA NoRowIsNoRow == NoRow \notin Row
  BY DEF NoRow, Row

\* What an edit stores is a row.
LEMMA StoredType ==
  ASSUME NEW c \in Connection, NEW credential \in AuthTypes \cup {NoCredential}, NEW key \in Keys
  PROVE  Stored(c, credential, key) \in Row
  BY DEF Stored, Row, Connection

\* A discovered host key is a key.
LEMMA KeyType == \A c \in Connection : Discovered(c) \in Keys
  BY DEF Discovered, Keys

\* An edit that was not overtaken leaves its payload.
LEMMA Unmixed ==
  ASSUME NEW old \in Row, NEW new \in Row, NEW supplied \in BOOLEAN
  PROVE  Merged(old, old, new, supplied) = new
  <1>1. \A k \in DOMAIN new :
          (IF new[k] = old[k] /\ ~(k = "credential" /\ supplied) THEN old[k] ELSE new[k]) = new[k]
    OBVIOUS
  <1>2. Merged(old, old, new, supplied) = [k \in DOMAIN new |-> new[k]]
    BY <1>1 DEF Merged
  <1>3. new = [k \in DOMAIN new |-> new[k]]
    BY DEF Row
  <1> QED BY <1>2, <1>3

\* Whatever is merged, a row comes out.
LEMMA MergedType ==
  ASSUME NEW current \in Row, NEW old \in Row, NEW new \in Row, NEW supplied \in BOOLEAN
  PROVE  Merged(current, old, new, supplied) \in Row
  <1> DEFINE cols == {"host", "port", "auth_type", "adapter_type", "credential", "pin"}
             m == Merged(current, old, new, supplied)
  <1>1. DOMAIN new = cols
    BY DEF Row
  <1>2. m = [k \in cols |-> IF new[k] = old[k] /\ ~(k = "credential" /\ supplied)
                            THEN current[k] ELSE new[k]]
    BY <1>1 DEF Merged
  <1>3. \A k \in cols : m[k] \in {current[k], new[k]}
    BY <1>2
  <1>4. /\ m.host \in Hosts /\ m.port \in Ports /\ m.auth_type \in AuthTypes
        /\ m.adapter_type \in Adapters /\ m.credential \in AuthTypes \cup {NoCredential}
        /\ m.pin \in Keys
    BY <1>3 DEF Row
  <1>5. m = [host |-> m.host, port |-> m.port, auth_type |-> m.auth_type,
             adapter_type |-> m.adapter_type, credential |-> m.credential, pin |-> m.pin]
    BY <1>2
  <1> QED BY <1>4, <1>5 DEF Row
-----------------------------------------------------------------------------
\* A write of a request that holds a row: the type is kept, and the invariant
\* too if the payload fits whenever the row it was made from was the row and fits.
LEMMA WriteKeeps ==
  ASSUME IInv, NEW r \in Requests, NEW new \in Row, NEW supplied \in BOOLEAN, NEW tested \in BOOLEAN,
         req[r] # Idle, Write(r, new, supplied, tested),
         tested => Fits(new),
         ~tested /\ Fits(req[r].loaded) => Fits(new)
  PROVE  IInv'
  <1> DEFINE s == req[r].server
             old == req[r].loaded
  <1>1. s \in Servers /\ old \in Row /\ row[s] \in Row
    BY DEF IInv, TypeOK, Write
  <1>2. row' = [row EXCEPT ![s] = Merged(row[s], old, new, supplied)]
    BY DEF Write
  <1>3. Merged(row[s], old, new, supplied) \in Row
    BY <1>1, MergedType
  <1>4. TypeOK'
    <2>1. row' \in [Servers -> Row \cup {NoRow}]
      BY <1>1, <1>2, <1>3 DEF IInv, TypeOK
    <2>2. mixed' \subseteq mixed \cup {s}
      BY DEF Write
    <2>3. \A t \in mixed' : t \in Servers /\ row'[t] # NoRow
      BY <1>1, <1>2, <1>3, <2>2, NoRowIsNoRow DEF IInv, TypeOK
    <2>4. req' = [req EXCEPT ![r] = Idle]
      BY DEF Write
    <2> QED BY <2>1, <2>3, <2>4 DEF IInv, TypeOK
  <1>5. AllFit'
    <2> SUFFICES ASSUME NEW t \in Servers, t \notin mixed', row'[t] # NoRow
                 PROVE  Fits(row'[t])
      BY DEF AllFit
    <2>1. CASE t # s
      <3>1. t \notin mixed /\ row'[t] = row[t]
        BY <2>1, <1>1, <1>2 DEF Write, IInv, TypeOK
      <3> QED BY <3>1 DEF IInv, AllFit, Fits, KeyAt
    <2>2. CASE t = s
      <3>1. old = row[s]
        BY <2>2 DEF Write
      <3>2. row'[s] = new
        BY <3>1, <1>1, <1>2, Unmixed DEF IInv, TypeOK
      <3>3. tested \/ s \notin mixed
        BY <2>2, <3>1 DEF Write
      <3>4. s \notin mixed => Fits(old)
        BY <3>1, <1>1, NoRowIsNoRow DEF IInv, AllFit
      <3>5. Fits(new)
        BY <3>3, <3>4
      <3> QED BY <2>2, <3>2, <3>5 DEF Fits, KeyAt
    <2> QED BY <2>1, <2>2
  <1> QED BY <1>4, <1>5 DEF IInv
-----------------------------------------------------------------------------
\* The invariant holds at first.
LEMMA Initially == Init => IInv
  BY DEF Init, IInv, TypeOK, AllFit, Idle

\* A new row holds the pin and the secret of its own test.
LEMMA CreateKeeps ==
  ASSUME IInv, NEW r \in Requests, NEW s \in Servers, NEW c \in Connection, CreateServer(r, s, c)
  PROVE  IInv'
  <1> DEFINE new == Stored(c, FirstCredential(c), Discovered(c))
  <1>1. FirstCredential(c) \in AuthTypes \cup {NoCredential}
    BY DEF FirstCredential, Connection
  <1>2. new \in Row
    BY <1>1, StoredType, KeyType
  <1>3. Fits(new)
    BY DEF Fits, Stored, FirstCredential, Discovered, KeyAt, Connection, Adapters
  <1>4. row' = [row EXCEPT ![s] = new] /\ mixed' = mixed /\ req' = req
    BY DEF CreateServer
  <1>5. TypeOK'
    <2>1. row' \in [Servers -> Row \cup {NoRow}]
      BY <1>2, <1>4 DEF IInv, TypeOK
    <2>2. \A t \in mixed' : t \in Servers /\ row'[t] # NoRow
      BY <1>2, <1>4, NoRowIsNoRow DEF IInv, TypeOK
    <2> QED BY <1>4, <2>1, <2>2 DEF IInv, TypeOK
  <1>6. \A t \in Servers : row'[t] = IF t = s THEN new ELSE row[t]
    BY <1>4 DEF IInv, TypeOK
  <1>7. AllFit'
    BY <1>3, <1>4, <1>6 DEF IInv, AllFit, Fits, KeyAt
  <1> QED BY <1>5, <1>7 DEF IInv

\* A read moves only its request.
LEMMA LoadKeeps ==
  ASSUME IInv, NEW r \in Requests, NEW s \in Servers, NEW op \in {"update", "rotate"}, Load(r, op, s)
  PROVE  IInv'
  <1>1. row[s] \in Row
    BY DEF IInv, TypeOK, Load
  <1>2. TypeOK'
    BY <1>1 DEF IInv, TypeOK, Load
  <1>3. AllFit'
    BY DEF IInv, AllFit, Fits, KeyAt, Load
  <1> QED BY <1>2, <1>3 DEF IInv

\* A refused edit writes nothing.
LEMMA RefuseKeeps ==
  ASSUME IInv, NEW r \in Requests, Refuse(r)
  PROVE  IInv'
  BY DEF IInv, TypeOK, AllFit, Fits, KeyAt, Refuse

\* A deleted row has nothing that could disagree.
LEMMA DeleteKeeps ==
  ASSUME IInv, NEW r \in Requests, NEW s \in Servers, DeleteServer(r, s)
  PROVE  IInv'
  <1>1. \A t \in Servers : row'[t] = IF t = s THEN NoRow ELSE row[t]
    BY DEF IInv, TypeOK, DeleteServer
  <1>2. mixed' = mixed \ {s} /\ req' = req
    BY DEF DeleteServer
  <1>3. TypeOK'
    <2>1. row' \in [Servers -> Row \cup {NoRow}]
      BY DEF IInv, TypeOK, DeleteServer
    <2> QED BY <1>1, <1>2, <2>1 DEF IInv, TypeOK
  <1>4. AllFit'
    BY <1>1, <1>2 DEF IInv, AllFit, Fits, KeyAt
  <1> QED BY <1>3, <1>4 DEF IInv

\* An edit of the current row leaves it consistent; any other puts it into mixed.
LEMMA UpdateKeeps ==
  ASSUME IInv, NEW r \in Requests, NEW c \in Connection, NEW supplied \in BOOLEAN,
         UpdateServer(r, c, supplied)
  PROVE  IInv'
  <1> DEFINE old == req[r].loaded
             credential == IF supplied THEN c.auth_type ELSE old.credential
             tested == ConnectionChanged(old, c, supplied)
             new == Stored(c, credential, IF tested THEN Discovered(c) ELSE old.pin)
  <1>1. req[r] # Idle /\ old \in Row
    BY DEF IInv, TypeOK, UpdateServer, Idle
  <1>2. /\ Write(r, new, supplied, tested)
        /\ tested => Connects(c, credential)
    BY DEF UpdateServer
  <1>3. tested \in BOOLEAN
    BY DEF ConnectionChanged
  <1>4. new \in Row
    <2>1. credential \in AuthTypes \cup {NoCredential}
      BY <1>1 DEF Row, Connection
    <2>2. (IF tested THEN Discovered(c) ELSE old.pin) \in Keys
      BY <1>1, KeyType DEF Row
    <2> QED BY <2>1, <2>2, StoredType
  <1>5. tested => Fits(new)
    BY <1>2 DEF Fits, Stored, Discovered, KeyAt, Connects, Connection, Adapters
  <1>6. ~tested /\ Fits(old) => Fits(new)
    BY DEF Fits, Stored, KeyAt, ConnectionChanged
  <1> HIDE DEF old, credential, tested, new
  <1>7. ~tested /\ Fits(req[r].loaded) => Fits(new)
    BY <1>6 DEF old
  <1> QED BY <1>1, <1>2, <1>3, <1>4, <1>5, <1>7, WriteKeeps

\* So does a rotation.
LEMMA RotateKeeps ==
  ASSUME IInv, NEW r \in Requests, NEW kind \in AuthTypes, RotateCredential(r, kind)
  PROVE  IInv'
  <1> DEFINE old == req[r].loaded
             new == [old EXCEPT !.auth_type = NewKind(old, kind), !.credential = kind]
  <1>1. req[r] # Idle /\ old \in Row
    BY DEF IInv, TypeOK, RotateCredential, Idle
  <1>2. Write(r, new, TRUE, FALSE)
    BY DEF RotateCredential
  <1>3. new \in Row
    BY <1>1 DEF Row, NewKind
  <1>4. Fits(old) => Fits(new)
    BY <1>1 DEF Fits, KeyAt, NewKind, Row
  <1> HIDE DEF new
  <1> QED BY <1>1, <1>2, <1>3, <1>4, WriteKeeps

\* Every step keeps the invariant.
LEMMA Step == IInv /\ [Next]_vars => IInv'
  <1> SUFFICES ASSUME IInv, [Next]_vars PROVE IInv'
    OBVIOUS
  <1>1. CASE UNCHANGED vars
    BY <1>1 DEF IInv, TypeOK, AllFit, Fits, KeyAt, vars
  <1>2. ASSUME NEW r \in Requests, NEW s \in Servers, NEW c \in Connection, CreateServer(r, s, c)
        PROVE  IInv'
    BY <1>2, CreateKeeps
  <1>3. ASSUME NEW r \in Requests, NEW s \in Servers, NEW op \in {"update", "rotate"}, Load(r, op, s)
        PROVE  IInv'
    BY <1>3, LoadKeeps
  <1>4. ASSUME NEW r \in Requests, NEW s \in Servers, DeleteServer(r, s)
        PROVE  IInv'
    BY <1>4, DeleteKeeps
  <1>5. ASSUME NEW r \in Requests, NEW c \in Connection, NEW supplied \in BOOLEAN,
               UpdateServer(r, c, supplied)
        PROVE  IInv'
    BY <1>5, UpdateKeeps
  <1>6. ASSUME NEW r \in Requests, NEW kind \in AuthTypes, RotateCredential(r, kind)
        PROVE  IInv'
    BY <1>6, RotateKeeps
  <1>7. ASSUME NEW r \in Requests, Refuse(r)
        PROVE  IInv'
    BY <1>7, RefuseKeeps
  <1> QED BY <1>1, <1>2, <1>3, <1>4, <1>5, <1>6, <1>7 DEF Next

\* IInv is an invariant.
LEMMA Invariance == Spec => []IInv
  BY Initially, Step, PTL DEF Spec

\* Rows, history and requests keep their types.
THEOREM RegistryTypeOK == Spec => []TypeOK
  <1>1. IInv => TypeOK
    BY DEF IInv
  <1> QED BY <1>1, Invariance, PTL

\* A row that is not mixed has the key of its own address pinned.
THEOREM RegistryPinFits == Spec => []PinFitsAddress
  <1>1. IInv => PinFitsAddress
    BY DEF IInv, AllFit, Fits, PinFitsAddress
  <1> QED BY <1>1, Invariance, PTL

\* A row of a real server that is not mixed has a secret of its announced kind.
THEOREM RegistryCredentialFits == Spec => []CredentialFits
  <1>1. IInv => CredentialFits
    BY DEF IInv, AllFit, Fits, CredentialFits
  <1> QED BY <1>1, Invariance, PTL
=============================================================================
