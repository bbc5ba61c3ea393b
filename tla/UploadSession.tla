--------------------------- MODULE UploadSession ---------------------------
(***************************************************************************)
(* Resumable uploads of backend/app/main.py (start_file_upload,            *)
(* file_upload_status, write_file_upload_chunk, complete_file_upload,      *)
(* cancel_file_upload) over the file-system and the SFTP adapter of        *)
(* backend/app/sftp/gateway.py.  (The Blob adapter keeps parts instead of  *)
(* one temporary object and is not described here.)                        *)
(*                                                                         *)
(* Every HTTP request is a process.  It runs from one await that can       *)
(* really suspend it to the next in one action, so requests interleave     *)
(* where the event loop can switch between them: waiting for the per-      *)
(* upload lock, waiting for the target lock, every call of the gateway and *)
(* the commit.  Committed rows, temporary objects and target files survive *)
(* a restart of the process; requests and locks do not.                    *)
(*                                                                         *)
(* Bytes are positions of the selected file: a temporary object is the set *)
(* of positions written to it, so a hole or a truncation is visible.       *)
(***************************************************************************)
EXTENDS Naturals, FiniteSets

CONSTANTS Uploads,     \* upload identifiers (uuid4, never reused)
          Paths,       \* target paths, each on one configured server
          Requests,    \* concurrent HTTP requests
          MaxSize,     \* bound: bytes of a selected file
          ChunkSize,   \* bytes accepted by one PUT (upload_chunk_size)
          AdapterOf,   \* adapter_type of the server of each path
          NoUpload, NoReq, NoFile, Foreign

ASSUME SizeAssumption == MaxSize \in Nat /\ ChunkSize \in Nat
ASSUME PathAssumption == Paths # {} /\ \A p \in Paths : AdapterOf[p] \in {"MOCK", "REAL"}
ASSUME NullAssumption == /\ NoUpload \notin Uploads
                         /\ NoReq \notin Requests
                         /\ {NoFile, Foreign} \cap Uploads = {}
                         /\ NoFile # Foreign

VARIABLES
  start,       \* progress of the POST that creates each upload
  meta,        \* path, total_size and replace the upload was created with
  row,         \* committed FileUpload row: its status (NONE: no row) and received_size
  temps,       \* uploads whose temporary object exists on the server
  temp,        \* positions written to each temporary object
  files,       \* contents of the target paths
  published,   \* history: uploads whose temporary object was renamed
  audit,       \* number of committed SUCCESS events of each upload
  upload_locks, upload_target_locks,
  req          \* the requests in flight

vars == <<start, meta, row, temps, temp, files, published, audit,
          upload_locks, upload_target_locks, req>>

session == <<start, meta, row, audit>>
remote == <<temps, temp, files, published>>
locks == <<upload_locks, upload_target_locks>>
-----------------------------------------------------------------------------
Sizes == 0 .. MaxSize
Positions(n) == 0 .. n - 1

Ops == {"status", "write", "complete", "cancel"}
Pcs == {"idle",    \* no request
        "lock",    \* row loaded and authorised, waiting for the upload lock
        "target",  \* complete: upload lock held, waiting for the target lock
        "held",    \* all locks held, row refreshed
        "sized",   \* received_size reconciled with the remote size
        "confirm", \* write: the gateway confirmed the chunk, not committed
        "rename",  \* complete on an SFTP server: target checked, not renamed
        "record",  \* complete: renamed, locks released, not committed
        "drop"}    \* cancel: temporary object removed, row not deleted

Idle == [op |-> "status", pc |-> "idle", u |-> NoUpload, off |-> 0, seen |-> "NONE"]

\* Positions of r's upload; meaningful when r is not idle.
PathOf(u) == meta[u].path
Total(u) == meta[u].total
Exists(u) == row[u].status # "NONE"

\* st_size of a file whose written positions are b.
SizeOf(b) == CHOOSE n \in Sizes : b \subseteq Positions(n) /\ (n > 0 => n - 1 \in b)
RemoteSize(u) == SizeOf(temp[u])

\* unlink: the temporary object of u is gone.
Unlink(u) == temps' = temps \ {u} /\ temp' = [temp EXCEPT ![u] = {}]

\* Mutant of Written: the object is opened "wb", which truncates it.
WrittenTruncating(b, off, m) == off .. off + m - 1

\* Writing m bytes at offset off of a file opened "r+b" and sought to off.
Written(b, off, m) == b \cup (off .. off + m - 1)

RequestState == [op : Ops, pc : Pcs, u : Uploads \cup {NoUpload}, off : Sizes,
                 seen : {"NONE", "ACTIVE", "COMPLETED"}]

SessionsOK ==
  /\ start \in [Uploads -> {"new", "begun", "open", "dead"}]
  /\ meta \in [Uploads -> [path : Paths, total : Sizes, replace : BOOLEAN]]
  /\ row \in [Uploads -> [status : {"NONE", "ACTIVE", "COMPLETED"}, received : Sizes]]
  /\ audit \in [Uploads -> Nat]
RemoteOK ==
  /\ temps \subseteq Uploads
  /\ temp \in [Uploads -> SUBSET Positions(MaxSize)]
  /\ files \in [Paths -> [by : Uploads \cup {NoFile, Foreign}, bytes : SUBSET Positions(MaxSize)]]
  /\ published \subseteq Uploads
LocksOK ==
  /\ upload_locks \in [Uploads -> Requests \cup {NoReq}]
  /\ upload_target_locks \in [Paths -> Requests \cup {NoReq}]
RequestsOK ==
  /\ req \in [Requests -> RequestState]
  /\ \A r \in Requests : req[r].pc # "idle" => req[r].u \in Uploads
TypeOK == SessionsOK /\ RemoteOK /\ LocksOK /\ RequestsOK

Init ==
  /\ start = [u \in Uploads |-> "new"]
  /\ meta = [u \in Uploads |-> [path |-> CHOOSE p \in Paths : TRUE, total |-> 0, replace |-> FALSE]]
  /\ row = [u \in Uploads |-> [status |-> "NONE", received |-> 0]]
  /\ temps = {}
  /\ temp = [u \in Uploads |-> {}]
  /\ files = [p \in Paths |-> [by |-> NoFile, bytes |-> {}]]
  /\ published = {}
  /\ audit = [u \in Uploads |-> 0]
  /\ upload_locks = [u \in Uploads |-> NoReq]
  /\ upload_target_locks = [p \in Paths |-> NoReq]
  /\ req = [r \in Requests |-> Idle]
-----------------------------------------------------------------------------
(* Requests and the two locks they take. *)

At(r, op, pc) == req[r].op = op /\ req[r].pc = pc
Goto(r, pc) == req' = [req EXCEPT ![r].pc = pc]

\* Mutant of Unlock: the target lock is never released.
UnlockOnlyUpload(r) ==
  /\ upload_locks' = [u \in Uploads |-> IF upload_locks[u] = r THEN NoReq ELSE upload_locks[u]]
  /\ UNCHANGED upload_target_locks

\* Leaving the `async with`: whatever r holds is free again.
Unlock(r) ==
  /\ upload_locks' = [u \in Uploads |-> IF upload_locks[u] = r THEN NoReq ELSE upload_locks[u]]
  /\ upload_target_locks' =
       [p \in Paths |-> IF upload_target_locks[p] = r THEN NoReq ELSE upload_target_locks[p]]

\* r is answered (with success or with an error).
End(r) == req' = [req EXCEPT ![r] = Idle] /\ Unlock(r)

\* start_file_upload: the conflict check and the creation of the empty
\* temporary object.  A conflict or a refused permission changes nothing.
StartUpload(u, p, total, rep) ==
  /\ start[u] = "new"
  /\ files[p].by = NoFile \/ rep
  /\ start' = [start EXCEPT ![u] = "begun"]
  /\ meta' = [meta EXCEPT ![u] = [path |-> p, total |-> total, replace |-> rep]]
  /\ temps' = temps \cup {u}
  /\ temp' = [temp EXCEPT ![u] = {}]
  /\ UNCHANGED <<row, files, published, audit, locks, req>>

\* start_file_upload: the row is committed and the identifier is answered.
SaveUpload(u) ==
  /\ start[u] = "begun"
  /\ start' = [start EXCEPT ![u] = "open"]
  /\ row' = [row EXCEPT ![u] = [status |-> "ACTIVE", received |-> 0]]
  /\ UNCHANGED <<meta, remote, audit, locks, req>>

\* A client sends a request about an upload whose row it can load
\* (owned_upload); a PUT is refused before the lock if the row is not ACTIVE.
\* Only a DELETE still uses that row later.
Arrive(r, op, u, off) ==
  /\ req[r].pc = "idle"
  /\ Exists(u)
  /\ op = "write" => row[u].status = "ACTIVE"
  /\ op # "write" => off = 0
  /\ req' = [req EXCEPT ![r] =
       [op |-> op, pc |-> "lock", u |-> u, off |-> off,
        seen |-> IF op = "cancel" THEN row[u].status ELSE "NONE"]]
  /\ UNCHANGED <<session, remote, locks>>

\* `async with upload_lock(...)`, then db.refresh.  complete_file_upload goes
\* on to the target lock first, cancel_file_upload does not refresh.  A row
\* that is gone, or that is no longer ACTIVE, ends a status or a PUT here.
TakeUploadLock(r) ==
  LET u == req[r].u
      pass == req[r].op \in {"complete", "cancel"} \/ row[u].status = "ACTIVE"
  IN /\ req[r].pc = "lock"
     /\ upload_locks[u] = NoReq
     /\ \/ /\ pass
           /\ upload_locks' = [upload_locks EXCEPT ![u] = r]
           /\ Goto(r, IF req[r].op = "complete" THEN "target" ELSE "held")
           /\ UNCHANGED upload_target_locks
        \/ /\ ~pass
           /\ End(r)
     /\ UNCHANGED <<session, remote>>

\* `async with ..., upload_target_lock(...)`, then db.refresh.
TakeTargetLock(r) ==
  LET u == req[r].u
  IN /\ req[r].pc = "target"
     /\ upload_target_locks[PathOf(u)] = NoReq
     /\ \/ /\ row[u].status = "ACTIVE"
           /\ upload_target_locks' = [upload_target_locks EXCEPT ![PathOf(u)] = r]
           /\ Goto(r, "held")
           /\ UNCHANGED upload_locks
        \/ /\ row[u].status # "ACTIVE"
           /\ End(r)
     /\ UNCHANGED <<session, remote>>

\* reconcile_upload_size: the remote size, not the stored one, is the offset.
Reconcile(r) ==
  LET u == req[r].u
  IN /\ req[r].pc = "held"
     /\ req[r].op # "cancel"
     /\ u \in temps
     /\ RemoteSize(u) <= Total(u)
     /\ row' = [row EXCEPT ![u].received = RemoteSize(u)]
     /\ IF req[r].op = "status" THEN End(r) ELSE Goto(r, "sized") /\ UNCHANGED locks
     /\ UNCHANGED <<start, meta, audit, remote>>

\* Any gateway call of a request raises: no connection, the temporary object
\* is missing, the remote object is too large, the server refuses the rename.
GatewayFails(r) ==
  /\ req[r].op # "cancel"
  /\ req[r].pc \in {"held", "sized", "rename"}
  /\ End(r)
  /\ UNCHANGED <<session, remote>>

\* 409: the client's offset is not the confirmed one, or bytes are missing.
Refuse(r) ==
  LET u == req[r].u
  IN /\ \/ At(r, "write", "sized") /\ req[r].off # row[u].received
        \/ At(r, "complete", "sized") /\ row[u].received # Total(u)
     /\ End(r)
     /\ UNCHANGED <<session, remote>>
-----------------------------------------------------------------------------
(* write_file_upload_chunk *)

\* gateway.write_upload_chunk: m bytes reach the server.  Either they are the
\* whole body and the remote size confirms them, or the body or the
\* connection broke off (or the body was too long) after m bytes.
WriteChunk(r, m) ==
  LET u == req[r].u
      off == req[r].off
  IN /\ At(r, "write", "sized")
     /\ off = row[u].received
     /\ u \in temps
     /\ RemoteSize(u) = off
     /\ off + m <= Total(u)
     /\ temp' = [temp EXCEPT ![u] = Written(@, off, m)]
     /\ \/ /\ req' = [req EXCEPT ![r].pc = "confirm", ![r].off = off + m]
           /\ UNCHANGED locks
        \/ End(r)
     /\ UNCHANGED <<session, temps, files, published>>

\* Mutant of ConfirmChunk: the new size is added to the stored one.
ConfirmAdds(r) ==
  /\ At(r, "write", "confirm")
  /\ row' = [row EXCEPT ![req[r].u].received = @ + req[r].off]
  /\ End(r)
  /\ UNCHANGED <<start, meta, audit, remote>>

\* received_size is committed before the client hears of it.
ConfirmChunk(r) ==
  /\ At(r, "write", "confirm")
  /\ row' = [row EXCEPT ![req[r].u].received = req[r].off]
  /\ End(r)
  /\ UNCHANGED <<start, meta, audit, remote>>
-----------------------------------------------------------------------------
(* complete_file_upload *)

\* Mutants of the checks: no size check; a rename that overwrites.
AnyBytesThere(u) == u \in temps
TargetIgnored(u) == TRUE

\* The checks of the handler and of gateway.complete_upload on the bytes.
AllBytesThere(u) == row[u].received = Total(u) /\ u \in temps /\ RemoteSize(u) = Total(u)
TargetFree(u) == files[PathOf(u)].by = NoFile
MayPublish(u) == TargetFree(u) \/ meta[u].replace

\* Mutant of Rename: the object is copied and stays.
CopyTemp(u) ==
  /\ files' = [files EXCEPT ![PathOf(u)] = [by |-> u, bytes |-> temp[u]]]
  /\ published' = published \cup {u}
  /\ UNCHANGED <<temps, temp>>

\* The temporary object becomes the target file.
Rename(u) ==
  /\ files' = [files EXCEPT ![PathOf(u)] = [by |-> u, bytes |-> temp[u]]]
  /\ Unlink(u)
  /\ published' = published \cup {u}

\* File-system adapter: exists() and os.replace run without an await.  The
\* handler sets the status and leaves both locks; the commit comes later.
PublishLocal(r) ==
  LET u == req[r].u
  IN /\ At(r, "complete", "sized")
     /\ AdapterOf[PathOf(u)] = "MOCK"
     /\ AllBytesThere(u)
     /\ \/ MayPublish(u) /\ Rename(u) /\ Goto(r, "record") /\ Unlock(r)
        \/ ~MayPublish(u) /\ End(r) /\ UNCHANGED remote
     /\ UNCHANGED <<session>>

\* SFTP adapter: stat of the target ...
CheckTarget(r) ==
  LET u == req[r].u
  IN /\ At(r, "complete", "sized")
     /\ AdapterOf[PathOf(u)] = "REAL"
     /\ AllBytesThere(u)
     /\ \/ MayPublish(u) /\ Goto(r, "rename") /\ UNCHANGED locks
        \/ ~MayPublish(u) /\ End(r)
     /\ UNCHANGED <<session, remote>>

\* ... then SSH_FXP_RENAME, which a version 3 server refuses when the target
\* exists.  The reply may be lost: the handler then answers 502.
RenameRemote(r) ==
  LET u == req[r].u
  IN /\ req[r].pc = "rename"
     /\ u \in temps
     /\ TargetFree(u)
     /\ Rename(u)
     /\ \/ Goto(r, "record") /\ Unlock(r)
        \/ End(r)
     /\ UNCHANGED <<session>>

\* The transaction with the COMPLETED status and the SUCCESS event.  An UPDATE
\* of a row that was deleted meanwhile fails (StaleDataError) and takes the
\* event with it.
RecordCompletion(r) ==
  LET u == req[r].u
  IN /\ req[r].pc = "record"
     /\ \/ /\ Exists(u)
           /\ row' = [row EXCEPT ![u].status = "COMPLETED"]
           /\ audit' = [audit EXCEPT ![u] = @ + 1]
        \/ /\ ~Exists(u)
           /\ UNCHANGED <<row, audit>>
     /\ End(r)
     /\ UNCHANGED <<start, meta, remote>>
-----------------------------------------------------------------------------
(* cancel_file_upload: decides on the status it read before the lock. *)

CancelAbort(r) ==
  /\ At(r, "cancel", "held")
  /\ \/ req[r].seen = "ACTIVE" /\ Unlink(req[r].u)
     \/ UNCHANGED <<temps, temp>>   \* not ACTIVE when read, or the removal failed and is ignored
  /\ req' = [req EXCEPT ![r].pc = "drop", ![r].seen = "NONE"]
  /\ UNCHANGED <<session, files, published, locks>>

CancelDelete(r) ==
  /\ req[r].pc = "drop"
  /\ row' = [row EXCEPT ![req[r].u] = [status |-> "NONE", received |-> 0]]
  /\ End(r)
  /\ UNCHANGED <<start, meta, audit, remote>>
-----------------------------------------------------------------------------
(* The other file operations of the portal, which take neither lock, and   *)
(* the restart.                                                            *)

\* move_item and rename_item: from p to q of one server, or from elsewhere to q.
MoveItem(p, q) ==
  /\ AdapterOf[p] = AdapterOf[q]
  /\ files[p].by # NoFile
  /\ files[q].by = NoFile
  /\ files' = [files EXCEPT ![q] = files[p], ![p] = [by |-> NoFile, bytes |-> {}]]
  /\ UNCHANGED <<session, temps, temp, published, locks, req>>

MoveIn(q) ==
  /\ files[q].by = NoFile
  /\ files' = [files EXCEPT ![q] = [by |-> Foreign, bytes |-> {}]]
  /\ UNCHANGED <<session, temps, temp, published, locks, req>>

\* delete_item of a target file, or of a temporary object (gateway.list shows it).
DeleteItem(p) ==
  /\ files[p].by # NoFile
  /\ files' = [files EXCEPT ![p] = [by |-> NoFile, bytes |-> {}]]
  /\ UNCHANGED <<session, temps, temp, published, locks, req>>

DeleteTemp(u) ==
  /\ u \in temps
  /\ Unlink(u)
  /\ UNCHANGED <<session, files, published, locks, req>>

\* The process dies: requests and locks are lost, and with them every session
\* whose row was not committed.
Crash ==
  /\ start' = [u \in Uploads |-> IF start[u] = "begun" THEN "dead" ELSE start[u]]
  /\ req' = [r \in Requests |-> Idle]
  /\ upload_locks' = [u \in Uploads |-> NoReq]
  /\ upload_target_locks' = [p \in Paths |-> NoReq]
  /\ UNCHANGED <<meta, row, audit, remote>>
-----------------------------------------------------------------------------
\* What the backend does on its own once a request has arrived.
Handle(r) ==
  \/ TakeUploadLock(r) \/ TakeTargetLock(r) \/ Reconcile(r) \/ GatewayFails(r)
  \/ Refuse(r) \/ (\E m \in 0 .. ChunkSize : WriteChunk(r, m)) \/ ConfirmChunk(r)
  \/ PublishLocal(r) \/ CheckTarget(r) \/ RenameRemote(r) \/ RecordCompletion(r)
  \/ CancelAbort(r) \/ CancelDelete(r)

Next ==
  \/ \E u \in Uploads, p \in Paths, n \in Sizes, rep \in BOOLEAN : StartUpload(u, p, n, rep)
  \/ \E u \in Uploads : SaveUpload(u) \/ DeleteTemp(u)
  \/ \E r \in Requests, op \in Ops, u \in Uploads, off \in Sizes : Arrive(r, op, u, off)
  \/ \E r \in Requests : Handle(r)
  \/ \E p \in Paths : MoveIn(p) \/ DeleteItem(p)
  \/ \E p, q \in Paths : MoveItem(p, q)
  \/ Crash

Spec == Init /\ [][Next]_vars

\* A request that can go on does so: the event loop is fair and every remote
\* call returns or raises.  asyncio.Lock wakes its waiters in arrival order,
\* so a request is not overtaken forever at a lock.
Fairness == \A r \in Requests : SF_vars(Handle(r))
FairSpec == Spec /\ Fairness
-----------------------------------------------------------------------------
(* Properties *)

\* The bytes the portal has confirmed to a client stay in the temporary object
\* while it exists: a restart, an interrupted PUT, a repeated PUT and a status
\* query racing with it never leave received_size ahead of the remote bytes or
\* a hole below it (write_file_upload_chunk, reconcile_upload_size).
AckedBytesDurable ==
  \A u \in Uploads : Exists(u) /\ u \in temps => Positions(row[u].received) \subseteq temp[u]

\* A row says COMPLETED only about an upload that was published, and exactly one
\* SUCCESS event was committed for it, however many completions the client
\* sent and although the commit follows the release of both locks.
CompletedExactlyOnce ==
  \A u \in Uploads : /\ audit[u] <= 1
                     /\ row[u].status = "COMPLETED" => u \in published /\ audit[u] = 1

\* An existing target changes hands only by deletion or by an upload that was
\* opened with replace: of two uploads to one path the later completion loses
\* (spec/04-sftp-and-files.md:60), whatever move, delete or restart intervenes.
NoSilentOverwrite ==
  [][\A p \in Paths :
       files[p].by # NoFile /\ files'[p] # files[p] =>
         \/ files'[p].by = NoFile
         \/ files'[p].by \in Uploads /\ meta[files'[p].by].replace]_vars

\* What the target paths show, in the terms of AtomicPublish: an upload counts
\* only if every position of its file is there.
Shown(f) ==
  IF f.by \in Uploads
  THEN IF f.bytes = Positions(Total(f.by)) THEN f.by ELSE "torn"
  ELSE f.by

Abstract == INSTANCE AtomicPublish WITH
  opened <- {u \in Uploads : start[u] # "new"},
  path <- [u \in Uploads |-> meta[u].path],
  replace <- [u \in Uploads |-> meta[u].replace],
  store <- [p \in Paths |-> Shown(files[p])],
  done <- published

\* Locks, offsets, reconciliation and the two-step publication together show
\* every observer of the target folder whole files that appear atomically, at
\* most once, and never over a file that was not to be replaced.
PublishesAtomically == Abstract!Spec

\* Requests cannot wait for each other in a circle: who has the lock of a target is a
\* completion that has the lock of its upload too and waits for neither any more
\* (`async with upload_lock, upload_target_lock`, main.py:2106), however many
\* sessions have that target and whatever ends a request early.
LocksOrdered == \A p \in Paths : LET r == upload_target_locks[p] IN
  r # NoReq => /\ req[r].op = "complete" /\ req[r].pc \in {"held", "sized", "rename"}
               /\ upload_locks[req[r].u] = r

\* No request waits forever: complete_file_upload holds the upload lock while
\* it waits for the target lock, and still everybody is answered.
RequestsFinish == \A r \in Requests : req[r].pc # "idle" ~> req[r].pc = "idle"
=============================================================================
