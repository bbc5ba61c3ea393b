----------------------------- MODULE BlobUpload -----------------------------
(***************************************************************************)
(* Resumable uploads over the Blob adapter of the demo deployment          *)
(* (backend/app/sftp/blob_storage.py under the handlers of main.py).       *)
(*                                                                         *)
(* Several instances of the backend serve the same database and the same   *)
(* Blob store; the locks of an upload and of a target path are dictionaries*)
(* of one process, so requests exclude each other only within an instance. *)
(* A session keeps one object per acknowledged chunk, a staging object     *)
(* assembled from them and a marker that says the target was written.      *)
(* Publication is a series of calls, each of which may fail before or      *)
(* after it took effect; an instance may die between two of them.          *)
(*                                                                         *)
(* The store itself is external: a put or a copy writes a whole object at  *)
(* once and, with overwrite=False, refuses a key that exists.              *)
(***************************************************************************)
EXTENDS Naturals, FiniteSets

CONSTANTS Uploads,     \* upload identifiers (uuid4, never reused)
          Paths,       \* target paths of the MOCK server
          Instances,   \* processes of the serverless deployment
          Requests,    \* concurrent HTTP requests
          MaxSize,     \* bound: bytes of a selected file
          ChunkSize,   \* bytes accepted by one PUT (upload_chunk_size)
          NoUpload, NoReq, NoFile, Foreign, NoPath, NoInstance

ASSUME SizeAssumption == MaxSize \in Nat /\ ChunkSize \in Nat \ {0}
ASSUME PathAssumption == Paths # {}
ASSUME NullAssumption == /\ NoUpload \notin Uploads /\ NoReq \notin Requests
                         /\ {NoFile, Foreign} \cap Uploads = {} /\ NoFile # Foreign
                         /\ NoPath \notin Paths /\ NoInstance \notin Instances

VARIABLES
  meta,       \* path, total_size and replace of each session
  row,        \* committed FileUpload row: status (NONE: no row) and received_size
  parts,      \* chunk objects <upload>/parts/<offset>
  staging,    \* object <upload>/assembled: the chunks it was made of
  marked,     \* sessions with an object <upload>/completed
  files,      \* objects under the target paths
  published,  \* history: sessions whose staging object was copied to the target
  aborted,    \* history: sessions whose objects a cancellation has deleted
  crossed,    \* history: sessions of which one completion got in the way of another
  locks,      \* app.state.upload_locks and upload_target_locks of each instance
  req         \* the requests in flight

vars == <<meta, row, parts, staging, marked, files, published, aborted, crossed, locks, req>>

session == <<meta, row>>
objects == <<parts, staging, marked>>
history == <<published, aborted, crossed>>
-----------------------------------------------------------------------------
Sizes == 0 .. MaxSize
Part == {x \in [off : Sizes, len : 1 .. ChunkSize] : x.off + x.len <= MaxSize}
Ops == {"status", "write", "complete", "cancel"}
Pcs == {"idle",      \* no request
        "lock",      \* row loaded and authorised, waiting for the upload lock
        "target",    \* complete: waiting for the target lock
        "held",      \* locks held, row refreshed
        "list",      \* upload_size: no marker seen, parts not listed yet
        "sized",     \* received_size reconciled
        "put",       \* write: body read, chunk object not put yet
        "confirm",   \* write: chunk object there, not committed
        "free",      \* complete: target checked
        "assemble",  \* complete: chunks read, staging object not written
        "verify",    \* complete: staging object written, its size not read
        "copy",      \* complete: staging object there
        "mark",      \* complete: target written, no marker
        "clean",     \* complete: marker written, chunks not deleted
        "record",    \* complete: locks released, not committed
        "drop"}      \* cancel: objects deleted, row not deleted

\* known: the size the request relies on; len: bytes of its body; active: the status
\* a cancellation loaded; read: chunks read for the staging object
Idle == [op |-> "status", pc |-> "idle", u |-> NoUpload, inst |-> NoInstance, known |-> 0, len |-> 0,
         active |-> FALSE, read |-> {}]
Absent == [by |-> NoFile, parts |-> {}]
NoStaging == [there |-> FALSE, parts |-> {}]
NoLocks == [upload |-> [u \in Uploads |-> NoReq], target |-> [p \in Paths |-> NoReq]]

\* size of an object concatenated from the chunks ps in the order of their offsets
ByteCount(ps) == Cardinality({b \in ps \X (1 .. ChunkSize) : b[2] <= b[1].len})
\* the chunks follow each other without a gap (upload_size)
Contiguous(ps) == \A x \in ps : x.off = ByteCount({y \in ps : y.off < x.off})

PathOf(u) == meta[u].path
Total(u) == meta[u].total
Exists(u) == row[u].status # "NONE"
Occupied(p) == files[p].by # NoFile

Row == [status : {"NONE", "ACTIVE", "COMPLETED"}, received : Sizes]
TypeOK ==
  /\ meta \in [Uploads -> [path : Paths, total : Sizes, replace : BOOLEAN, opened : BOOLEAN]]
  /\ row \in [Uploads -> Row]
  /\ parts \in [Uploads -> SUBSET Part]
  /\ \A u \in Uploads : \A x, y \in parts[u] : x.off = y.off => x = y
  /\ staging \in [Uploads -> [there : BOOLEAN, parts : SUBSET Part]]
  /\ marked \cup published \cup aborted \cup crossed \subseteq Uploads
  /\ files \in [Paths -> [by : Uploads \cup {NoFile, Foreign}, parts : SUBSET Part]]
  /\ locks \in [Instances -> [upload : [Uploads -> Requests \cup {NoReq}],
                              target : [Paths -> Requests \cup {NoReq}]]]
  /\ req \in [Requests -> [op : Ops, pc : Pcs, u : Uploads \cup {NoUpload},
                           inst : Instances \cup {NoInstance}, known : Sizes, len : 0 .. ChunkSize,
                           active : BOOLEAN, read : SUBSET Part]]

Init ==
  /\ meta = [u \in Uploads |-> [path |-> CHOOSE p \in Paths : TRUE, total |-> 0,
                                replace |-> FALSE, opened |-> FALSE]]
  /\ row = [u \in Uploads |-> [status |-> "NONE", received |-> 0]]
  /\ parts = [u \in Uploads |-> {}]
  /\ staging = [u \in Uploads |-> NoStaging]
  /\ marked = {}
  /\ files = [p \in Paths |-> Absent]
  /\ published = {} /\ aborted = {} /\ crossed = {}
  /\ locks = [i \in Instances |-> NoLocks]
  /\ req = [r \in Requests |-> Idle]
-----------------------------------------------------------------------------
(* Requests *)

At(r, op, pc) == req[r].op = op /\ req[r].pc = pc
Goto(r, pc) == req' = [req EXCEPT ![r].pc = pc]

\* Leaving the `async with` of r's instance.
Unlock(r) ==
  locks' = [locks EXCEPT ![req[r].inst] =
    [upload |-> [u \in Uploads |-> IF @.upload[u] = r THEN NoReq ELSE @.upload[u]],
     target |-> [p \in Paths |-> IF @.target[p] = r THEN NoReq ELSE @.target[p]]]]

End(r) == req' = [req EXCEPT ![r] = Idle] /\ Unlock(r)

\* A call of r took effect: r goes on, or its reply is lost and r fails.
GoOnOrFail(r, pc) == \/ Goto(r, pc) /\ UNCHANGED locks
                     \/ End(r)

\* start_file_upload over begin_upload: nothing is stored under a new
\* identifier, so only the check of the target and the row count.
StartUpload(u, p, total, rep) ==
  /\ ~meta[u].opened
  /\ Occupied(p) => rep
  /\ meta' = [meta EXCEPT ![u] = [path |-> p, total |-> total, replace |-> rep, opened |-> TRUE]]
  /\ row' = [row EXCEPT ![u] = [status |-> "ACTIVE", received |-> 0]]
  /\ UNCHANGED <<objects, files, history, locks, req>>

\* A request reaches one of the instances and loads its row.
Arrive(r, i, op, u) ==
  /\ req[r].pc = "idle"
  /\ Exists(u)
  /\ op = "write" => row[u].status = "ACTIVE"
  /\ req' = [req EXCEPT ![r] =
       [Idle EXCEPT !.op = op, !.pc = "lock", !.u = u, !.inst = i,
                    !.active = op = "cancel" /\ row[u].status = "ACTIVE"]]
  /\ UNCHANGED <<session, objects, files, history, locks>>

\* `async with upload_lock`, then db.refresh; cancel does not refresh, complete
\* takes the lock of the target first.
TakeUploadLock(r) ==
  LET u == req[r].u
      i == req[r].inst
  IN /\ req[r].pc = "lock"
     /\ locks[i].upload[u] = NoReq
     /\ IF req[r].op \in {"complete", "cancel"} \/ row[u].status = "ACTIVE"
        THEN /\ locks' = [locks EXCEPT ![i].upload[u] = r]
             /\ req' = [req EXCEPT ![r].pc = IF req[r].op = "complete" THEN "target" ELSE "held",
                                   ![r].known = IF req[r].op \in {"cancel", "complete"} THEN 0
                                                ELSE row[u].received]
        ELSE End(r)
     /\ UNCHANGED <<session, objects, files, history>>

TakeTargetLock(r) ==
  LET u == req[r].u
      i == req[r].inst
  IN /\ req[r].pc = "target"
     /\ locks[i].target[PathOf(u)] = NoReq
     /\ IF row[u].status = "ACTIVE"
        THEN /\ locks' = [locks EXCEPT ![i].target[PathOf(u)] = r]
             /\ req' = [req EXCEPT ![r].pc = "held", ![r].known = row[u].received]
        ELSE End(r)
     /\ UNCHANGED <<session, objects, files, history>>

\* Every call to the store may raise before it has any effect.
StoreFails(r) ==
  /\ req[r].op # "cancel"
  /\ req[r].pc \in {"held", "list", "sized", "put", "free", "assemble", "verify",
                   "copy", "mark", "clean"}
  /\ End(r)
  /\ UNCHANGED <<session, objects, files, history>>

\* reconcile_upload_size: n bytes are stored; the row is written if the value
\* loaded differs.  An UPDATE of a deleted row raises.
Reconciled(r, n) ==
  LET u == req[r].u
  IN IF n > Total(u) \/ (n # req[r].known /\ ~Exists(u))
     THEN End(r) /\ UNCHANGED row
     ELSE /\ row' = [row EXCEPT ![u].received = IF n = req[r].known THEN @ ELSE n]
          /\ IF req[r].op = "status" THEN End(r)
             ELSE req' = [req EXCEPT ![r].pc = "sized", ![r].known = n] /\ UNCHANGED locks

\* upload_size asks for the marker first: a marked session has the size of its
\* target, and none when the target has gone.
ReadMarker(r) ==
  LET u == req[r].u
  IN /\ req[r].pc = "held" /\ req[r].op # "cancel"
     /\ IF u \notin marked THEN Goto(r, "list") /\ UNCHANGED <<row, locks>>
        ELSE IF Occupied(PathOf(u)) THEN Reconciled(r, ByteCount(files[PathOf(u)].parts))
        ELSE End(r) /\ UNCHANGED row
     /\ UNCHANGED <<meta, objects, files, history>>

\* ... and lists the chunks afterwards.
ListParts(r) ==
  LET u == req[r].u
  IN /\ req[r].pc = "list"
     /\ IF Contiguous(parts[u]) THEN Reconciled(r, ByteCount(parts[u])) ELSE End(r) /\ UNCHANGED row
     /\ UNCHANGED <<meta, objects, files, history>>

\* 409: the client wrote to another offset than the confirmed one, or bytes are missing.
Refuse(r) ==
  /\ \/ At(r, "write", "sized")
     \/ At(r, "complete", "sized") /\ req[r].known # Total(req[r].u)
  /\ End(r)
  /\ UNCHANGED <<session, objects, files, history>>

\* upload_size as the adapter asks again: what the store holds for u now.
StoredSize(u) ==
  IF u \in marked THEN ByteCount(files[PathOf(u)].parts) ELSE ByteCount(parts[u])
SizeKnown(u) == IF u \in marked THEN Occupied(PathOf(u)) ELSE Contiguous(parts[u])
-----------------------------------------------------------------------------
(* write_upload_chunk *)

\* Mutant of CheckOffset: the length of the body is not bounded by the selected size.
CheckOffsetUnbounded(r, n) ==
  LET u == req[r].u
  IN /\ At(r, "write", "sized")
     /\ SizeKnown(u) /\ StoredSize(u) = req[r].known
     /\ req' = [req EXCEPT ![r].pc = "put", ![r].len = n]
     /\ UNCHANGED <<session, objects, files, history, locks>>

\* The client wrote to the confirmed offset: the size is read again, then a body
\* of n bytes is read into memory.
CheckOffset(r, n) ==
  LET u == req[r].u
  IN /\ At(r, "write", "sized")
     /\ req[r].known + n <= Total(u)
     /\ IF SizeKnown(u) /\ StoredSize(u) = req[r].known
        THEN req' = [req EXCEPT ![r].pc = "put", ![r].len = n] /\ UNCHANGED locks
        ELSE n = 0 /\ End(r)
     /\ UNCHANGED <<session, objects, files, history>>

PartOf(r) == [off |-> req[r].known, len |-> req[r].len]
KeyTaken(r) == \E x \in parts[req[r].u] : x.off = req[r].known

\* Mutant of PutPart: a refused put counts as done whatever the object that is there.
PutPartUnseen(r) ==
  LET u == req[r].u
  IN /\ req[r].pc = "put"
     /\ IF req[r].len = 0 \/ KeyTaken(r) THEN UNCHANGED parts
        ELSE parts' = [parts EXCEPT ![u] = @ \cup {PartOf(r)}]
     /\ GoOnOrFail(r, "confirm")
     /\ UNCHANGED <<session, staging, marked, files, history>>

\* put(overwrite=False) of the chunk; when it raises, a chunk of the same size
\* that is there counts as this one.  An empty body puts nothing.
PutPart(r) ==
  LET u == req[r].u
      part == PartOf(r)
  IN /\ req[r].pc = "put"
     /\ \/ req[r].len = 0 /\ UNCHANGED parts /\ GoOnOrFail(r, "confirm")
        \/ /\ req[r].len > 0 /\ ~KeyTaken(r)
           /\ parts' = [parts EXCEPT ![u] = @ \cup {part}]
           /\ GoOnOrFail(r, "confirm")
        \/ part \in parts[u] /\ UNCHANGED parts /\ GoOnOrFail(r, "confirm")
        \/ KeyTaken(r) /\ part \notin parts[u] /\ UNCHANGED parts /\ End(r)
     /\ UNCHANGED <<session, staging, marked, files, history>>

\* received_size is committed, unless the row has gone.
ConfirmChunk(r) ==
  LET u == req[r].u
      n == req[r].known + req[r].len
  IN /\ req[r].pc = "confirm"
     /\ row' = IF Exists(u) /\ req[r].len > 0 THEN [row EXCEPT ![u].received = n] ELSE row
     /\ End(r)
     /\ UNCHANGED <<meta, objects, files, history>>
-----------------------------------------------------------------------------
(* complete_upload *)

\* A marked session is done if its target has the expected size.  Otherwise
\* the size is compared and the target must be free, unless it is replaced.
CheckComplete(r) ==
  LET u == req[r].u
      same == SizeKnown(u) /\ StoredSize(u) = Total(u)
  IN /\ At(r, "complete", "sized")
     /\ req[r].known = Total(u)
     /\ \/ same /\ u \in marked /\ Goto(r, "record") /\ Unlock(r)
        \/ same /\ u \notin marked /\ (Occupied(PathOf(u)) => meta[u].replace)
           /\ req' = [req EXCEPT ![r].pc = "free", ![r].known = 0] /\ UNCHANGED locks
        \/ (~same \/ (u \notin marked /\ Occupied(PathOf(u)) /\ ~meta[u].replace)) /\ End(r)
     /\ UNCHANGED <<session, objects, files, history>>

\* A completion gets in the way of the others if it lists chunks that leave a gap (put
\* by a late write, after the publication and the clean-up of another completion), or
\* replaces the staging object that another one is about to copy by one of another size.
Crossing(u, b) == crossed' = IF b /\ u \notin aborted THEN crossed \cup {u} ELSE crossed
AboutToCopy(u) == \E k \in Requests : req[k].pc = "copy" /\ req[k].u = u

\* _assemble_staging_blob: a staging object of an earlier attempt is used if it
\* has the expected size, else the chunks are listed and read.
FindStaging(r) ==
  LET u == req[r].u
  IN /\ req[r].pc = "free"
     /\ IF ~staging[u].there
        THEN req' = [req EXCEPT ![r].pc = "assemble", ![r].read = parts[u]] /\ UNCHANGED locks
        ELSE IF ByteCount(staging[u].parts) = Total(u) THEN Goto(r, "copy") /\ UNCHANGED locks
        ELSE End(r)
     /\ Crossing(u, ~staging[u].there /\ ~Contiguous(parts[u]))
     /\ UNCHANGED <<session, objects, files, published, aborted>>

\* The multipart upload makes the staging object of the chunks read.  (A chunk that
\* was deleted since the listing raises: StoreFails.  Whether a completion without
\* chunks raises or makes an empty object is the store's affair; both are allowed.)
Assemble(r) ==
  LET u == req[r].u
  IN /\ req[r].pc = "assemble"
     /\ staging' = [staging EXCEPT ![u] = [there |-> TRUE, parts |-> req[r].read]]
     /\ \/ req' = [req EXCEPT ![r].pc = "verify", ![r].read = {}] /\ UNCHANGED locks
        \/ End(r)
     /\ Crossing(u, AboutToCopy(u) /\ ByteCount(req[r].read) # Total(u))
     /\ UNCHANGED <<session, parts, marked, files, published, aborted>>

\* Mutant of VerifyStaging: the size of the staging object is not verified.
StagingUnverified(r) ==
  /\ req[r].pc = "verify"
  /\ Goto(r, "copy")
  /\ UNCHANGED <<session, objects, files, history, locks>>

\* The size of the staging object that is there by now must be that of the file.
VerifyStaging(r) ==
  LET u == req[r].u
  IN /\ req[r].pc = "verify"
     /\ IF staging[u].there /\ ByteCount(staging[u].parts) = Total(u)
        THEN Goto(r, "copy") /\ UNCHANGED locks
        ELSE End(r)
     /\ UNCHANGED <<session, objects, files, history>>

\* Mutant of MayCopy: the copy always overwrites.
MayCopyOver(u) == staging[u].there
MayCopy(u) == staging[u].there /\ (Occupied(PathOf(u)) => meta[u].replace)

\* Mutant of CopyToTarget: a refused copy does not end the request.
CopyIgnoringConflict(r) ==
  LET u == req[r].u
  IN /\ req[r].pc = "copy"
     /\ IF MayCopy(u)
        THEN /\ files' = [files EXCEPT ![PathOf(u)] = [by |-> u, parts |-> staging[u].parts]]
             /\ published' = published \cup {u}
        ELSE UNCHANGED <<files, published>>
     /\ Goto(r, "mark")
     /\ UNCHANGED <<session, objects, aborted, crossed, locks>>

\* copy(overwrite=replace) of the staging object to the target key.
CopyToTarget(r) ==
  LET u == req[r].u
  IN /\ req[r].pc = "copy"
     /\ IF MayCopy(u)
        THEN /\ files' = [files EXCEPT ![PathOf(u)] = [by |-> u, parts |-> staging[u].parts]]
             /\ published' = published \cup {u}
             /\ GoOnOrFail(r, "mark")
        ELSE End(r) /\ UNCHANGED <<files, published>>
     /\ UNCHANGED <<session, objects, aborted, crossed>>

\* put of the marker, then the chunks and the staging object are deleted.
PutMarker(r) ==
  /\ req[r].pc = "mark"
  /\ marked' = marked \cup {req[r].u}
  /\ GoOnOrFail(r, "clean")
  /\ UNCHANGED <<session, parts, staging, files, history>>

CleanUp(r) ==
  LET u == req[r].u
  IN /\ req[r].pc = "clean"
     /\ parts' = [parts EXCEPT ![u] = {}]
     /\ staging' = [staging EXCEPT ![u] = NoStaging]
     /\ \/ Goto(r, "record") /\ Unlock(r)
        \/ End(r)
     /\ UNCHANGED <<session, marked, files, history>>

\* The COMPLETED status is committed after both locks were left; an UPDATE of a
\* row that has gone raises.
RecordCompletion(r) ==
  LET u == req[r].u
  IN /\ req[r].pc = "record"
     /\ row' = IF Exists(u) THEN [row EXCEPT ![u].status = "COMPLETED"] ELSE row
     /\ End(r)
     /\ UNCHANGED <<meta, objects, files, history>>
-----------------------------------------------------------------------------
(* cancel_file_upload, with the status loaded before the lock *)

\* abort_upload deletes every object of the session, or fails and is ignored.
CancelAbort(r) ==
  LET u == req[r].u
  IN /\ At(r, "cancel", "held")
     /\ \/ /\ req[r].active
           /\ parts' = [parts EXCEPT ![u] = {}]
           /\ staging' = [staging EXCEPT ![u] = NoStaging]
           /\ marked' = marked \ {u}
           /\ aborted' = aborted \cup {u}
        \/ UNCHANGED <<objects, aborted>>
     /\ Goto(r, "drop")
     /\ UNCHANGED <<session, files, published, crossed, locks>>

CancelDelete(r) ==
  /\ req[r].pc = "drop"
  /\ row' = [row EXCEPT ![req[r].u] = [status |-> "NONE", received |-> 0]]
  /\ End(r)
  /\ UNCHANGED <<meta, objects, files, history>>
-----------------------------------------------------------------------------
(* The other file operations, which take no lock, and the end of an instance. *)

\* move of a file from p, or from a folder no session uploads to (NoPath):
\* copy(overwrite=False) to the destination.  The delete that follows takes
\* whatever has the key of the source by then (DeleteItem), or is never made.
\* A file of someone else is empty here: only a marked session asks for its size.
MoveCopy(p, q) ==
  /\ ~Occupied(q)
  /\ p # NoPath => Occupied(p)
  /\ files' = [files EXCEPT ![q] = IF p = NoPath THEN [by |-> Foreign, parts |-> {}] ELSE files[p]]
  /\ UNCHANGED <<session, objects, history, locks, req>>

\* delete of a file, by delete_item or at the end of a move
DeleteItem(p) ==
  /\ Occupied(p)
  /\ files' = [files EXCEPT ![p] = Absent]
  /\ UNCHANGED <<session, objects, history, locks, req>>

\* Instance i dies with its requests and locks.
Crash(i) ==
  /\ req' = [r \in Requests |-> IF req[r].inst = i THEN Idle ELSE req[r]]
  /\ locks' = [locks EXCEPT ![i] = NoLocks]
  /\ UNCHANGED <<session, objects, files, history>>
-----------------------------------------------------------------------------
Handle(r) ==
  \/ TakeUploadLock(r) \/ TakeTargetLock(r) \/ StoreFails(r)
  \/ ReadMarker(r) \/ ListParts(r) \/ Refuse(r)
  \/ (\E n \in 0 .. ChunkSize : CheckOffset(r, n)) \/ PutPart(r) \/ ConfirmChunk(r)
  \/ CheckComplete(r) \/ FindStaging(r) \/ Assemble(r) \/ VerifyStaging(r) \/ CopyToTarget(r)
  \/ PutMarker(r) \/ CleanUp(r) \/ RecordCompletion(r)
  \/ CancelAbort(r) \/ CancelDelete(r)

Next ==
  \/ \E u \in Uploads, p \in Paths, n \in Sizes, rep \in BOOLEAN : StartUpload(u, p, n, rep)
  \/ \E r \in Requests, i \in Instances, op \in Ops, u \in Uploads : Arrive(r, i, op, u)
  \/ \E r \in Requests : Handle(r)
  \/ \E p \in Paths \cup {NoPath}, q \in Paths : MoveCopy(p, q)
  \/ \E p \in Paths : DeleteItem(p)
  \/ \E i \in Instances : Crash(i)

Spec == Init /\ [][Next]_vars
-----------------------------------------------------------------------------
(* Properties *)

\* Bytes acknowledged to a client stay in the chunk objects of an open session,
\* although two instances may write, reconcile and complete it at the same time
\* and nothing but the keys of the store excludes them: only a cancellation or a
\* publication takes them away (write_upload_chunk, reconcile_upload_size).
AckedBytesDurable ==
  \A u \in Uploads :
    row[u].status = "ACTIVE" /\ u \notin marked \cup aborted
    => \A b \in 0 .. row[u].received - 1 : \E x \in parts[u] : x.off <= b /\ b < x.off + x.len

Whole(p) == Contiguous(files[p].parts) /\ ByteCount(files[p].parts) = Total(files[p].by)

\* A session completed and written to on several instances at once never shows a file
\* with missing, doubled or displaced chunks, the late assembly of an instance whose
\* rival has published and cleaned up included (_assemble_staging_blob).  What can
\* tear a file is a cancellation or, once the session is marked, a third request
\* between the assembly and the copy of another one (Crossing).
WholeUnlessCancelled ==
  /\ \A p \in Paths : files[p].by \in Uploads \ (aborted \cup crossed) => Whole(p)
  /\ crossed \subseteq marked \cup aborted

\* Success is reported only about a session whose file reached its target, and the
\* marker a retry relies on says so too ("must not report success until the final
\* state is verified", spec/04-sftp-and-files.md:91).
SuccessIsPublished ==
  \A u \in Uploads : u \in marked \/ row[u].status = "COMPLETED" => u \in published

\* An existing file is replaced by a session opened with replace or it is deleted
\* first, although the target locks of two instances do not know each other and
\* a move takes none ("Existing destinations are never silently overwritten").
NoSilentOverwrite ==
  [][\A p \in Paths : Occupied(p) /\ files'[p] # files[p] =>
       \/ files'[p].by = NoFile
       \/ files'[p].by \in Uploads /\ meta[files'[p].by].replace]_vars
=============================================================================
