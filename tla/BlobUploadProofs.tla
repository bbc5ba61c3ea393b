-------------------------- MODULE BlobUploadProofs --------------------------
(***************************************************************************)
(* The safety properties of BlobUpload, proved for any number of sessions, *)
(* paths, instances and requests and every file and chunk size.            *)
(*                                                                         *)
(* The locks of instances exclude nothing, the keys of the store do: a     *)
(* write puts its chunk at the end of the chunks it saw, and if a rival    *)
(* was faster the key of that offset is taken (WriteFits).  So until the   *)
(* marker or a cancellation chunks only come to the end, leave no gap and  *)
(* cover what was acknowledged (Chunks), and a completion that found as    *)
(* many bytes as the file has lists the whole file (CompleteFits).         *)
(***************************************************************************)
EXTENDS BlobUpload, FiniteSetTheorems, TLAPS

(* The size of an object made of chunks *)

Bytes(ps) == {b \in ps \X (1 .. ChunkSize) : b[2] <= b[1].len}

\* There are finitely many chunks, since a file has at most MaxSize bytes.
LEMMA PartsFinite == IsFiniteSet(Part)
  <1> DEFINE Pairs == Sizes \X (1 .. ChunkSize)
             f == [x \in Part |-> <<x.off, x.len>>]
  <1>1. IsFiniteSet(Pairs)
    <2>1. IsFiniteSet(Sizes) /\ IsFiniteSet(1 .. ChunkSize)  BY FS_Interval, SizeAssumption DEF Sizes
    <2> QED
      BY <2>1, FS_Product
  <1>2. f \in Injection(Part, Pairs)
    <2>1. f \in [Part -> Pairs]  BY DEF Part
    <2>2. \A x, y \in Part : f[x] = f[y] => x = y  BY DEF Part
    <2> QED
      BY <2>1, <2>2 DEF Injection, IsInjective
  <1> HIDE DEF Pairs, f
  <1> QED
    BY <1>1, <1>2, FS_Injection

\* The bytes of a set of chunks are finitely many.
LEMMA BytesFinite == ASSUME NEW ps \in SUBSET Part PROVE IsFiniteSet(Bytes(ps))
  <1>1. IsFiniteSet(1 .. ChunkSize)  BY FS_Interval, SizeAssumption
  <1>2. IsFiniteSet(Part \X (1 .. ChunkSize))  BY <1>1, PartsFinite, FS_Product
  <1>3. Bytes(ps) \in SUBSET (Part \X (1 .. ChunkSize))  BY DEF Bytes
  <1> QED
    BY <1>2, <1>3, FS_Subset

\* Their number is a natural number.
LEMMA ByteCountType == ASSUME NEW ps \in SUBSET Part PROVE ByteCount(ps) \in Nat
  BY BytesFinite, FS_CardinalityType DEF ByteCount, Bytes

\* No chunks have no bytes.
LEMMA ByteCountEmpty == ByteCount({}) = 0
  <1>1. Bytes({}) = {}  BY DEF Bytes
  <1> QED
    BY <1>1, FS_EmptySet DEF ByteCount, Bytes

\* More chunks have no fewer bytes.
LEMMA ByteCountMonotone ==
  ASSUME NEW qs \in SUBSET Part, NEW ps \in SUBSET qs PROVE ByteCount(ps) <= ByteCount(qs)
  <1>1. Bytes(ps) \in SUBSET Bytes(qs)  BY DEF Bytes
  <1> QED
    BY <1>1, BytesFinite, FS_Subset DEF ByteCount, Bytes

\* A chunk adds its length.
LEMMA ByteCountAdd ==
  ASSUME NEW ps \in SUBSET Part, NEW x \in Part, x \notin ps
  PROVE  ByteCount(ps \cup {x}) = ByteCount(ps) + x.len
  <1> DEFINE own == {x} \X (1 .. x.len)
  <1>1. x.len \in 1 .. ChunkSize  BY DEF Part
  <1>2. x.len \in Nat /\ 1 .. x.len \subseteq 1 .. ChunkSize  BY <1>1, SizeAssumption
  <1>3. IsFiniteSet(own) /\ Cardinality(own) = x.len
    <2>1. IsFiniteSet(1 .. x.len) /\ Cardinality(1 .. x.len) = x.len  BY <1>2, FS_Interval
    <2>2. IsFiniteSet({x}) /\ Cardinality({x}) = 1  BY FS_Singleton
    <2>3. IsFiniteSet(own) /\ Cardinality(own) = Cardinality({x}) * Cardinality(1 .. x.len)
      BY <2>1, <2>2, FS_Product
    <2> QED
      BY <1>2, <2>1, <2>2, <2>3
  <1>4. Bytes(ps \cup {x}) = Bytes(ps) \cup own
    <2>1. \A n \in 1 .. ChunkSize : n <= x.len <=> n \in 1 .. x.len  BY <1>1, SizeAssumption
    <2> QED
      BY <1>2, <2>1 DEF Bytes
  <1>5. Bytes(ps) \cap own = {}  BY DEF Bytes
  <1>6. IsFiniteSet(Bytes(ps))  BY BytesFinite
  <1> HIDE DEF own
  <1>7. Cardinality(Bytes(ps) \cup own) = Cardinality(Bytes(ps)) + x.len - Cardinality({})
    BY <1>3, <1>5, <1>6, FS_Union
  <1>8. Cardinality(Bytes(ps)) \in Nat  BY <1>6, FS_CardinalityType
  <1>9. ByteCount(ps) = Cardinality(Bytes(ps)) /\ ByteCount(ps \cup {x}) = Cardinality(Bytes(ps) \cup own)
    BY <1>4 DEF ByteCount, Bytes
  <1>10. Cardinality({}) = 0  BY FS_EmptySet
  <1> QED
    BY <1>2, <1>7, <1>8, <1>9, <1>10

\* Chunks without a gap: each of them ends within the object.
LEMMA ChunkEndsWithin ==
  ASSUME NEW ps \in SUBSET Part, Contiguous(ps), NEW x \in ps
  PROVE  x.off + x.len <= ByteCount(ps)
  <1> DEFINE before == {y \in ps : y.off < x.off}
  <1>1. x \in Part /\ x.off \in Nat /\ before \in SUBSET Part /\ before \in SUBSET ps  BY SizeAssumption DEF Part, Sizes
  <1>2. x \notin before  BY <1>1
  <1>3. x.off = ByteCount(before)  BY DEF Contiguous
  <1> HIDE DEF before
  <1>4. ByteCount(before \cup {x}) = x.off + x.len  BY <1>1, <1>2, <1>3, ByteCountAdd
  <1>5. before \cup {x} \in SUBSET ps  BY <1>1
  <1> QED
    BY <1>4, <1>5, ByteCountMonotone

\* A chunk put at their end leaves no gap either.
LEMMA AppendChunk ==
  ASSUME NEW ps \in SUBSET Part, Contiguous(ps), NEW x \in Part, x.off = ByteCount(ps)
  PROVE  x \notin ps /\ Contiguous(ps \cup {x}) /\ ByteCount(ps \cup {x}) = ByteCount(ps) + x.len
  <1>1. \A y \in ps : y.off < x.off
    <2> SUFFICES ASSUME NEW y \in ps PROVE y.off < x.off
      OBVIOUS
    <2>1. y.off + y.len <= ByteCount(ps)  BY ChunkEndsWithin
    <2>2. y.off \in Nat /\ y.len \in Nat \ {0}  BY SizeAssumption DEF Part, Sizes
    <2>3. ByteCount(ps) \in Nat  BY ByteCountType
    <2> QED
      BY <2>1, <2>2, <2>3
  <1>2. x.off \in Nat /\ \A y \in ps : y.off \in Nat  BY SizeAssumption DEF Part, Sizes
  <1>3. x \notin ps  BY <1>1, <1>2
  <1>4. ASSUME NEW y \in ps \cup {x} PROVE y.off = ByteCount({z \in ps \cup {x} : z.off < y.off})
    <2>1. CASE y = x
      <3>1. {z \in ps \cup {x} : z.off < y.off} = ps  BY <1>1, <1>2, <2>1
      <3> QED
        BY <2>1, <3>1
    <2>2. CASE y \in ps
      <3>1. {z \in ps \cup {x} : z.off < y.off} = {z \in ps : z.off < y.off}  BY <1>1, <1>2, <2>2
      <3> QED
        BY <2>2, <3>1 DEF Contiguous
    <2> QED
      BY <1>4, <2>1, <2>2
  <1> QED
    BY <1>3, <1>4, ByteCountAdd DEF Contiguous
-----------------------------------------------------------------------------
(* The inductive invariant *)

StoreOK ==
  /\ meta \in [Uploads -> [path : Paths, total : Sizes, replace : BOOLEAN, opened : BOOLEAN]]
  /\ row \in [Uploads -> Row]
  /\ parts \in [Uploads -> SUBSET Part]
  /\ \A u \in Uploads : \A x, y \in parts[u] : x.off = y.off => x = y
  /\ staging \in [Uploads -> [there : BOOLEAN, parts : SUBSET Part]]
  /\ marked \cup published \cup aborted \cup crossed \subseteq Uploads
  /\ files \in [Paths -> [by : Uploads \cup {NoFile, Foreign}, parts : SUBSET Part]]

Locks == [upload : [Uploads -> Requests \cup {NoReq}], target : [Paths -> Requests \cup {NoReq}]]
LocksOK == locks \in [Instances -> Locks]

Req == [op : Ops, pc : Pcs, u : Uploads \cup {NoUpload}, inst : Instances \cup {NoInstance},
        known : Sizes, len : 0 .. ChunkSize, active : BOOLEAN, read : SUBSET Part]

Intact(u) == u \notin marked \cup aborted
Sound(u) == u \notin aborted \cup crossed

\* A session that was never started has no row, no chunks and no file.
Fresh ==
  \A u \in Uploads : ~meta[u].opened =>
    /\ row[u] = [status |-> "NONE", received |-> 0]
    /\ parts[u] = {}
    /\ \A p \in Paths : files[p].by # u

\* Until the marker or a cancellation the chunks leave no gap, cover every byte they
\* count, and count no more than the file has and no less than the row says.
Chunks ==
  \A u \in Uploads : Intact(u) =>
    /\ Contiguous(parts[u])
    /\ \A b \in 0 .. ByteCount(parts[u]) - 1 : \E x \in parts[u] : x.off <= b /\ b < x.off + x.len
    /\ row[u].received <= ByteCount(parts[u]) /\ ByteCount(parts[u]) <= Total(u)

\* A staging object may be too short, but it leaves no gap.
Staged == \A u \in Uploads : Sound(u) => Contiguous(staging[u].parts)

World == StoreOK /\ Fresh /\ Chunks /\ Staged /\ SuccessIsPublished /\ WholeUnlessCancelled

\* What a write in flight relies on: its offset was the end of the chunks, and if a
\* rival has put a chunk since, the key of that offset is taken.
WriteFits(q) ==
  /\ q.pc \in {"put", "confirm"} => q.known + q.len <= Total(q.u)
  /\ Intact(q.u) /\ (q.pc = "put" \/ (q.pc = "sized" /\ q.op = "write")) =>
       q.known = ByteCount(parts[q.u]) \/ \E x \in parts[q.u] : x.off = q.known
  /\ Intact(q.u) /\ q.pc = "confirm" => q.known + q.len <= ByteCount(parts[q.u])

\* What a completion in flight relies on: all chunks were there when it checked, it
\* read them in order, and the staging object that it is about to copy, if it is
\* still there, has the size of the file.
CompleteFits(q) ==
  /\ q.pc = "free" /\ Intact(q.u) => ByteCount(parts[q.u]) = Total(q.u)
  /\ q.pc = "assemble" /\ Intact(q.u) => ByteCount(q.read) = Total(q.u)
  /\ Sound(q.u) => Contiguous(q.read)
  /\ q.pc = "copy" /\ Sound(q.u) /\ staging[q.u].there => ByteCount(staging[q.u].parts) = Total(q.u)
  /\ q.pc \in {"mark", "clean", "record"} => q.u \in published
  /\ q.pc = "clean" => q.u \in marked \cup aborted

Fits(q) ==
  q.pc # "idle" =>
    /\ q.u \in Uploads /\ q.inst \in Instances /\ meta[q.u].opened
    /\ WriteFits(q) /\ CompleteFits(q)

Reqs == req \in [Requests -> Req] /\ \A r \in Requests : Fits(req[r])

IInv == World /\ LocksOK /\ Reqs

\* The parts of the type invariant.
LEMMA TypeParts == TypeOK <=> StoreOK /\ LocksOK /\ req \in [Requests -> Req]
  BY DEF TypeOK, StoreOK, LocksOK, Locks, Req

\* Chunks without a gap cover the bytes they count, one more at their end included.
LEMMA AppendCovers ==
  ASSUME NEW ps \in SUBSET Part, NEW x \in Part, x.off = ByteCount(ps),
         \A b \in 0 .. ByteCount(ps) - 1 : \E y \in ps : y.off <= b /\ b < y.off + y.len
  PROVE  \A b \in 0 .. ByteCount(ps) + x.len - 1 : \E y \in ps \cup {x} : y.off <= b /\ b < y.off + y.len
  <1>1. ByteCount(ps) \in Nat /\ x.len \in Nat  BY ByteCountType, SizeAssumption DEF Part
  <1> SUFFICES ASSUME NEW b \in 0 .. ByteCount(ps) + x.len - 1
               PROVE  \E y \in ps \cup {x} : y.off <= b /\ b < y.off + y.len
    OBVIOUS
  <1>2. CASE b < ByteCount(ps)
    <2>1. b \in 0 .. ByteCount(ps) - 1  BY <1>1, <1>2
    <2> QED
      BY <2>1
  <1>3. CASE ~(b < ByteCount(ps))
    <2>1. x.off <= b /\ b < x.off + x.len  BY <1>1, <1>3
    <2> QED
      BY <2>1
  <1> QED
    BY <1>2, <1>3
-----------------------------------------------------------------------------
(* What a step leaves alone *)

\* Nothing that the requests for session u rely on has changed.
Kept(u) ==
  /\ meta'[u] = meta[u]
  /\ Intact(u)' => Intact(u) /\ parts'[u] = parts[u]
  /\ Sound(u)' => Sound(u) /\ (staging'[u] = staging[u] \/ ~staging'[u].there)
  /\ (u \in published => u \in published') /\ (~Intact(u) => ~Intact(u)')

\* A request goes on relying on what has not changed.
LEMMA FitsKept ==
  ASSUME NEW q \in Req, Fits(q), q.pc # "idle" => Kept(q.u) PROVE Fits(q)'
  BY DEF Fits, WriteFits, CompleteFits, Kept, Intact, Sound, Total

\* A step of r that replaces its request by q.
LEMMA ReqsStep ==
  ASSUME Reqs, NEW r \in Requests, NEW q \in Req, req' = [req EXCEPT ![r] = q], Fits(q)',
         \A k \in Req : Fits(k) /\ (\E j \in Requests : req[j] = k) => Fits(k)'
  PROVE  Reqs'
  <1>1. req' \in [Requests -> Req]  BY DEF Reqs
  <1>2. ASSUME NEW j \in Requests PROVE Fits(req[j])'
    <2>1. CASE j = r
      <3>1. req'[j] = q  BY <2>1 DEF Reqs
      <3> QED
        BY <3>1 DEF Fits, WriteFits, CompleteFits, Intact, Sound, Total
    <2>2. CASE j # r
      <3>1. PICK k \in Req : k = req[j]  BY DEF Reqs
      <3>2. req'[j] = k  BY <2>2, <3>1 DEF Reqs
      <3>3. Fits(k)'  BY <3>1 DEF Reqs
      <3> QED
        BY <3>2, <3>3 DEF Fits, WriteFits, CompleteFits, Intact, Sound, Total
    <2> QED
      BY <2>1, <2>2
  <1> QED
    BY <1>1, <1>2 DEF Reqs

\* A step that leaves the store and the rows alone leaves what is said of them true.
LEMMA WorldKept == ASSUME World, UNCHANGED <<session, objects, files, history>> PROVE World'
  BY DEF World, StoreOK, Fresh, Chunks, Staged, SuccessIsPublished, WholeUnlessCancelled, Intact, Sound, Total,
         Whole, session, objects, history

\* A row of a started session is written.
LEMMA RowWritten ==
  ASSUME World, NEW u \in Uploads, meta[u].opened, NEW w \in Row, row' = [row EXCEPT ![u] = w],
         UNCHANGED <<meta, objects, files, history>>,
         Intact(u) => w.received <= ByteCount(parts[u]), w.status = "COMPLETED" => u \in published
  PROVE  World'
  <1> USE DEF World, objects, history
  <1>1. StoreOK'  BY DEF StoreOK
  <1>2. Fresh'  BY DEF Fresh, StoreOK
  <1>3. Chunks'  BY DEF Chunks, StoreOK, Intact, Total
  <1>4. Staged' /\ WholeUnlessCancelled'  BY DEF Staged, Sound, WholeUnlessCancelled, Whole, Total
  <1>5. SuccessIsPublished'  BY DEF SuccessIsPublished, StoreOK
  <1> QED
    BY <1>1, <1>2, <1>3, <1>4, <1>5

\* No request, and one that has ended.
LEMMA IdleFits == Idle \in Req /\ Fits(Idle) /\ Fits(Idle)'
  BY SizeAssumption DEF Idle, Req, Fits, Ops, Pcs, Sizes

\* Leaving the locks keeps their type.
LEMMA UnlockType == ASSUME LocksOK, NEW r \in Requests, Unlock(r) PROVE LocksOK'
  BY DEF LocksOK, Locks, Unlock

\* A step of r that leaves the store and the rows alone.
LEMMA QuietStep ==
  ASSUME IInv, NEW r \in Requests, NEW q \in Req, req' = [req EXCEPT ![r] = q], Fits(q),
         UNCHANGED <<session, objects, files, history>>, LocksOK'
  PROVE  IInv'
  <1>1. World'  BY WorldKept DEF IInv
  <1>2. \A u \in Uploads : Kept(u)  BY DEF Kept, Intact, Sound, session, objects, history
  <1>3. \A k \in Req : Fits(k) => Fits(k)'  BY <1>2, FitsKept DEF Fits
  <1>4. Reqs'  BY <1>3, ReqsStep DEF IInv
  <1> QED
    BY <1>1, <1>4 DEF IInv

\* A step of r that writes the row of a started session.
LEMMA RowStep ==
  ASSUME IInv, NEW r \in Requests, NEW q \in Req, req' = [req EXCEPT ![r] = q], Fits(q), LocksOK',
         NEW u \in Uploads, meta[u].opened, NEW w \in Row, row' = [row EXCEPT ![u] = w],
         UNCHANGED <<meta, objects, files, history>>,
         Intact(u) => w.received <= ByteCount(parts[u]), w.status = "COMPLETED" => u \in published
  PROVE  IInv'
  <1>1. World'  BY RowWritten DEF IInv
  <1>2. \A v \in Uploads : Kept(v)  BY DEF Kept, Intact, Sound, objects, history
  <1>3. \A k \in Req : Fits(k) => Fits(k)'  BY <1>2, FitsKept DEF Fits
  <1>4. Reqs'  BY <1>3, ReqsStep DEF IInv
  <1> QED
    BY <1>1, <1>4 DEF IInv

\* A request ends and leaves everything else alone.
LEMMA EndStep ==
  ASSUME IInv, NEW r \in Requests, End(r), UNCHANGED <<session, objects, files, history>> PROVE IInv'
  <1>1. req' = [req EXCEPT ![r] = Idle] /\ LocksOK'  BY UnlockType DEF End, IInv
  <1> QED
    BY <1>1, IdleFits, QuietStep

\* What the request of an action is known to be.
LEMMA AtWork ==
  ASSUME IInv, NEW r \in Requests, req[r].pc # "idle"
  PROVE  /\ req[r] \in Req /\ Fits(req[r])
         /\ req[r].u \in Uploads /\ req[r].inst \in Instances /\ meta[req[r].u].opened
         /\ Total(req[r].u) \in Sizes /\ PathOf(req[r].u) \in Paths /\ parts[req[r].u] \in SUBSET Part
         /\ row[req[r].u] \in Row
  BY DEF IInv, World, StoreOK, Reqs, Fits, Total, PathOf
-----------------------------------------------------------------------------
(* One lemma per action *)

\* A request arrives for a session that was started.
LEMMA ArriveStep ==
  ASSUME IInv, NEW r \in Requests, NEW i \in Instances, NEW op \in Ops, NEW u \in Uploads, Arrive(r, i, op, u)
  PROVE  IInv'
  <1>1. meta[u].opened  BY DEF IInv, World, Fresh, Arrive, Exists
  <1> PICK b \in BOOLEAN : b = (op = "cancel" /\ row[u].status = "ACTIVE")
    OBVIOUS
  <1> DEFINE q == [Idle EXCEPT !.op = op, !.pc = "lock", !.u = u, !.inst = i, !.active = b]
  <1>2. q \in Req
    <2> DEFINE q0 == [Idle EXCEPT !.op = op, !.pc = "lock", !.u = u, !.inst = i]
    <2>1. q0 \in Req  BY IdleFits DEF Req, Pcs
    <2>2. q = [q0 EXCEPT !.active = b]  BY DEF Idle
    <2> HIDE DEF q0, q
    <2> QED
      BY <2>1, <2>2 DEF Req
  <1>3. q.pc = "lock" /\ q.u = u /\ q.inst = i /\ q.read = {}  BY DEF Idle
  <1>4. req' = [req EXCEPT ![r] = q] /\ UNCHANGED <<session, objects, files, history, locks>>
    BY Zenon DEF Arrive
  <1> HIDE DEF q
  <1>5. Fits(q)  BY <1>1, <1>3 DEF Fits, WriteFits, CompleteFits, Contiguous
  <1>6. LocksOK'  BY <1>4 DEF IInv, LocksOK
  <1> QED
    BY <1>2, <1>4, <1>5, <1>6, QuietStep

\* The lock of a session excludes only the requests of one instance: nothing is relied on yet.
LEMMA TakeUploadLockStep == ASSUME IInv, NEW r \in Requests, TakeUploadLock(r) PROVE IInv'
  <1> DEFINE u == req[r].u
             i == req[r].inst
             known == IF req[r].op \in {"cancel", "complete"} THEN 0 ELSE row[u].received
             pc == IF req[r].op = "complete" THEN "target" ELSE "held"
             q == [req[r] EXCEPT !.pc = pc, !.known = known]
  <1>1. req[r].pc = "lock" /\ UNCHANGED <<session, objects, files, history>>  BY DEF TakeUploadLock
  <1>2. CASE End(r)  BY <1>1, <1>2, EndStep
  <1>3. CASE /\ locks' = [locks EXCEPT ![i].upload[u] = r]
             /\ req' = [req EXCEPT ![r].pc = pc, ![r].known = known]
    <2>1. known \in Sizes /\ pc \in {"target", "held"}  BY <1>1, AtWork, SizeAssumption DEF Row, Sizes
    <2>2. req' = [req EXCEPT ![r] = q]  BY <1>3
    <2>3. LocksOK'  BY <1>1, <1>3, AtWork DEF IInv, LocksOK, Locks
    <2> HIDE DEF known, pc
    <2>4. q \in Req /\ q.pc = pc /\ q.u = u /\ q.inst = i /\ q.read = req[r].read
      BY <1>1, <2>1, AtWork DEF Req, Pcs
    <2> HIDE DEF q
    <2>5. Fits(q)  BY <1>1, <2>1, <2>4, AtWork DEF Fits, WriteFits, CompleteFits
    <2> QED
      BY <1>1, <2>2, <2>3, <2>4, <2>5, QuietStep
  <1> QED
    BY <1>2, <1>3 DEF TakeUploadLock

\* Nor behind the lock of the target.
LEMMA TakeTargetLockStep == ASSUME IInv, NEW r \in Requests, TakeTargetLock(r) PROVE IInv'
  <1> DEFINE u == req[r].u
             i == req[r].inst
             q == [req[r] EXCEPT !.pc = "held", !.known = row[u].received]
  <1>1. req[r].pc = "target" /\ UNCHANGED <<session, objects, files, history>>  BY DEF TakeTargetLock
  <1>2. CASE End(r)  BY <1>1, <1>2, EndStep
  <1>3. CASE /\ locks' = [locks EXCEPT ![i].target[PathOf(u)] = r]
             /\ req' = [req EXCEPT ![r].pc = "held", ![r].known = row[u].received]
    <2>1. req' = [req EXCEPT ![r] = q]  BY <1>3
    <2>2. LocksOK'  BY <1>1, <1>3, AtWork DEF IInv, LocksOK, Locks
    <2>3. q \in Req /\ q.pc = "held" /\ q.u = u /\ q.inst = i /\ q.read = req[r].read
      BY <1>1, AtWork DEF Req, Pcs, Row
    <2> HIDE DEF q
    <2>4. Fits(q)  BY <1>1, <2>3, AtWork DEF Fits, WriteFits, CompleteFits
    <2> QED
      BY <1>1, <2>1, <2>2, <2>3, <2>4, QuietStep
  <1> QED
    BY <1>2, <1>3 DEF TakeTargetLock

\* A call that raises ends its request.
LEMMA StoreFailsStep == ASSUME IInv, NEW r \in Requests, StoreFails(r) PROVE IInv'
  BY EndStep DEF StoreFails

\* A 409 ends its request.
LEMMA RefuseStep == ASSUME IInv, NEW r \in Requests, Refuse(r) PROVE IInv'
  BY EndStep DEF Refuse

\* upload_size has found n bytes.  Until the marker these are the chunks.
LEMMA ReconciledStep ==
  ASSUME IInv, NEW r \in Requests, req[r].pc # "idle", NEW n \in Nat, Reconciled(r, n),
         Intact(req[r].u) => n = ByteCount(parts[req[r].u]), UNCHANGED <<meta, objects, files, history>>
  PROVE  IInv'
  <1> DEFINE u == req[r].u
             w == [row[u] EXCEPT !.received = IF n = req[r].known THEN @ ELSE n]
  <1>1. CASE End(r) /\ UNCHANGED row  BY <1>1, EndStep DEF session
  <1>2. CASE n <= Total(u) /\ row' = [row EXCEPT ![u].received = IF n = req[r].known THEN @ ELSE n]
    <2>1. n \in Sizes  BY <1>2, AtWork, SizeAssumption DEF Sizes
    <2>2. row' = [row EXCEPT ![u] = w]  BY <1>2
    <2>3. w \in Row /\ w.status = row[u].status /\ (w.received = row[u].received \/ w.received = n)
      BY <2>1, AtWork DEF Row
    <2> HIDE DEF w
    <2>4. Intact(u) => w.received <= ByteCount(parts[u])
      BY <2>3, AtWork DEF IInv, World, Chunks
    <2>5. w.status = "COMPLETED" => u \in published  BY <2>3, AtWork DEF IInv, World, SuccessIsPublished
    <2>6. CASE End(r)
      <3>1. req' = [req EXCEPT ![r] = Idle] /\ LocksOK'  BY <2>6, UnlockType DEF End, IInv
      <3> QED
        BY <2>2, <2>3, <2>4, <2>5, <3>1, AtWork, IdleFits, RowStep
    <2>7. CASE req' = [req EXCEPT ![r].pc = "sized", ![r].known = n] /\ UNCHANGED locks
      <3> DEFINE q == [req[r] EXCEPT !.pc = "sized", !.known = n]
      <3>1. req' = [req EXCEPT ![r] = q] /\ LocksOK'  BY <2>7 DEF IInv, LocksOK
      <3>2. /\ q \in Req /\ q.pc = "sized" /\ q.u = u /\ q.inst = req[r].inst /\ q.known = n
            /\ q.read = req[r].read
        BY <2>1, AtWork DEF Req, Pcs
      <3> HIDE DEF q
      <3>3. Fits(q)  BY <3>2, AtWork DEF Fits, WriteFits, CompleteFits
      <3> QED
        BY <2>2, <2>3, <2>4, <2>5, <3>1, <3>2, <3>3, AtWork, RowStep
    <2> QED
      BY <1>2, <2>6, <2>7, <2>1, AtWork DEF Reconciled
  <1> QED
    BY <1>1, <1>2, AtWork, SizeAssumption DEF Reconciled, Sizes

\* The marker is looked for: the size of a marked session is that of its target.
LEMMA ReadMarkerStep == ASSUME IInv, NEW r \in Requests, ReadMarker(r) PROVE IInv'
  <1> DEFINE u == req[r].u
             q == [req[r] EXCEPT !.pc = "list"]
  <1>1. req[r].pc = "held" /\ UNCHANGED <<meta, objects, files, history>>  BY DEF ReadMarker
  <1>2. CASE Goto(r, "list") /\ UNCHANGED <<row, locks>>
    <2>1. req' = [req EXCEPT ![r] = q] /\ LocksOK'  BY <1>2 DEF Goto, IInv, LocksOK
    <2>2. q \in Req /\ q.pc = "list" /\ q.u = u /\ q.inst = req[r].inst /\ q.read = req[r].read
      BY <1>1, AtWork DEF Req, Pcs
    <2> HIDE DEF q
    <2>3. Fits(q)  BY <1>1, <2>2, AtWork DEF Fits, WriteFits, CompleteFits
    <2> QED
      BY <1>1, <1>2, <2>1, <2>2, <2>3, QuietStep DEF session
  <1>3. CASE u \in marked /\ Reconciled(r, ByteCount(files[PathOf(u)].parts))
    <2>1. files[PathOf(u)].parts \in SUBSET Part  BY <1>1, AtWork DEF IInv, World, StoreOK
    <2> QED
      BY <1>1, <1>3, <2>1, ByteCountType, ReconciledStep DEF Intact
  <1>4. CASE End(r) /\ UNCHANGED row  BY <1>1, <1>4, EndStep DEF session
  <1> QED
    BY <1>2, <1>3, <1>4 DEF ReadMarker

\* The chunks are listed; by then the session may have been marked.
LEMMA ListPartsStep == ASSUME IInv, NEW r \in Requests, ListParts(r) PROVE IInv'
  <1>1. req[r].pc = "list" /\ UNCHANGED <<meta, objects, files, history>>  BY DEF ListParts
  <1>2. CASE Reconciled(r, ByteCount(parts[req[r].u]))  BY <1>1, <1>2, AtWork, ByteCountType, ReconciledStep
  <1>3. CASE End(r) /\ UNCHANGED row  BY <1>1, <1>3, EndStep DEF session
  <1> QED
    BY <1>2, <1>3 DEF ListParts

\* A body is accepted at the offset that was the end of the chunks.
LEMMA CheckOffsetStep ==
  ASSUME IInv, NEW r \in Requests, NEW n \in 0 .. ChunkSize, CheckOffset(r, n) PROVE IInv'
  <1> DEFINE u == req[r].u
             q == [req[r] EXCEPT !.pc = "put", !.len = n]
  <1>1. /\ req[r].op = "write" /\ req[r].pc = "sized" /\ req[r].known + n <= Total(u)
        /\ UNCHANGED <<session, objects, files, history>>
    BY DEF CheckOffset, At
  <1>2. CASE End(r)  BY <1>1, <1>2, EndStep
  <1>3. CASE req' = [req EXCEPT ![r].pc = "put", ![r].len = n] /\ UNCHANGED locks
    <2>1. req' = [req EXCEPT ![r] = q] /\ LocksOK'  BY <1>3 DEF IInv, LocksOK
    <2>2. /\ q \in Req /\ q.pc = "put" /\ q.u = u /\ q.inst = req[r].inst /\ q.known = req[r].known
          /\ q.len = n /\ q.read = req[r].read
      BY <1>1, AtWork DEF Req, Pcs
    <2> HIDE DEF q
    <2>3. Fits(q)  BY <1>1, <2>2, AtWork DEF Fits, WriteFits, CompleteFits
    <2> QED
      BY <1>1, <2>1, <2>2, <2>3, QuietStep
  <1> QED
    BY <1>2, <1>3 DEF CheckOffset

\* What a write confirms is covered by chunks, its own and those before it.
LEMMA ConfirmChunkStep == ASSUME IInv, NEW r \in Requests, ConfirmChunk(r) PROVE IInv'
  <1> DEFINE u == req[r].u
             n == req[r].known + req[r].len
             w == [row[u] EXCEPT !.received = n]
  <1>1. req[r].pc = "confirm" /\ End(r) /\ UNCHANGED <<meta, objects, files, history>>  BY DEF ConfirmChunk
  <1>2. CASE row' = row  BY <1>1, <1>2, EndStep DEF session
  <1>3. CASE row' = [row EXCEPT ![u].received = n]
    <2>1. row' = [row EXCEPT ![u] = w]  BY <1>3
    <2>2. n <= Total(u) /\ (Intact(u) => n <= ByteCount(parts[u]))  BY <1>1, AtWork DEF Fits, WriteFits
    <2>3. n \in Sizes  BY <1>1, <2>2, AtWork, SizeAssumption DEF Req, Sizes
    <2>4. w \in Row /\ w.status = row[u].status /\ w.received = n  BY <1>1, <2>3, AtWork DEF Row
    <2>5. w.status = "COMPLETED" => u \in published
      BY <1>1, <2>4, AtWork DEF IInv, World, SuccessIsPublished
    <2>6. req' = [req EXCEPT ![r] = Idle] /\ LocksOK'  BY <1>1, UnlockType DEF End, IInv
    <2> HIDE DEF w, n
    <2> QED
      BY <1>1, <2>1, <2>2, <2>4, <2>5, <2>6, AtWork, IdleFits, RowStep
  <1> QED
    BY <1>2, <1>3 DEF ConfirmChunk

\* A completion goes on with all chunks there, or finds the marker.
LEMMA CheckCompleteStep == ASSUME IInv, NEW r \in Requests, CheckComplete(r) PROVE IInv'
  <1> DEFINE u == req[r].u
  <1>1. req[r].pc = "sized" /\ UNCHANGED <<session, objects, files, history>>  BY DEF CheckComplete, At
  <1>2. CASE End(r)  BY <1>1, <1>2, EndStep
  <1>3. CASE u \in marked /\ Goto(r, "record") /\ Unlock(r)
    <2> DEFINE q == [req[r] EXCEPT !.pc = "record"]
    <2>1. req' = [req EXCEPT ![r] = q] /\ LocksOK'  BY <1>3, UnlockType DEF Goto, IInv
    <2>2. q \in Req /\ q.pc = "record" /\ q.u = u /\ q.inst = req[r].inst /\ q.read = req[r].read
      BY <1>1, AtWork DEF Req, Pcs
    <2> HIDE DEF q
    <2>3. u \in published  BY <1>1, <1>3, AtWork DEF IInv, World, SuccessIsPublished
    <2>4. Fits(q)  BY <1>1, <2>2, <2>3, AtWork DEF Fits, WriteFits, CompleteFits
    <2> QED
      BY <1>1, <2>1, <2>2, <2>4, QuietStep
  <1>4. CASE /\ u \notin marked /\ StoredSize(u) = Total(u)
             /\ req' = [req EXCEPT ![r].pc = "free", ![r].known = 0] /\ UNCHANGED locks
    <2> DEFINE q == [req[r] EXCEPT !.pc = "free", !.known = 0]
    <2>1. req' = [req EXCEPT ![r] = q] /\ LocksOK'  BY <1>4 DEF IInv, LocksOK
    <2>2. q \in Req /\ q.pc = "free" /\ q.u = u /\ q.inst = req[r].inst /\ q.read = req[r].read
      <3>1. 0 \in Sizes  BY SizeAssumption DEF Sizes
      <3> QED
        BY <1>1, <3>1, AtWork DEF Req, Pcs
    <2> HIDE DEF q
    <2>3. ByteCount(parts[u]) = Total(u)  BY <1>4 DEF StoredSize
    <2>4. Fits(q)  BY <1>1, <2>2, <2>3, AtWork DEF Fits, WriteFits, CompleteFits
    <2> QED
      BY <1>1, <2>1, <2>2, <2>4, QuietStep
  <1> QED
    BY <1>2, <1>3, <1>4 DEF CheckComplete

\* Success is recorded behind the copy.
LEMMA RecordCompletionStep == ASSUME IInv, NEW r \in Requests, RecordCompletion(r) PROVE IInv'
  <1> DEFINE u == req[r].u
             w == [row[u] EXCEPT !.status = "COMPLETED"]
  <1>1. req[r].pc = "record" /\ End(r) /\ UNCHANGED <<meta, objects, files, history>>  BY DEF RecordCompletion
  <1>2. CASE row' = row  BY <1>1, <1>2, EndStep DEF session
  <1>3. CASE row' = [row EXCEPT ![u].status = "COMPLETED"]
    <2>1. row' = [row EXCEPT ![u] = w]  BY <1>3
    <2>2. w \in Row /\ w.received = row[u].received  BY <1>1, AtWork DEF Row
    <2>3. u \in published  BY <1>1, AtWork DEF Fits, CompleteFits
    <2>4. Intact(u) => w.received <= ByteCount(parts[u])  BY <1>1, <2>2, AtWork DEF IInv, World, Chunks
    <2>5. req' = [req EXCEPT ![r] = Idle] /\ LocksOK'  BY <1>1, UnlockType DEF End, IInv
    <2> HIDE DEF w
    <2> QED
      BY <1>1, <2>1, <2>2, <2>3, <2>4, <2>5, AtWork, IdleFits, RowStep
  <1> QED
    BY <1>2, <1>3 DEF RecordCompletion

\* The row of a session is deleted.
LEMMA CancelDeleteStep == ASSUME IInv, NEW r \in Requests, CancelDelete(r) PROVE IInv'
  <1> DEFINE u == req[r].u
             w == [status |-> "NONE", received |-> 0]
  <1>1. /\ req[r].pc = "drop" /\ End(r) /\ row' = [row EXCEPT ![u] = w]
        /\ UNCHANGED <<meta, objects, files, history>>
    BY DEF CancelDelete
  <1>2. w \in Row /\ w.received = 0 /\ w.status # "COMPLETED"  BY SizeAssumption DEF Row, Sizes
  <1>3. 0 <= ByteCount(parts[u])  BY <1>1, AtWork, ByteCountType
  <1>4. req' = [req EXCEPT ![r] = Idle] /\ LocksOK'  BY <1>1, UnlockType DEF End, IInv
  <1> HIDE DEF w
  <1> QED
    BY <1>1, <1>2, <1>3, <1>4, AtWork, IdleFits, RowStep

\* The requests of an instance that dies end, the others go on.
LEMMA CrashStep == ASSUME IInv, NEW i \in Instances, Crash(i) PROVE IInv'
  <1>1. /\ req' = [r \in Requests |-> IF req[r].inst = i THEN Idle ELSE req[r]]
        /\ locks' = [locks EXCEPT ![i] = NoLocks] /\ UNCHANGED <<session, objects, files, history>>
    BY DEF Crash
  <1>2. World'  BY <1>1, WorldKept DEF IInv
  <1>3. LocksOK'  BY <1>1 DEF IInv, LocksOK, Locks, NoLocks
  <1>4. \A u \in Uploads : Kept(u)  BY <1>1 DEF Kept, Intact, Sound, session, objects, history
  <1>5. \A k \in Req : Fits(k) => Fits(k)'  BY <1>4, FitsKept DEF Fits
  <1>6. req' \in [Requests -> Req]  BY <1>1, IdleFits DEF IInv, Reqs
  <1>7. ASSUME NEW r \in Requests PROVE Fits(req[r])'
    <2>1. PICK k \in Req : Fits(k) /\ (k = Idle \/ k = req[r]) /\ req'[r] = k
      BY <1>1, IdleFits DEF IInv, Reqs
    <2>2. Fits(k)'  BY <1>5, <2>1
    <2> QED
      BY <2>1, <2>2 DEF Fits, WriteFits, CompleteFits, Intact, Sound, Total
  <1> QED
    BY <1>2, <1>3, <1>6, <1>7 DEF IInv, Reqs

\* A step of the rest of the world: no request moves.
LEMMA OutsideStep ==
  ASSUME IInv, World', UNCHANGED <<locks, req>>, \A k \in Req : Fits(k) => Fits(k)' PROVE IInv'
  <1>1. ASSUME NEW r \in Requests PROVE Fits(req[r])'
    <2>1. PICK k \in Req : k = req[r]  BY DEF IInv, Reqs
    <2>2. Fits(k)' /\ req'[r] = k  BY <2>1 DEF IInv, Reqs
    <2> QED
      BY <2>2 DEF Fits, WriteFits, CompleteFits, Intact, Sound, Total
  <1> QED
    BY <1>1 DEF IInv, Reqs, LocksOK

\* A session opens with nothing stored under its identifier.
LEMMA StartUploadStep ==
  ASSUME IInv, NEW u \in Uploads, NEW p \in Paths, NEW n \in Sizes, NEW rep \in BOOLEAN, StartUpload(u, p, n, rep)
  PROVE  IInv'
  <1>1. ~meta[u].opened /\ UNCHANGED <<objects, files, history, locks, req>>  BY DEF StartUpload
  <1>2. World /\ parts[u] = {} /\ \A t \in Paths : files[t].by # u  BY <1>1 DEF IInv, World, Fresh
  <1>3. PICK m \in [path : Paths, total : Sizes, replace : BOOLEAN, opened : BOOLEAN] :
          meta' = [meta EXCEPT ![u] = m] /\ m.total = n /\ m.opened
    <2> DEFINE m == [path |-> p, total |-> n, replace |-> rep, opened |-> TRUE]
    <2>1. m \in [path : Paths, total : Sizes, replace : BOOLEAN, opened : BOOLEAN] /\ m.total = n /\ m.opened
      BY Zenon
    <2>2. meta' = [meta EXCEPT ![u] = m]  BY Zenon DEF StartUpload
    <2> HIDE DEF m
    <2> QED
      BY <2>1, <2>2
  <1>4. row' = [row EXCEPT ![u] = [status |-> "ACTIVE", received |-> 0]]  BY DEF StartUpload
  <1>5. StoreOK'  BY <1>1, <1>2, <1>3, <1>4, SizeAssumption DEF World, StoreOK, Row, Sizes, objects, history
  <1>6. Fresh'  BY <1>1, <1>2, <1>3, <1>4 DEF World, StoreOK, Fresh, objects
  <1>7. Chunks'
    <2>1. Contiguous({}) /\ ByteCount({}) = 0 /\ 0 <= n  BY ByteCountEmpty, SizeAssumption DEF Contiguous, Sizes
    <2>2. /\ parts'[u] = {} /\ row'[u].received = 0 /\ meta'[u].total = n
          /\ \A v \in Uploads \ {u} : meta'[v] = meta[v] /\ row'[v] = row[v] /\ parts'[v] = parts[v]
          /\ marked' = marked /\ aborted' = aborted
      BY <1>1, <1>2, <1>3, <1>4 DEF World, StoreOK, objects, history
    <2>3. ASSUME NEW v \in Uploads, v # u, Intact(v)'
          PROVE  /\ Contiguous(parts'[v])
                 /\ \A b \in 0 .. ByteCount(parts'[v]) - 1 : \E x \in parts'[v] : x.off <= b /\ b < x.off + x.len
                 /\ row'[v].received <= ByteCount(parts'[v]) /\ ByteCount(parts'[v]) <= meta'[v].total
      BY <1>2, <2>2, <2>3 DEF World, Chunks, Intact, Total
    <2>4. /\ Contiguous(parts'[u])
          /\ \A b \in 0 .. ByteCount(parts'[u]) - 1 : \E x \in parts'[u] : x.off <= b /\ b < x.off + x.len
          /\ row'[u].received <= ByteCount(parts'[u]) /\ ByteCount(parts'[u]) <= meta'[u].total
      BY <2>1, <2>2
    <2> QED
      BY <2>3, <2>4 DEF Chunks, Total
  <1>8. Staged' /\ WholeUnlessCancelled'
    BY <1>1, <1>2, <1>3 DEF World, StoreOK, Staged, Sound, WholeUnlessCancelled, Whole, Total, objects, history
  <1>9. SuccessIsPublished'
    BY <1>1, <1>2, <1>4 DEF World, StoreOK, SuccessIsPublished, objects, history
  <1>10. \A v \in Uploads : meta[v].opened => Kept(v)
    BY <1>1, <1>2, <1>3 DEF World, StoreOK, Kept, Intact, Sound, objects, history
  <1>11. \A k \in Req : Fits(k) => Fits(k)'  BY <1>10, FitsKept DEF Fits
  <1> QED
    BY <1>1, <1>5, <1>6, <1>7, <1>8, <1>9, <1>11, OutsideStep DEF World

\* The other file operations move or delete whole files.
LEMMA FilesChange ==
  ASSUME IInv, NEW p \in Paths, NEW f \in [by : Uploads \cup {NoFile, Foreign}, parts : SUBSET Part],
         files' = [files EXCEPT ![p] = f], UNCHANGED <<session, objects, history, locks, req>>,
         f.by \notin Uploads \/ \E o \in Paths : f = files[o]
  PROVE  IInv'
  <1> USE DEF session, objects, history
  <1>1. World  BY DEF IInv
  <1>2. StoreOK'  BY <1>1 DEF World, StoreOK
  <1>3. Fresh'  BY <1>1 DEF World, StoreOK, Fresh
  <1>4. WholeUnlessCancelled'  BY <1>1 DEF World, StoreOK, WholeUnlessCancelled, Whole, Total
  <1>5. Chunks' /\ Staged' /\ SuccessIsPublished'
    BY <1>1 DEF World, Chunks, Staged, SuccessIsPublished, Intact, Sound, Total
  <1>6. \A v \in Uploads : Kept(v)  BY DEF Kept, Intact, Sound
  <1>7. \A k \in Req : Fits(k) => Fits(k)'  BY <1>6, FitsKept DEF Fits
  <1> QED
    BY <1>2, <1>3, <1>4, <1>5, <1>7, OutsideStep DEF World

\* A move puts a whole file, or one of someone else, to a free path.
LEMMA MoveCopyStep == ASSUME IInv, NEW p \in Paths \cup {NoPath}, NEW q \in Paths, MoveCopy(p, q) PROVE IInv'
  <1> DEFINE f == IF p = NoPath THEN [by |-> Foreign, parts |-> {}] ELSE files[p]
  <1>1. f \in [by : Uploads \cup {NoFile, Foreign}, parts : SUBSET Part]  BY DEF IInv, World, StoreOK
  <1>2. f.by \notin Uploads \/ \E o \in Paths : f = files[o]  BY NullAssumption
  <1>3. files' = [files EXCEPT ![q] = f] /\ UNCHANGED <<session, objects, history, locks, req>>  BY DEF MoveCopy
  <1> HIDE DEF f
  <1> QED
    BY <1>1, <1>2, <1>3, FilesChange

\* A deletion leaves no file.
LEMMA DeleteItemStep == ASSUME IInv, NEW p \in Paths, DeleteItem(p) PROVE IInv'
  <1>1. Absent \in [by : Uploads \cup {NoFile, Foreign}, parts : SUBSET Part] /\ Absent.by \notin Uploads
    BY NullAssumption DEF Absent
  <1>2. files' = [files EXCEPT ![p] = Absent] /\ UNCHANGED <<session, objects, history, locks, req>>
    BY DEF DeleteItem
  <1> QED
    BY <1>1, <1>2, FilesChange

\* r goes on at pc, or its reply is lost and it ends.
LEMMA GoneOn ==
  ASSUME IInv, NEW r \in Requests, NEW pc \in Pcs, GoOnOrFail(r, pc), req[r].pc # "idle"
  PROVE  /\ LocksOK'
         /\ \E q \in Req : /\ req' = [req EXCEPT ![r] = q]
                           /\ \/ q = Idle
                              \/ /\ q.pc = pc /\ q.u = req[r].u /\ q.inst = req[r].inst /\ q.known = req[r].known
                                 /\ q.len = req[r].len /\ q.read = req[r].read
  <1>1. CASE End(r)  BY <1>1, UnlockType, IdleFits DEF End, IInv
  <1>2. CASE Goto(r, pc) /\ UNCHANGED locks
    <2> DEFINE q == [req[r] EXCEPT !.pc = pc]
    <2>1. req' = [req EXCEPT ![r] = q] /\ LocksOK'  BY <1>2 DEF Goto, IInv, LocksOK
    <2>2. /\ q \in Req /\ q.pc = pc /\ q.u = req[r].u /\ q.inst = req[r].inst /\ q.known = req[r].known
          /\ q.len = req[r].len /\ q.read = req[r].read
      BY AtWork DEF Req
    <2> HIDE DEF q
    <2> QED
      BY <2>1, <2>2
  <1> QED
    BY <1>1, <1>2 DEF GoOnOrFail

\* The chunk is there already, or there is nothing to put.
LEMMA PutNothing ==
  ASSUME IInv, NEW r \in Requests, req[r].pc = "put", req[r].len = 0 \/ PartOf(r) \in parts[req[r].u],
         GoOnOrFail(r, "confirm"), UNCHANGED <<session, objects, files, history>>
  PROVE  IInv'
  <1> DEFINE u == req[r].u
             n == req[r].known + req[r].len
  <1>1. /\ Fits(req[r]) /\ req[r] \in Req /\ u \in Uploads /\ parts[u] \in SUBSET Part  BY AtWork
  <1>2. n <= Total(u)  BY <1>1 DEF Fits, WriteFits
  <1>3. Intact(u) => n <= ByteCount(parts[u])
    <2> SUFFICES ASSUME Intact(u) PROVE n <= ByteCount(parts[u])
      OBVIOUS
    <2>1. Contiguous(parts[u])  BY <1>1 DEF IInv, World, Chunks
    <2>2. ByteCount(parts[u]) \in Nat /\ req[r].known \in Nat
      BY <1>1, ByteCountType, SizeAssumption DEF Req, Sizes
    <2>3. CASE PartOf(r) \in parts[u]
      <3>1. PartOf(r).off + PartOf(r).len <= ByteCount(parts[u])  BY <1>1, <2>1, <2>3, ChunkEndsWithin
      <3> QED
        BY <3>1 DEF PartOf
    <2>4. CASE req[r].len = 0
      <3>1. req[r].known = ByteCount(parts[u]) \/ \E x \in parts[u] : x.off = req[r].known
        BY <1>1 DEF Fits, WriteFits
      <3>2. \A x \in parts[u] : x.off <= ByteCount(parts[u])
        <4> SUFFICES ASSUME NEW x \in parts[u] PROVE x.off <= ByteCount(parts[u])
          OBVIOUS
        <4>1. x.off + x.len <= ByteCount(parts[u])  BY <1>1, <2>1, ChunkEndsWithin
        <4>2. x.off \in Nat /\ x.len \in Nat  BY <1>1, SizeAssumption DEF Part, Sizes
        <4> QED
          BY <2>2, <4>1, <4>2
      <3> QED
        BY <2>2, <2>4, <3>1, <3>2
    <2> QED
      BY <2>3, <2>4
  <1>4. LocksOK'  BY GoneOn DEF Pcs
  <1>5. PICK q \in Req : /\ req' = [req EXCEPT ![r] = q]
                         /\ \/ q = Idle
                            \/ /\ q.pc = "confirm" /\ q.u = u /\ q.inst = req[r].inst /\ q.known = req[r].known
                               /\ q.len = req[r].len /\ q.read = req[r].read
    BY GoneOn DEF Pcs
  <1>6. Fits(q)
    <2>1. CASE q = Idle  BY <2>1, IdleFits
    <2>2. CASE q # Idle  BY <1>1, <1>2, <1>3, <1>5, <2>2 DEF Fits, WriteFits, CompleteFits
    <2> QED
      BY <2>1, <2>2
  <1> QED
    BY <1>4, <1>5, <1>6, QuietStep

\* A chunk is put.  Until the marker it lies at the end of the others, because the
\* offset a write relies on is the end or the key of a chunk that is there.
LEMMA PutNew ==
  ASSUME IInv, NEW r \in Requests, req[r].pc = "put", req[r].len > 0, ~KeyTaken(r),
         parts' = [parts EXCEPT ![req[r].u] = @ \cup {PartOf(r)}], GoOnOrFail(r, "confirm"),
         UNCHANGED <<session, staging, marked, files, history>>
  PROVE  IInv'
  <1> DEFINE u == req[r].u
             n == req[r].known + req[r].len
  <1>1. /\ Fits(req[r]) /\ req[r] \in Req /\ u \in Uploads /\ parts[u] \in SUBSET Part
        /\ meta[u].opened /\ Total(u) \in Sizes
    BY AtWork
  <1>2. World  BY DEF IInv
  <1>3. n <= Total(u)  BY <1>1 DEF Fits, WriteFits
  <1>4. PICK x \in Part : x = PartOf(r) /\ x.off = req[r].known /\ x.len = req[r].len
    <2>1. PartOf(r) \in Part  BY <1>1, <1>3, SizeAssumption DEF PartOf, Part, Req, Sizes
    <2> QED
      BY <2>1 DEF PartOf
  <1>5. parts' = [parts EXCEPT ![u] = @ \cup {x}]  BY <1>4
  <1>6. /\ parts'[u] = parts[u] \cup {x} /\ \A v \in Uploads \ {u} : parts'[v] = parts[v]
        /\ parts' \in [Uploads -> SUBSET Part]
    BY <1>1, <1>2, <1>5 DEF World, StoreOK
  <1>7. \A y \in parts[u] : y.off # x.off  BY <1>4 DEF KeyTaken
  <1>8. Intact(u) => x.off = ByteCount(parts[u]) /\ Contiguous(parts[u])
    BY <1>1, <1>2, <1>4, <1>7 DEF Fits, WriteFits, World, Chunks
  <1>9. Intact(u) => Contiguous(parts'[u]) /\ ByteCount(parts'[u]) = n
    BY <1>1, <1>4, <1>6, <1>8, AppendChunk
  <1>10. StoreOK'  BY <1>2, <1>6, <1>7 DEF World, StoreOK, session, history
  <1>11. Fresh'  BY <1>1, <1>2, <1>6 DEF World, Fresh, session
  <1>12. Chunks'
    <2>1. ASSUME NEW v \in Uploads, v # u, Intact(v)
          PROVE  /\ Contiguous(parts'[v])
                 /\ \A b \in 0 .. ByteCount(parts'[v]) - 1 : \E y \in parts'[v] : y.off <= b /\ b < y.off + y.len
                 /\ row[v].received <= ByteCount(parts'[v]) /\ ByteCount(parts'[v]) <= Total(v)
      BY <1>2, <1>6, <2>1 DEF World, Chunks
    <2>2. ASSUME Intact(u)
          PROVE  /\ \A b \in 0 .. ByteCount(parts'[u]) - 1 : \E y \in parts'[u] : y.off <= b /\ b < y.off + y.len
                 /\ row[u].received <= ByteCount(parts'[u]) /\ ByteCount(parts'[u]) <= Total(u)
      <3>1. \A b \in 0 .. ByteCount(parts[u]) + x.len - 1 :
              \E y \in parts[u] \cup {x} : y.off <= b /\ b < y.off + y.len
        BY <1>1, <1>2, <1>8, <2>2, AppendCovers DEF World, Chunks
      <3>2. ByteCount(parts'[u]) = ByteCount(parts[u]) + x.len  BY <1>4, <1>8, <1>9, <2>2
      <3>3. ByteCount(parts[u]) \in Nat /\ x.len \in Nat /\ row[u].received \in Nat
        BY <1>1, <1>2, ByteCountType, SizeAssumption DEF Part, World, StoreOK, Row, Sizes
      <3>4. row[u].received <= ByteCount(parts[u])  BY <1>1, <1>2, <2>2 DEF World, Chunks
      <3> QED
        BY <1>3, <1>6, <1>9, <2>2, <3>1, <3>2, <3>3, <3>4
    <2>3. UNCHANGED <<meta, row, marked, aborted>>  BY DEF session, history
    <2> QED
      BY <1>9, <2>1, <2>2, <2>3 DEF Chunks, Intact, Total
  <1>13. Staged' /\ SuccessIsPublished' /\ WholeUnlessCancelled'
    BY <1>2 DEF World, Staged, Sound, SuccessIsPublished, WholeUnlessCancelled, Whole, Total, session, history
  <1>14. ASSUME NEW k \in Req, Fits(k) PROVE Fits(k)'
    <2>1. CASE k.pc = "idle"  BY <2>1 DEF Fits
    <2>2. CASE k.pc # "idle" /\ k.u # u
      <3>1. Kept(k.u)  BY <1>6, <1>14, <2>2 DEF Fits, Kept, Intact, Sound, session, history
      <3> QED
        BY <1>14, <3>1, FitsKept
    <2>3. CASE k.pc # "idle" /\ k.u = u
      <3>1. ByteCount(parts[u]) \in Nat /\ ByteCount(parts'[u]) \in Nat /\ ByteCount(parts[u]) <= ByteCount(parts'[u])
        <4>1. parts'[u] \in SUBSET Part  BY <1>1, <1>6
        <4>2. parts[u] \in SUBSET parts'[u]  BY <1>6
        <4> QED
          BY <1>1, <4>1, <4>2, ByteCountType, ByteCountMonotone
      <3>2. UNCHANGED <<meta, staging, marked, published, aborted, crossed>>  BY DEF session, history
      <3>3. WriteFits(k)'
        <4>1. k.known \in Nat /\ k.len \in Nat  BY SizeAssumption DEF Req, Sizes
        <4>2. Intact(u) /\ k.known = ByteCount(parts[u]) => \E y \in parts'[u] : y.off = k.known
          BY <1>6, <1>8
        <4> QED
          BY <1>6, <1>14, <2>3, <3>1, <3>2, <4>1, <4>2 DEF Fits, WriteFits, Intact, Total
      <3>4. CompleteFits(k)'
        <4>1. Intact(u) /\ ByteCount(parts[u]) = Total(u) => ByteCount(parts'[u]) = Total(u)
          <5>1. Intact(u) => ByteCount(parts'[u]) <= Total(u)  BY <1>3, <1>9
          <5>2. Total(u) \in Nat  BY <1>1, SizeAssumption DEF Sizes
          <5> QED
            BY <3>1, <5>1, <5>2
        <4> QED
          BY <1>14, <2>3, <3>2, <4>1 DEF Fits, CompleteFits, Intact, Sound, Total
      <3> QED
        BY <1>14, <2>3, <3>2, <3>3, <3>4 DEF Fits
    <2> QED
      BY <2>1, <2>2, <2>3
  <1>15. LocksOK'  BY GoneOn DEF Pcs
  <1>16. PICK q \in Req : /\ req' = [req EXCEPT ![r] = q]
                          /\ \/ q = Idle
                             \/ /\ q.pc = "confirm" /\ q.u = u /\ q.inst = req[r].inst /\ q.known = req[r].known
                                /\ q.len = req[r].len /\ q.read = req[r].read
    BY GoneOn DEF Pcs
  <1>17. Fits(q)'
    <2>1. CASE q = Idle  BY <2>1, IdleFits
    <2>2. CASE q # Idle
      <3>1. UNCHANGED <<meta, staging, marked, published, aborted, crossed>>  BY DEF session, history
      <3>2. n \in Nat  BY <1>1, SizeAssumption DEF Req, Sizes
      <3>3. WriteFits(q)'
        <4>1. q.known + q.len = n /\ q.u = u /\ q.pc = "confirm"  BY <1>16, <2>2
        <4>2. n <= meta'[u].total /\ (Intact(u) => n <= ByteCount(parts'[u]))
          BY <1>3, <1>9, <3>1, <3>2 DEF Total
        <4> HIDE DEF n
        <4> QED
          BY <3>1, <4>1, <4>2 DEF WriteFits, Intact, Total
      <3>4. CompleteFits(q)'
        <4>1. Sound(u) => Contiguous(q.read)  BY <1>1, <1>16, <2>2 DEF Fits, CompleteFits
        <4> QED
          BY <1>16, <2>2, <3>1, <4>1 DEF CompleteFits, Sound
      <3> QED
        BY <1>1, <1>16, <2>2, <3>1, <3>3, <3>4 DEF Fits
    <2> QED
      BY <2>1, <2>2
  <1>18. Reqs'  BY <1>14, <1>16, <1>17, ReqsStep DEF IInv
  <1> QED
    BY <1>10, <1>11, <1>12, <1>13, <1>15, <1>18 DEF IInv, World

\* A chunk is put, or one of its key is there, or the request ends.
LEMMA PutPartStep == ASSUME IInv, NEW r \in Requests, PutPart(r) PROVE IInv'
  <1>1. req[r].pc = "put" /\ UNCHANGED <<session, staging, marked, files, history>>  BY DEF PutPart
  <1>2. CASE req[r].len = 0 /\ UNCHANGED parts /\ GoOnOrFail(r, "confirm")
    BY <1>1, <1>2, PutNothing DEF objects
  <1>3. CASE /\ req[r].len > 0 /\ ~KeyTaken(r)
             /\ parts' = [parts EXCEPT ![req[r].u] = @ \cup {PartOf(r)}] /\ GoOnOrFail(r, "confirm")
    BY <1>1, <1>3, PutNew
  <1>4. CASE PartOf(r) \in parts[req[r].u] /\ UNCHANGED parts /\ GoOnOrFail(r, "confirm")
    BY <1>1, <1>4, PutNothing DEF objects
  <1>5. CASE UNCHANGED parts /\ End(r)  BY <1>1, <1>5, EndStep DEF objects
  <1> QED
    BY <1>2, <1>3, <1>4, <1>5 DEF PutPart

\* A completion lists the chunks, or finds the staging object of an earlier attempt.
\* Chunks that leave a gap are only there after the marker or a cancellation.
LEMMA FindStagingStep == ASSUME IInv, NEW r \in Requests, FindStaging(r) PROVE IInv'
  <1>1. /\ req[r].pc = "free" /\ UNCHANGED <<session, objects, files, published, aborted>>
        /\ Crossing(req[r].u, ~staging[req[r].u].there /\ ~Contiguous(parts[req[r].u]))
    BY DEF FindStaging
  <1>2. PICK u \in Uploads : u = req[r].u  BY <1>1, AtWork
  <1>3. /\ Fits(req[r]) /\ req[r] \in Req /\ parts[u] \in SUBSET Part /\ meta[u].opened  BY <1>1, <1>2, AtWork
  <1>4. World  BY DEF IInv
  <1>5. /\ crossed \subseteq crossed' /\ crossed' \subseteq crossed \cup {u}
        /\ ~staging[u].there /\ ~Contiguous(parts[u]) /\ u \notin aborted => u \in crossed'
        /\ crossed' # crossed => ~Contiguous(parts[u])
    BY <1>1, <1>2 DEF Crossing
  <1>6. crossed' \subseteq marked \cup aborted
    <2>1. Intact(u) => Contiguous(parts[u])  BY <1>4 DEF World, Chunks
    <2> QED
      BY <1>4, <1>5, <2>1 DEF World, WholeUnlessCancelled, Intact
  <1>7. World'
    <2>1. StoreOK'  BY <1>1, <1>4, <1>5 DEF World, StoreOK, session, objects
    <2>2. (Fresh /\ Chunks /\ SuccessIsPublished)'
      BY <1>1, <1>4 DEF World, Fresh, Chunks, SuccessIsPublished, Intact, Total, session, objects
    <2>3. (Staged /\ WholeUnlessCancelled)'
      BY <1>1, <1>4, <1>5, <1>6 DEF World, Staged, WholeUnlessCancelled, Whole, Sound, Total, session, objects
    <2> QED
      BY <2>1, <2>2, <2>3 DEF World
  <1>8. \A k \in Req : Fits(k) => Fits(k)'
    <2>1. \A v \in Uploads : Kept(v)  BY <1>1, <1>5 DEF Kept, Intact, Sound, session, objects
    <2> QED
      BY <2>1, FitsKept DEF Fits
  <1>9. CASE End(r)
    <2>1. req' = [req EXCEPT ![r] = Idle] /\ LocksOK'  BY <1>9, UnlockType DEF End, IInv
    <2>2. Reqs'  BY <1>8, <2>1, IdleFits, ReqsStep DEF IInv
    <2> QED
      BY <1>7, <2>1, <2>2 DEF IInv
  <1>10. CASE /\ ~staging[u].there
              /\ req' = [req EXCEPT ![r].pc = "assemble", ![r].read = parts[u]] /\ UNCHANGED locks
    <2> DEFINE new == [req[r] EXCEPT !.pc = "assemble", !.read = parts[u]]
    <2>1. new \in Req /\ new.pc = "assemble" /\ new.u = u /\ new.inst = req[r].inst /\ new.read = parts[u]
      BY <1>2, <1>3 DEF Req, Pcs
    <2>2. req' = [req EXCEPT ![r] = new] /\ LocksOK'  BY <1>10 DEF IInv, LocksOK
    <2> HIDE DEF new
    <2>3. PICK q \in Req : q = new  BY <2>1
    <2>4. Intact(u) => ByteCount(parts[u]) = Total(u)  BY <1>1, <1>2, <1>3 DEF Fits, CompleteFits
    <2>5. Fits(q)'
      <3>1. q.inst \in Instances  BY <1>1, <2>1, <2>3, AtWork
      <3>2. q.pc = "assemble" /\ q.u = u /\ q.read = parts[u]  BY <2>1, <2>3
      <3>3. UNCHANGED <<meta, parts, staging, marked, published, aborted>>  BY <1>1 DEF session, objects
      <3> QED
        BY <1>3, <1>5, <1>10, <2>4, <3>1, <3>2, <3>3 DEF Fits, WriteFits, CompleteFits, Intact, Sound, Total
    <2>6. Reqs'  BY <1>8, <2>2, <2>3, <2>5, ReqsStep DEF IInv
    <2> QED
      BY <1>7, <2>2, <2>6 DEF IInv
  <1>11. CASE /\ ByteCount(staging[u].parts) = Total(u) /\ Goto(r, "copy") /\ UNCHANGED locks
    <2> DEFINE new == [req[r] EXCEPT !.pc = "copy"]
    <2>1. new \in Req /\ new.pc = "copy" /\ new.u = u /\ new.inst = req[r].inst /\ new.read = req[r].read
      BY <1>2, <1>3 DEF Req, Pcs
    <2>2. req' = [req EXCEPT ![r] = new] /\ LocksOK'  BY <1>11 DEF Goto, IInv, LocksOK
    <2> HIDE DEF new
    <2>3. PICK q \in Req : q = new  BY <2>1
    <2>4. Sound(u) => Contiguous(q.read)  BY <1>1, <1>2, <1>3, <2>1, <2>3 DEF Fits, CompleteFits
    <2>5. Fits(q)'
      <3>1. q.inst \in Instances  BY <1>1, <2>1, <2>3, AtWork
      <3>2. q.pc = "copy" /\ q.u = u  BY <2>1, <2>3
      <3>3. UNCHANGED <<meta, parts, staging, marked, published, aborted>>  BY <1>1 DEF session, objects
      <3> QED
        BY <1>3, <1>5, <1>11, <2>4, <3>1, <3>2, <3>3 DEF Fits, WriteFits, CompleteFits, Intact, Sound, Total
    <2>6. Reqs'  BY <1>8, <2>2, <2>3, <2>5, ReqsStep DEF IInv
    <2> QED
      BY <1>7, <2>2, <2>6 DEF IInv
  <1> QED
    BY <1>2, <1>9, <1>10, <1>11 DEF FindStaging

\* The staging object is replaced.  Whoever is about to copy it finds the right size,
\* or the session is crossed from then on.
LEMMA AssembleStep == ASSUME IInv, NEW r \in Requests, Assemble(r) PROVE IInv'
  <1>1. req[r].pc = "assemble" /\ UNCHANGED <<session, parts, marked, files, published, aborted>>  BY DEF Assemble
  <1>2. PICK u \in Uploads : u = req[r].u  BY <1>1, AtWork
  <1>3. PICK ps \in SUBSET Part : ps = req[r].read  BY <1>1, AtWork DEF Req
  <1>4. /\ Fits(req[r]) /\ req[r] \in Req /\ meta[u].opened  BY <1>1, <1>2, AtWork
  <1>5. World  BY DEF IInv
  <1>6. /\ Sound(u) => Contiguous(ps)
        /\ Intact(u) => ByteCount(ps) = Total(u)
    BY <1>1, <1>2, <1>3, <1>4 DEF Fits, CompleteFits
  <1>7. staging' = [staging EXCEPT ![u] = [there |-> TRUE, parts |-> ps]]
    BY <1>2, <1>3, Zenon DEF Assemble
  <1>8. /\ crossed \subseteq crossed' /\ crossed' \subseteq crossed \cup {u}
        /\ AboutToCopy(u) /\ ByteCount(ps) # Total(u) /\ u \notin aborted => u \in crossed'
        /\ crossed' # crossed => ByteCount(ps) # Total(u)
    BY <1>2, <1>3 DEF Assemble, Crossing
  <1>9. /\ staging'[u].parts = ps /\ \A v \in Uploads \ {u} : staging'[v] = staging[v]
        /\ staging' \in [Uploads -> [there : BOOLEAN, parts : SUBSET Part]]
    <2>1. PICK g \in [there : BOOLEAN, parts : SUBSET Part] : g = [there |-> TRUE, parts |-> ps] /\ g.parts = ps
      <3>1. [there |-> TRUE, parts |-> ps] \in [there : BOOLEAN, parts : SUBSET Part]  BY Zenon
      <3> QED
        BY <3>1
    <2>2. staging' = [staging EXCEPT ![u] = g]  BY <1>7, <2>1, Zenon
    <2> QED
      BY <1>5, <2>1, <2>2 DEF World, StoreOK
  <1>10. World'
    <2>1. StoreOK'  BY <1>1, <1>5, <1>8, <1>9 DEF World, StoreOK, session
    <2>2. (Fresh /\ Chunks /\ SuccessIsPublished)'
      BY <1>1, <1>5 DEF World, Fresh, Chunks, SuccessIsPublished, Intact, Total, session
    <2>3. Staged'  BY <1>1, <1>5, <1>6, <1>8, <1>9 DEF World, Staged, Sound
    <2>4. WholeUnlessCancelled'
      BY <1>1, <1>5, <1>6, <1>8 DEF World, WholeUnlessCancelled, Whole, Intact, Total, session
    <2> QED
      BY <2>1, <2>2, <2>3, <2>4 DEF World
  <1>11. ASSUME NEW k \in Req, Fits(k), \E j \in Requests : req[j] = k PROVE Fits(k)'
    <2>1. CASE k.pc = "idle"  BY <2>1 DEF Fits
    <2>2. CASE k.pc # "idle" /\ k.u # u
      <3>1. Kept(k.u)  BY <1>1, <1>8, <1>9, <1>11, <2>2 DEF Fits, Kept, Intact, Sound, session
      <3> QED
        BY <1>11, <3>1, FitsKept
    <2>3. CASE k.pc # "idle" /\ k.u = u
      <3>1. UNCHANGED <<meta, parts, marked, published, aborted>>  BY <1>1 DEF session
      <3>2. Sound(u)' => Sound(u)  BY <1>8, <3>1 DEF Sound
      <3>3. k.pc = "copy" /\ Sound(u)' => ByteCount(staging'[u].parts) = Total(u)
        BY <1>8, <1>9, <1>11, <2>3, <3>1 DEF AboutToCopy, Sound
      <3>4. WriteFits(k)'  BY <1>11, <2>3, <3>1 DEF Fits, WriteFits, Intact, Total
      <3>5. CompleteFits(k)'  BY <1>11, <2>3, <3>1, <3>2, <3>3 DEF Fits, CompleteFits, Intact, Sound, Total
      <3> QED
        BY <1>11, <2>3, <3>1, <3>4, <3>5 DEF Fits
    <2> QED
      BY <2>1, <2>2, <2>3
  <1>12. CASE End(r)
    <2>1. req' = [req EXCEPT ![r] = Idle] /\ LocksOK'  BY <1>12, UnlockType DEF End, IInv
    <2>2. Reqs'  BY <1>11, <2>1, IdleFits, ReqsStep DEF IInv
    <2> QED
      BY <1>10, <2>1, <2>2 DEF IInv
  <1>13. CASE req' = [req EXCEPT ![r].pc = "verify", ![r].read = {}] /\ UNCHANGED locks
    <2> DEFINE new == [req[r] EXCEPT !.pc = "verify", !.read = {}]
    <2>1. new \in Req /\ new.pc = "verify" /\ new.u = u /\ new.inst = req[r].inst /\ new.read = {}
      BY <1>2, <1>4 DEF Req, Pcs
    <2>2. req' = [req EXCEPT ![r] = new] /\ LocksOK'  BY <1>13 DEF IInv, LocksOK
    <2> HIDE DEF new
    <2>3. PICK q \in Req : q = new  BY <2>1
    <2>4. Contiguous({})  BY DEF Contiguous
    <2>5. Fits(q)'
      <3>1. q.inst \in Instances  BY <1>1, <2>1, <2>3, AtWork
      <3>2. q.pc = "verify" /\ q.u = u /\ q.read = {}  BY <2>1, <2>3
      <3>3. UNCHANGED <<meta, parts, marked, published, aborted>>  BY <1>1 DEF session
      <3> QED
        BY <1>4, <2>4, <3>1, <3>2, <3>3 DEF Fits, WriteFits, CompleteFits, Intact, Sound, Total
    <2>6. Reqs'  BY <1>11, <2>2, <2>3, <2>5, ReqsStep DEF IInv
    <2> QED
      BY <1>10, <2>2, <2>6 DEF IInv
  <1> QED
    BY <1>2, <1>3, <1>12, <1>13 DEF Assemble

\* From the check of its size on, the staging object keeps the size of the file.
LEMMA VerifyStagingStep == ASSUME IInv, NEW r \in Requests, VerifyStaging(r) PROVE IInv'
  <1> DEFINE u == req[r].u
             q == [req[r] EXCEPT !.pc = "copy"]
  <1>1. req[r].pc = "verify" /\ UNCHANGED <<session, objects, files, history>>  BY DEF VerifyStaging
  <1>2. CASE End(r)  BY <1>1, <1>2, EndStep
  <1>3. CASE ByteCount(staging[u].parts) = Total(u) /\ Goto(r, "copy") /\ UNCHANGED locks
    <2>1. req' = [req EXCEPT ![r] = q] /\ LocksOK'  BY <1>3 DEF Goto, IInv, LocksOK
    <2>2. q \in Req /\ q.pc = "copy" /\ q.u = u /\ q.inst = req[r].inst /\ q.read = req[r].read
      BY <1>1, AtWork DEF Req, Pcs
    <2> HIDE DEF q
    <2>3. Fits(q)  BY <1>1, <1>3, <2>2, AtWork DEF Fits, WriteFits, CompleteFits
    <2> QED
      BY <1>1, <2>1, <2>2, <2>3, QuietStep
  <1> QED
    BY <1>2, <1>3 DEF VerifyStaging

\* What is copied is whole: the staging object has no gap and the size of the file.
LEMMA CopyToTargetStep == ASSUME IInv, NEW r \in Requests, CopyToTarget(r) PROVE IInv'
  <1>1. req[r].pc = "copy" /\ UNCHANGED <<session, objects, aborted, crossed>>  BY DEF CopyToTarget
  <1>2. CASE End(r) /\ UNCHANGED <<files, published>>  BY <1>1, <1>2, EndStep DEF history
  <1>3. CASE /\ MayCopy(req[r].u)
             /\ files' = [files EXCEPT ![PathOf(req[r].u)] = [by |-> req[r].u, parts |-> staging[req[r].u].parts]]
             /\ published' = published \cup {req[r].u} /\ GoOnOrFail(r, "mark")
    <2>1. PICK u \in Uploads : u = req[r].u  BY <1>1, AtWork
    <2>2. PICK p \in Paths : p = PathOf(u)  BY <1>1, <2>1, AtWork
    <2>3. /\ Fits(req[r]) /\ req[r] \in Req /\ meta[u].opened  BY <1>1, <2>1, AtWork
    <2>4. World  BY DEF IInv
    <2>5. PICK ps \in SUBSET Part : ps = staging[u].parts  BY <2>4 DEF World, StoreOK
    <2>6. Sound(u) => Contiguous(ps) /\ ByteCount(ps) = Total(u)
      <3>1. staging[u].there  BY <1>3, <2>1 DEF MayCopy
      <3> QED
        BY <1>1, <2>1, <2>3, <2>4, <2>5, <3>1 DEF Fits, CompleteFits, World, Staged
    <2>7. files' = [files EXCEPT ![p] = [by |-> u, parts |-> ps]] /\ published' = published \cup {u}
      BY <1>3, <2>1, <2>2, <2>5
    <2>8. World'
      <3>1. StoreOK'  BY <1>1, <2>4, <2>7 DEF World, StoreOK, session, objects
      <3>2. Fresh'  BY <1>1, <2>3, <2>4, <2>7 DEF World, StoreOK, Fresh, session, objects
      <3>3. (Chunks /\ Staged /\ SuccessIsPublished)'
        BY <1>1, <2>4, <2>7
        DEF World, Chunks, Staged, SuccessIsPublished, Intact, Sound, Total, session, objects
      <3>4. WholeUnlessCancelled'
        BY <1>1, <2>4, <2>6, <2>7
        DEF World, StoreOK, WholeUnlessCancelled, Whole, Sound, Total, session, objects
      <3> QED
        BY <3>1, <3>2, <3>3, <3>4 DEF World
    <2>9. \A k \in Req : Fits(k) => Fits(k)'
      <3>1. \A v \in Uploads : Kept(v)  BY <1>1, <2>7 DEF Kept, Intact, Sound, session, objects
      <3> QED
        BY <3>1, FitsKept DEF Fits
    <2>10. LocksOK'  BY <1>1, <1>3, GoneOn DEF Pcs
    <2>11. PICK q \in Req : /\ req' = [req EXCEPT ![r] = q]
                            /\ q = Idle \/ (q.pc = "mark" /\ q.u = u /\ q.inst = req[r].inst /\ q.read = req[r].read)
      BY <1>1, <1>3, <2>1, GoneOn DEF Pcs
    <2>12. Fits(q)'
      <3>1. CASE q = Idle  BY <3>1, IdleFits
      <3>2. CASE q # Idle
        <4>1. q.inst \in Instances /\ (Sound(u) => Contiguous(q.read))
          BY <1>1, <2>1, <2>3, <2>11, <3>2, AtWork DEF Fits, CompleteFits
        <4>2. u \in published' /\ q.pc = "mark" /\ q.u = u  BY <2>7, <2>11, <3>2
        <4> QED
          BY <1>1, <2>3, <4>1, <4>2 DEF Fits, WriteFits, CompleteFits, Sound, session
      <3> QED
        BY <3>1, <3>2
    <2>13. Reqs'  BY <2>9, <2>11, <2>12, ReqsStep DEF IInv
    <2> QED
      BY <2>8, <2>10, <2>13 DEF IInv
  <1> QED
    BY <1>2, <1>3 DEF CopyToTarget

\* The marker is put after the copy.
LEMMA PutMarkerStep == ASSUME IInv, NEW r \in Requests, PutMarker(r) PROVE IInv'
  <1>1. /\ req[r].pc = "mark" /\ GoOnOrFail(r, "clean") /\ UNCHANGED <<session, parts, staging, files, history>>
    BY DEF PutMarker
  <1>2. PICK u \in Uploads : u = req[r].u  BY <1>1, AtWork
  <1>3. Fits(req[r]) /\ req[r] \in Req /\ meta[u].opened /\ u \in published
    BY <1>1, <1>2, AtWork DEF Fits, CompleteFits
  <1>4. World /\ marked' = marked \cup {u}  BY <1>2 DEF PutMarker, IInv
  <1>5. World'
    <2>1. StoreOK'  BY <1>1, <1>4 DEF World, StoreOK, session, history
    <2>2. (Fresh /\ Staged /\ WholeUnlessCancelled)'
      BY <1>1, <1>4 DEF World, Fresh, Staged, WholeUnlessCancelled, Whole, Sound, Total, session, history
    <2>3. (Chunks /\ SuccessIsPublished)'
      BY <1>1, <1>3, <1>4 DEF World, Chunks, SuccessIsPublished, Intact, Total, session, history
    <2> QED
      BY <2>1, <2>2, <2>3 DEF World
  <1>6. \A k \in Req : Fits(k) => Fits(k)'
    <2>1. \A v \in Uploads : Kept(v)  BY <1>1, <1>4 DEF Kept, Intact, Sound, session, history
    <2> QED
      BY <2>1, FitsKept DEF Fits
  <1>7. LocksOK'  BY <1>1, GoneOn DEF Pcs
  <1>8. PICK q \in Req : /\ req' = [req EXCEPT ![r] = q]
                         /\ q = Idle \/ (q.pc = "clean" /\ q.u = u /\ q.inst = req[r].inst /\ q.read = req[r].read)
    BY <1>1, <1>2, GoneOn DEF Pcs
  <1>9. Fits(q)'
    <2>1. CASE q = Idle  BY <2>1, IdleFits
    <2>2. CASE q # Idle
      <3>1. q.inst \in Instances /\ (Sound(u) => Contiguous(q.read))
        BY <1>1, <1>2, <1>3, <1>8, <2>2, AtWork DEF Fits, CompleteFits
      <3>2. q.pc = "clean" /\ q.u = u  BY <1>8, <2>2
      <3> QED
        BY <1>1, <1>3, <1>4, <3>1, <3>2 DEF Fits, WriteFits, CompleteFits, Sound, session, history
    <2> QED
      BY <2>1, <2>2
  <1>10. Reqs'  BY <1>6, <1>8, <1>9, ReqsStep DEF IInv
  <1> QED
    BY <1>5, <1>7, <1>10 DEF IInv

\* Objects of a session that is marked or cancelled are deleted, or not.
LEMMA ObjectsDeleted ==
  ASSUME IInv, NEW u \in Uploads, UNCHANGED <<session, files, published, crossed>>,
         \/ /\ parts' = [parts EXCEPT ![u] = {}] /\ staging' = [staging EXCEPT ![u] = NoStaging]
            /\ ~Intact(u) /\ UNCHANGED <<marked, aborted>>
         \/ /\ parts' = [parts EXCEPT ![u] = {}] /\ staging' = [staging EXCEPT ![u] = NoStaging]
            /\ marked' = marked \ {u} /\ aborted' = aborted \cup {u}
  PROVE  World' /\ \A k \in Req : Fits(k) => Fits(k)'
  <1>1. World  BY DEF IInv
  <1>2. /\ parts' \in [Uploads -> SUBSET Part] /\ staging' \in [Uploads -> [there : BOOLEAN, parts : SUBSET Part]]
        /\ parts'[u] = {} /\ staging'[u].parts = {} /\ ~staging'[u].there
        /\ \A v \in Uploads \ {u} : parts'[v] = parts[v] /\ staging'[v] = staging[v]
    <2>1. PICK g \in [there : BOOLEAN, parts : SUBSET Part] : g = NoStaging /\ g.parts = {} /\ ~g.there
      <3>1. NoStaging \in [there : BOOLEAN, parts : SUBSET Part]  BY DEF NoStaging
      <3>2. NoStaging.parts = {} /\ ~NoStaging.there  BY DEF NoStaging
      <3> QED
        BY <3>1, <3>2
    <2>2. staging' = [staging EXCEPT ![u] = g] /\ parts' = [parts EXCEPT ![u] = {}]  BY <2>1
    <2> QED
      BY <1>1, <2>1, <2>2 DEF World, StoreOK
  <1>3. /\ u \in marked' \cup aborted' /\ aborted \subseteq aborted' /\ marked' \subseteq marked
        /\ aborted' \subseteq aborted \cup {u} /\ marked \cup aborted \subseteq marked' \cup aborted'
    BY DEF Intact
  <1>4. Contiguous({})  BY DEF Contiguous
  <1>5. UNCHANGED <<meta, row, files, published, crossed>>  BY DEF session
  <1>6. StoreOK'  BY <1>1, <1>2, <1>3, <1>5 DEF World, StoreOK
  <1>7. Fresh' /\ SuccessIsPublished'
    BY <1>1, <1>2, <1>3, <1>5 DEF World, Fresh, SuccessIsPublished
  <1>8. Chunks'  BY <1>1, <1>2, <1>3, <1>5 DEF World, Chunks, Intact, Total
  <1>9. Staged'  BY <1>1, <1>2, <1>3, <1>4, <1>5 DEF World, Staged, Sound
  <1>10. WholeUnlessCancelled'
    BY <1>1, <1>3, <1>5 DEF World, WholeUnlessCancelled, Whole, Total
  <1>11. ASSUME NEW v \in Uploads PROVE Kept(v)
    BY <1>2, <1>3, <1>5 DEF Kept, Intact, Sound
  <1> QED
    BY <1>6, <1>7, <1>8, <1>9, <1>10, <1>11, FitsKept DEF World, Fits

\* Chunks and staging object are deleted behind the marker.
LEMMA CleanUpStep == ASSUME IInv, NEW r \in Requests, CleanUp(r) PROVE IInv'
  <1>1. req[r].pc = "clean" /\ UNCHANGED <<session, marked, files, history>>  BY DEF CleanUp
  <1>2. PICK u \in Uploads : u = req[r].u  BY <1>1, AtWork
  <1>3. Fits(req[r]) /\ req[r] \in Req /\ meta[u].opened /\ u \in published /\ ~Intact(u)
    BY <1>1, <1>2, AtWork DEF Fits, CompleteFits, Intact
  <1>4. parts' = [parts EXCEPT ![u] = {}] /\ staging' = [staging EXCEPT ![u] = NoStaging]
    BY <1>2 DEF CleanUp
  <1>5. World' /\ \A k \in Req : Fits(k) => Fits(k)'  BY <1>1, <1>3, <1>4, ObjectsDeleted DEF history
  <1>6. CASE End(r)
    <2>1. req' = [req EXCEPT ![r] = Idle] /\ LocksOK'  BY <1>6, UnlockType DEF End, IInv
    <2>2. Reqs'  BY <1>5, <2>1, IdleFits, ReqsStep DEF IInv
    <2> QED
      BY <1>5, <2>1, <2>2 DEF IInv
  <1>7. CASE Goto(r, "record") /\ Unlock(r)
    <2> DEFINE new == [req[r] EXCEPT !.pc = "record"]
    <2>1. new \in Req /\ new.pc = "record" /\ new.u = u /\ new.inst = req[r].inst /\ new.read = req[r].read
      BY <1>2, <1>3 DEF Req, Pcs
    <2>2. req' = [req EXCEPT ![r] = new] /\ LocksOK'  BY <1>7, UnlockType DEF Goto, IInv
    <2> HIDE DEF new
    <2>3. PICK q \in Req : q = new  BY <2>1
    <2>4. q.inst \in Instances /\ (Sound(u) => Contiguous(q.read))
      BY <1>1, <1>2, <1>3, <2>1, <2>3, AtWork DEF Fits, CompleteFits
    <2>5. Fits(q)'
      <3>1. q.pc = "record" /\ q.u = u  BY <2>1, <2>3
      <3> QED
        BY <1>1, <1>3, <2>4, <3>1 DEF Fits, WriteFits, CompleteFits, Sound, session, history
    <2>6. Reqs'  BY <1>5, <2>2, <2>3, <2>5, ReqsStep DEF IInv
    <2> QED
      BY <1>5, <2>2, <2>6 DEF IInv
  <1> QED
    BY <1>6, <1>7 DEF CleanUp

\* A cancellation deletes the objects, or fails to and goes on.
LEMMA CancelAbortStep == ASSUME IInv, NEW r \in Requests, CancelAbort(r) PROVE IInv'
  <1>1. req[r].pc = "held" /\ Goto(r, "drop") /\ UNCHANGED <<session, files, published, crossed, locks>>
    BY DEF CancelAbort, At
  <1>2. PICK u \in Uploads : u = req[r].u  BY <1>1, AtWork
  <1>3. Fits(req[r]) /\ req[r] \in Req /\ meta[u].opened  BY <1>1, <1>2, AtWork
  <1>4. World' /\ \A k \in Req : Fits(k) => Fits(k)'
    <2>1. CASE UNCHANGED <<objects, aborted>>
      <3>1. World'  BY <1>1, <2>1, WorldKept DEF IInv, history
      <3>2. \A v \in Uploads : Kept(v)  BY <1>1, <2>1 DEF Kept, Intact, Sound, session, objects
      <3> QED
        BY <3>1, <3>2, FitsKept DEF Fits
    <2>2. CASE /\ parts' = [parts EXCEPT ![u] = {}] /\ staging' = [staging EXCEPT ![u] = NoStaging]
               /\ marked' = marked \ {u} /\ aborted' = aborted \cup {u}
      BY <1>1, <2>2, ObjectsDeleted
    <2> QED
      BY <1>2, <2>1, <2>2 DEF CancelAbort
  <1> DEFINE new == [req[r] EXCEPT !.pc = "drop"]
  <1>5. new \in Req /\ new.pc = "drop" /\ new.u = u /\ new.inst = req[r].inst /\ new.read = req[r].read
    BY <1>2, <1>3 DEF Req, Pcs
  <1>6. req' = [req EXCEPT ![r] = new] /\ LocksOK'  BY <1>1 DEF Goto, IInv, LocksOK
  <1> HIDE DEF new
  <1>7. PICK q \in Req : q = new  BY <1>5
  <1>8. Fits(q)
    BY <1>1, <1>2, <1>3, <1>5, <1>7, AtWork DEF Fits, WriteFits, CompleteFits
  <1>9. Fits(q)'  BY <1>4, <1>8
  <1>10. Reqs'  BY <1>4, <1>6, <1>7, <1>9, ReqsStep DEF IInv
  <1> QED
    BY <1>4, <1>6, <1>10 DEF IInv
-----------------------------------------------------------------------------
(* The theorems *)

\* At first nothing is stored and nobody asks.
LEMMA InitHolds == ASSUME Init PROVE IInv
  <1>1. (CHOOSE p \in Paths : TRUE) \in Paths  BY PathAssumption
  <1>2. 0 \in Sizes  BY SizeAssumption DEF Sizes
  <1>3. Absent.by \notin Uploads /\ Absent \in [by : Uploads \cup {NoFile, Foreign}, parts : SUBSET Part]
    BY NullAssumption DEF Absent
  <1>4. NoStaging \in [there : BOOLEAN, parts : SUBSET Part] /\ NoStaging.parts = {}  BY DEF NoStaging
  <1>5. Contiguous({}) /\ ByteCount({}) = 0  BY ByteCountEmpty DEF Contiguous
  <1>6. \A u \in Uploads : /\ meta[u].total = 0 /\ row[u] = [status |-> "NONE", received |-> 0] /\ parts[u] = {}
                           /\ staging[u] = NoStaging
    BY DEF Init
  <1>7. StoreOK
    <2>1. \A o \in Paths : [path |-> o, total |-> 0, replace |-> FALSE, opened |-> FALSE]
                             \in [path : Paths, total : Sizes, replace : BOOLEAN, opened : BOOLEAN]
      BY <1>2
    <2>2. meta \in [Uploads -> [path : Paths, total : Sizes, replace : BOOLEAN, opened : BOOLEAN]]
      BY <1>1, <2>1 DEF Init
    <2>3. row \in [Uploads -> Row]  BY <1>2 DEF Init, Row
    <2> QED
      BY <1>3, <1>4, <2>2, <2>3 DEF Init, StoreOK
  <1>8. Fresh /\ Staged /\ SuccessIsPublished /\ WholeUnlessCancelled
    BY <1>3, <1>4, <1>5, <1>6 DEF Init, Fresh, Staged, SuccessIsPublished, WholeUnlessCancelled
  <1>9. Chunks
    <2>1. \A u \in Uploads : row[u].received = 0 /\ meta[u].total = 0  BY <1>6
    <2> SUFFICES ASSUME NEW u \in Uploads
                 PROVE  /\ Contiguous(parts[u]) /\ \A b \in 0 .. ByteCount(parts[u]) - 1 : FALSE
                        /\ row[u].received <= ByteCount(parts[u]) /\ ByteCount(parts[u]) <= meta[u].total
      BY DEF Chunks, Total
    <2>2. parts[u] = {}  BY <1>6
    <2>3. ByteCount(parts[u]) = 0 /\ Contiguous(parts[u])  BY <1>5, <2>2
    <2> QED
      BY <2>1, <2>3
  <1>10. LocksOK  BY DEF Init, LocksOK, Locks, NoLocks
  <1>11. Reqs  BY IdleFits DEF Init, Reqs
  <1> QED
    BY <1>7, <1>8, <1>9, <1>10, <1>11 DEF IInv, World

\* IInv is an invariant of the upload handlers over the Blob adapter.
THEOREM BlobInvariance == Spec => []IInv
  <1>1. Init => IInv  BY InitHolds
  <1>2. ASSUME IInv, [Next]_vars PROVE IInv'
    <2>1. CASE \E u \in Uploads, p \in Paths, n \in Sizes, rep \in BOOLEAN : StartUpload(u, p, n, rep)
      BY <1>2, <2>1, StartUploadStep
    <2>2. CASE \E r \in Requests, i \in Instances, op \in Ops, u \in Uploads : Arrive(r, i, op, u)
      BY <1>2, <2>2, ArriveStep
    <2>3. ASSUME NEW r \in Requests, Handle(r) PROVE IInv'
      BY <1>2, <2>3, TakeUploadLockStep, TakeTargetLockStep, StoreFailsStep, ReadMarkerStep, ListPartsStep,
         RefuseStep, CheckOffsetStep, PutPartStep, ConfirmChunkStep, CheckCompleteStep, FindStagingStep,
         AssembleStep, VerifyStagingStep, CopyToTargetStep, PutMarkerStep, CleanUpStep, RecordCompletionStep, CancelAbortStep,
         CancelDeleteStep
      DEF Handle
    <2>4. CASE \E p \in Paths \cup {NoPath}, q \in Paths : MoveCopy(p, q)  BY <1>2, <2>4, MoveCopyStep
    <2>5. CASE \E p \in Paths : DeleteItem(p)  BY <1>2, <2>5, DeleteItemStep
    <2>6. CASE \E i \in Instances : Crash(i)  BY <1>2, <2>6, CrashStep
    <2>7. CASE UNCHANGED vars
      <3>1. UNCHANGED <<session, objects, files, history, locks, req>>  BY <2>7 DEF vars, session, objects, history
      <3>2. World'  BY <1>2, <3>1, WorldKept DEF IInv
      <3>3. \A v \in Uploads : Kept(v)  BY <3>1 DEF Kept, Intact, Sound, session, objects, history
      <3>4. \A k \in Req : Fits(k) => Fits(k)'  BY <3>3, FitsKept DEF Fits
      <3> QED
        BY <1>2, <3>1, <3>2, <3>4, OutsideStep
    <2> QED
      BY <1>2, <2>1, <2>2, <2>3, <2>4, <2>5, <2>6, <2>7 DEF Next
  <1> QED
    BY <1>1, <1>2, PTL DEF Spec

\* Every variable keeps its type: no chunk reaches beyond the size of its file and no
\* two have the same key (write_upload_chunk).
THEOREM BlobTypeOK == Spec => []TypeOK
  <1>1. IInv => TypeOK  BY TypeParts DEF IInv, World, Reqs
  <1> QED
    BY <1>1, BlobInvariance, PTL

\* Acknowledged bytes stay in the chunk objects until the marker or a cancellation,
\* whatever several instances do with the session at once.
THEOREM BlobAckedBytes == Spec => []AckedBytesDurable
  <1>1. ASSUME IInv PROVE AckedBytesDurable
    <2> SUFFICES ASSUME NEW u \in Uploads, Intact(u), NEW b \in 0 .. row[u].received - 1
                 PROVE  \E x \in parts[u] : x.off <= b /\ b < x.off + x.len
      BY DEF AckedBytesDurable, Intact
    <2>1. World  BY <1>1 DEF IInv
    <2>2. row[u].received <= ByteCount(parts[u])  BY <2>1 DEF World, Chunks
    <2>3. ByteCount(parts[u]) \in Nat /\ row[u].received \in Nat
      BY <2>1, ByteCountType, SizeAssumption DEF World, StoreOK, Row, Sizes
    <2>4. b \in 0 .. ByteCount(parts[u]) - 1  BY <2>2, <2>3
    <2> QED
      BY <2>1, <2>4 DEF World, Chunks
  <1> QED
    BY <1>1, BlobInvariance, PTL

\* A published file is whole, unless the session was cancelled or, once it was marked,
\* one completion got in the way of another.
THEOREM BlobWhole == Spec => []WholeUnlessCancelled
  <1>1. IInv => WholeUnlessCancelled  BY DEF IInv, World
  <1> QED
    BY <1>1, BlobInvariance, PTL

\* A marker or a recorded success means that the file reached its target.
THEOREM BlobSuccess == Spec => []SuccessIsPublished
  <1>1. IInv => SuccessIsPublished  BY DEF IInv, World
  <1> QED
    BY <1>1, BlobInvariance, PTL

\* A completion never replaces a file of someone else unasked, and neither does a move.
THEOREM BlobNoOverwrite == Spec => NoSilentOverwrite
  <1> DEFINE Keeps == \A p \in Paths : Occupied(p) /\ files'[p] # files[p] =>
                        \/ files'[p].by = NoFile
                        \/ files'[p].by \in Uploads /\ meta[files'[p].by].replace
  <1>1. ASSUME IInv, [Next]_vars PROVE Keeps \/ UNCHANGED vars
    <2>1. CASE UNCHANGED files  BY <2>1
    <2>2. ASSUME NEW r \in Requests, CopyToTarget(r), ~UNCHANGED files PROVE Keeps
      <3>1. req[r].pc = "copy" /\ MayCopy(req[r].u)  BY <2>2 DEF CopyToTarget
      <3>2. PICK u \in Uploads : u = req[r].u  BY <1>1, <3>1, AtWork
      <3>3. files' = [files EXCEPT ![PathOf(u)] = [by |-> u, parts |-> staging[u].parts]]
        BY <2>2, <3>2 DEF CopyToTarget
      <3> QED
        BY <1>1, <3>1, <3>2, <3>3 DEF MayCopy, IInv, World, StoreOK
    <2>3. ASSUME NEW q \in Paths, \E p \in Paths \cup {NoPath} : MoveCopy(p, q) PROVE Keeps
      BY <1>1, <2>3 DEF MoveCopy, IInv, World, StoreOK
    <2>4. ASSUME NEW p \in Paths, DeleteItem(p) PROVE Keeps
      BY <1>1, <2>4 DEF DeleteItem, Absent, IInv, World, StoreOK
    <2> QED
      BY <1>1, <2>1, <2>2, <2>3, <2>4
      DEF Next, Handle, vars, StartUpload, Arrive, TakeUploadLock, TakeTargetLock, StoreFails, ReadMarker, ListParts,
          Refuse, CheckOffset, PutPart, ConfirmChunk, CheckComplete, FindStaging, Assemble, VerifyStaging,
          PutMarker, CleanUp, RecordCompletion, CancelAbort, CancelDelete, Crash
  <1> HIDE DEF Keeps
  <1>2. IInv /\ [Next]_vars => [Keeps]_vars  BY <1>1
  <1>3. [][Keeps]_vars <=> NoSilentOverwrite  BY DEF Keeps, NoSilentOverwrite
  <1> QED
    BY <1>2, <1>3, BlobInvariance, PTL DEF Spec
=============================================================================
