------------------------ MODULE UploadSessionProofs -------------------------
(***************************************************************************)
(* UploadSession, proved for every number of uploads, paths and requests,  *)
(* every file size and any number of restarts.  First IInv is an inductive *)
(* invariant: one lemma per action; under it one step per part of IInv that*)
(* the action can disturb, the rest by Frame.  Then the properties follow  *)
(* from it, and every step implements a step of AtomicPublish.             *)
(***************************************************************************)
EXTENDS UploadSessionInv, TLAPS

\* The size of a file whose first n positions were written is n.
LEMMA SizeOfPrefix == ASSUME NEW n \in Sizes PROVE SizeOf(Positions(n)) = n
  <1> DEFINE P(k) == Positions(n) \subseteq Positions(k) /\ (k > 0 => k - 1 \in Positions(n))
  <1>1. P(n)  BY SizeAssumption DEF Sizes, Positions
  <1>2. \A k \in Sizes : P(k) => k = n
    <2> SUFFICES ASSUME NEW k \in Sizes, P(k) PROVE k = n
      OBVIOUS
    <2>1. k <= n  BY SizeAssumption DEF Sizes, Positions
    <2>2. n <= k
      <3>1. CASE n = 0  BY <3>1, SizeAssumption DEF Sizes
      <3>2. CASE n > 0
        <4>1. n - 1 \in Positions(n)  BY <3>2, SizeAssumption DEF Sizes, Positions
        <4>2. n - 1 \in Positions(k)  BY <4>1
        <4> QED
          BY <4>2, SizeAssumption DEF Sizes, Positions
      <3> QED
        BY <3>1, <3>2, SizeAssumption DEF Sizes
    <2> QED
      BY <2>1, <2>2, SizeAssumption DEF Sizes
  <1> QED
    BY <1>1, <1>2 DEF SizeOf

\* So a remote size says exactly which positions a temporary object holds.
LEMMA RemoteSizeIsPrefix ==
  ASSUME TypeOK, PrefixInv, NEW u \in Uploads
  PROVE  /\ RemoteSize(u) \in Sizes
         /\ RemoteSize(u) <= Total(u)
         /\ temp[u] = Positions(RemoteSize(u))
  <1>1. PICK n \in 0 .. Total(u) : temp[u] = Positions(n)  BY DEF PrefixInv
  <1>2. Total(u) \in Sizes  BY DEF TypeOK, SessionsOK, Total
  <1>3. n \in Sizes  BY <1>1, <1>2, SizeAssumption DEF Sizes
  <1> QED
    BY <1>1, <1>2, <1>3, SizeOfPrefix, SizeAssumption DEF RemoteSize, Sizes

\* The first state.
LEMMA InitIInv == Init => IInv
  <1> SUFFICES ASSUME Init PROVE IInv
    OBVIOUS
  <1> USE SizeAssumption, PathAssumption, NullAssumption DEF Init, Idle
  <1>1. TypeOK
    <2>1. (CHOOSE p \in Paths : TRUE) \in Paths
      OBVIOUS
    <2> QED
      BY <2>1 DEF TypeOK, SessionsOK, RemoteOK, LocksOK, RequestsOK, RequestState, Sizes, Positions, Ops, Pcs
  <1>2. LockInv /\ PcInv /\ StartInv /\ FlightInv /\ OnceInv /\ FilesInv
    BY DEF LockInv, Holding, PcInv, StartInv, Exists, About, FlightInv, InFlight, OnceInv, FilesInv
  <1>3. PrefixInv  BY DEF PrefixInv, Total, Positions
  <1>4. AckedBytesDurable /\ CompletedExactlyOnce
    BY DEF AckedBytesDurable, CompletedExactlyOnce, Exists
  <1> QED
    BY <1>1, <1>2, <1>3, <1>4 DEF IInv

\* A request moves on to another await, or is answered.
LEMMA GotoOK ==
  ASSUME RequestsOK, NEW r \in Requests, NEW pc \in Pcs, req[r].pc # "idle", Goto(r, pc)
  PROVE  RequestsOK'
  BY DEF RequestsOK, RequestState, Goto

\* A request that ends leaves requests and locks well typed.
LEMMA EndOK ==
  ASSUME RequestsOK, LocksOK, NEW r \in Requests, End(r)
  PROVE  RequestsOK' /\ LocksOK'
  BY SizeAssumption DEF RequestsOK, LocksOK, RequestState, End, Unlock, Idle, Ops, Pcs, Sizes

\* Leaving the locks keeps their type.
LEMMA UnlockOK == ASSUME LocksOK, NEW r \in Requests, Unlock(r) PROVE LocksOK'
  BY DEF LocksOK, Unlock

\* A request confirms a chunk, or is about to delete the row.
LEMMA ConfirmOK ==
  ASSUME RequestsOK, NEW r \in Requests, NEW n \in Sizes, req[r].pc # "idle",
         req' = [req EXCEPT ![r].pc = "confirm", ![r].off = n]
  PROVE  RequestsOK'
  <1>1. [[req[r] EXCEPT !.pc = "confirm"] EXCEPT !.off = n] \in RequestState
    BY DEF RequestsOK, RequestState, Pcs
  <1> QED
    BY <1>1 DEF RequestsOK, RequestState

\* A cancellation that goes on to delete the row is a request.
LEMMA DropOK ==
  ASSUME RequestsOK, NEW r \in Requests, req[r].pc # "idle",
         req' = [req EXCEPT ![r].pc = "drop", ![r].seen = "NONE"]
  PROVE  RequestsOK'
  <1>1. [[req[r] EXCEPT !.pc = "drop"] EXCEPT !.seen = "NONE"] \in RequestState
    BY DEF RequestsOK, RequestState, Pcs
  <1> QED
    BY <1>1 DEF RequestsOK, RequestState

\* A column of a row changes within its type.
LEMMA ReceivedOK ==
  ASSUME SessionsOK, NEW u \in Uploads, NEW n \in Sizes,
         row' = [row EXCEPT ![u].received = n], UNCHANGED <<start, meta, audit>>
  PROVE  SessionsOK'
  <1>1. [row[u] EXCEPT !.received = n] \in [status : {"NONE", "ACTIVE", "COMPLETED"}, received : Sizes]
    BY DEF SessionsOK
  <1>2. row' \in [Uploads -> [status : {"NONE", "ACTIVE", "COMPLETED"}, received : Sizes]]
    BY <1>1 DEF SessionsOK
  <1> QED
    BY <1>2 DEF SessionsOK

\* Recording a completion keeps the types of the rows.
LEMMA CompletedOK ==
  ASSUME SessionsOK, NEW u \in Uploads,
         row' = [row EXCEPT ![u].status = "COMPLETED"], audit' = [audit EXCEPT ![u] = @ + 1],
         UNCHANGED <<start, meta>>
  PROVE  SessionsOK'
  <1>1. [row[u] EXCEPT !.status = "COMPLETED"] \in [status : {"NONE", "ACTIVE", "COMPLETED"}, received : Sizes]
    BY DEF SessionsOK
  <1>2. row' \in [Uploads -> [status : {"NONE", "ACTIVE", "COMPLETED"}, received : Sizes]]
    BY <1>1 DEF SessionsOK
  <1> QED
    BY <1>2 DEF SessionsOK

\* A removed temporary object leaves the empty prefix.
LEMMA UnlinkPrefix ==
  ASSUME TypeOK, PrefixInv, NEW u \in Uploads, Unlink(u), UNCHANGED meta
  PROVE  PrefixInv'
  <1> SUFFICES ASSUME NEW v \in Uploads
               PROVE  /\ \E n \in 0 .. Total(v) : temp'[v] = Positions(n)
                      /\ v \notin temps' => temp'[v] = {}
    BY DEF PrefixInv, Total
  <1>1. 0 \in 0 .. Total(v) /\ Positions(0) = {}
    BY SizeAssumption DEF TypeOK, SessionsOK, Total, Sizes, Positions
  <1>2. temp'[v] = IF v = u THEN {} ELSE temp[v]  BY DEF TypeOK, RemoteOK, Unlink
  <1> QED
    BY <1>1, <1>2 DEF PrefixInv, Unlink

\* Bytes written from the end of a prefix make a longer prefix.
LEMMA WrittenPrefix ==
  ASSUME NEW off \in Nat, NEW m \in Nat
  PROVE  Written(Positions(off), off, m) = Positions(off + m)
  BY DEF Written, Positions

\* A part of the invariant is kept by a step that leaves its variables alone.
LEMMA Frame ==
  /\ LockInv /\ UNCHANGED <<upload_locks, req>> => LockInv'
  /\ PcInv /\ UNCHANGED req => PcInv'
  /\ StartInv /\ UNCHANGED <<start, row, temp, published, audit, req>> => StartInv'
  /\ PrefixInv /\ UNCHANGED <<meta, temps, temp>> => PrefixInv'
  /\ FlightInv /\ UNCHANGED <<meta, temps, temp, req>> => FlightInv'
  /\ OnceInv /\ UNCHANGED <<temps, published, audit, req>> => OnceInv'
  /\ FilesInv /\ UNCHANGED <<meta, files, published>> => FilesInv'
  /\ AckedBytesDurable /\ UNCHANGED <<row, temps, temp>> => AckedBytesDurable'
  /\ CompletedExactlyOnce /\ UNCHANGED <<row, published, audit>> => CompletedExactlyOnce'
  BY DEF LockInv, Holding, PcInv, StartInv, Exists, About, PrefixInv, Total, FlightInv, InFlight,
         OnceInv, FilesInv, AckedBytesDurable, CompletedExactlyOnce

\* Answering a request without another effect (a refusal or an error).
LEMMA Answered ==
  ASSUME IInv, NEW r \in Requests, End(r), UNCHANGED <<session, remote>> PROVE IInv'
  <1> USE SizeAssumption, PathAssumption, NullAssumption
       DEF IInv, InFlight, About, Holding, session, remote, locks, At, Goto, Unlock, End, Idle,
           Unlink, PathOf, Total, Exists
  <1>1. TypeOK'  BY EndOK DEF TypeOK, SessionsOK, RemoteOK, LocksOK, Sizes, Positions, Pcs
  <1> USE DEF TypeOK, SessionsOK, RemoteOK, LocksOK, RequestsOK, RequestState,
              Sizes, Positions, Ops, Pcs
  <1>2. LockInv'  BY DEF LockInv
  <1>3. PcInv'  BY DEF PcInv
  <1>4. StartInv'  BY DEF StartInv
  <1>5. FlightInv'  BY DEF FlightInv
  <1>6. OnceInv'  BY DEF OnceInv
  <1>7. (PrefixInv /\ FilesInv /\ AckedBytesDurable /\ CompletedExactlyOnce)'  BY Frame
  <1> QED
    BY <1>1, <1>2, <1>3, <1>4, <1>5, <1>6, <1>7 DEF IInv

\* Waiting for the upload lock: only a free lock is taken.
LEMMA TakeUploadLockStep ==
  ASSUME IInv, NEW r \in Requests, TakeUploadLock(r) PROVE IInv'
  <1> USE SizeAssumption, PathAssumption, NullAssumption
       DEF IInv, InFlight, About, Holding, session, remote, locks, At, Goto, Unlock, End, Idle,
           Unlink, PathOf, Total, Exists, TakeUploadLock
  <1>c1. CASE End(r)  BY <1>c1, Answered
  <1>c2. CASE /\ upload_locks' = [upload_locks EXCEPT ![req[r].u] = r]
              /\ Goto(r, "target")
              /\ req[r].op = "complete"
              /\ UNCHANGED upload_target_locks
    <2>1. TypeOK'  BY <1>c2, GotoOK DEF TypeOK, SessionsOK, RemoteOK, LocksOK, Sizes, Positions, Pcs
    <2> USE DEF TypeOK, SessionsOK, RemoteOK, LocksOK, RequestsOK, RequestState,
                Sizes, Positions, Ops, Pcs
    <2>2. LockInv'  BY <1>c2 DEF LockInv
    <2>3. PcInv'  BY <1>c2 DEF PcInv
    <2>4. StartInv'  BY <1>c2 DEF StartInv
    <2>5. FlightInv'  BY <1>c2 DEF FlightInv
    <2>6. OnceInv'  BY <1>c2 DEF OnceInv
    <2>7. (PrefixInv /\ FilesInv /\ AckedBytesDurable /\ CompletedExactlyOnce)'  BY <1>c2, Frame
    <2> QED
      BY <2>1, <2>2, <2>3, <2>4, <2>5, <2>6, <2>7 DEF IInv
  <1>c3. CASE /\ upload_locks' = [upload_locks EXCEPT ![req[r].u] = r]
              /\ Goto(r, "held")
              /\ req[r].op # "complete"
              /\ UNCHANGED upload_target_locks
    <2>1. TypeOK'  BY <1>c3, GotoOK DEF TypeOK, SessionsOK, RemoteOK, LocksOK, Sizes, Positions, Pcs
    <2> USE DEF TypeOK, SessionsOK, RemoteOK, LocksOK, RequestsOK, RequestState,
                Sizes, Positions, Ops, Pcs
    <2>2. LockInv'  BY <1>c3 DEF LockInv
    <2>3. PcInv'  BY <1>c3 DEF PcInv
    <2>4. StartInv'  BY <1>c3 DEF StartInv
    <2>5. FlightInv'  BY <1>c3 DEF FlightInv
    <2>6. OnceInv'  BY <1>c3 DEF OnceInv
    <2>7. (PrefixInv /\ FilesInv /\ AckedBytesDurable /\ CompletedExactlyOnce)'  BY <1>c3, Frame
    <2> QED
      BY <2>1, <2>2, <2>3, <2>4, <2>5, <2>6, <2>7 DEF IInv
  <1> QED
    BY <1>c1, <1>c2, <1>c3

\* Waiting for the target lock, with the upload lock held.
LEMMA TakeTargetLockStep ==
  ASSUME IInv, NEW r \in Requests, TakeTargetLock(r) PROVE IInv'
  <1> USE SizeAssumption, PathAssumption, NullAssumption
       DEF IInv, InFlight, About, Holding, session, remote, locks, At, Goto, Unlock, End, Idle,
           Unlink, PathOf, Total, Exists, TakeTargetLock
  <1>c1. CASE End(r)  BY <1>c1, Answered
  <1>c2. CASE /\ upload_target_locks' = [upload_target_locks EXCEPT ![PathOf(req[r].u)] = r]
              /\ Goto(r, "held")
              /\ UNCHANGED upload_locks
    <2>1. TypeOK'  BY <1>c2, GotoOK DEF TypeOK, SessionsOK, RemoteOK, LocksOK, Sizes, Positions, Pcs
    <2> USE DEF TypeOK, SessionsOK, RemoteOK, LocksOK, RequestsOK, RequestState,
                Sizes, Positions, Ops, Pcs
    <2>2. LockInv'  BY <1>c2 DEF LockInv
    <2>3. PcInv'  BY <1>c2 DEF PcInv
    <2>4. StartInv'  BY <1>c2 DEF StartInv
    <2>5. FlightInv'  BY <1>c2 DEF FlightInv
    <2>6. OnceInv'  BY <1>c2 DEF OnceInv
    <2>7. (PrefixInv /\ FilesInv /\ AckedBytesDurable /\ CompletedExactlyOnce)'  BY <1>c2, Frame
    <2> QED
      BY <2>1, <2>2, <2>3, <2>4, <2>5, <2>6, <2>7 DEF IInv
  <1> QED
    BY <1>c1, <1>c2

\* The reconciled size is the length of the prefix on the server.
LEMMA ReconcileStep ==
  ASSUME IInv, NEW r \in Requests, Reconcile(r) PROVE IInv'
  <1> USE SizeAssumption, PathAssumption, NullAssumption
       DEF IInv, InFlight, About, Holding, session, remote, locks, At, Goto, Unlock, End, Idle,
           Unlink, PathOf, Total, Exists, Reconcile
  <1>u. req[r].u \in Uploads  BY DEF IInv, TypeOK, RequestsOK, Reconcile
  <1>s. /\ RemoteSize(req[r].u) \in Sizes /\ RemoteSize(req[r].u) <= Total(req[r].u)
        /\ temp[req[r].u] = Positions(RemoteSize(req[r].u))
    BY <1>u, RemoteSizeIsPrefix DEF IInv
  <1>c1. CASE End(r)
    <2>1. TypeOK'
      <3>1. SessionsOK'  BY <1>u, <1>s, ReceivedOK DEF TypeOK
      <3>2. RequestsOK' /\ LocksOK'  BY <1>c1, EndOK, GotoOK DEF TypeOK, LocksOK, Pcs
      <3>3. RemoteOK'  BY <1>u DEF TypeOK, RemoteOK
      <3> QED
        BY <3>1, <3>2, <3>3 DEF TypeOK
    <2> USE DEF TypeOK, SessionsOK, RemoteOK, LocksOK, RequestsOK, RequestState,
                Sizes, Positions, Ops, Pcs
    <2>2. LockInv'  BY <1>c1 DEF LockInv
    <2>3. PcInv'  BY <1>c1 DEF PcInv
    <2>4. StartInv'  BY <1>c1 DEF StartInv
    <2>5. FlightInv'  BY <1>c1 DEF FlightInv
    <2>6. OnceInv'  BY <1>c1 DEF OnceInv
    <2>7. AckedBytesDurable'  BY <1>c1, <1>u, <1>s DEF AckedBytesDurable
    <2>8. CompletedExactlyOnce'  BY <1>c1 DEF CompletedExactlyOnce
    <2>9. (PrefixInv /\ FilesInv)'  BY <1>c1, Frame
    <2> QED
      BY <2>1, <2>2, <2>3, <2>4, <2>5, <2>6, <2>7, <2>8, <2>9 DEF IInv
  <1>c2. CASE Goto(r, "sized") /\ UNCHANGED locks
    <2>1. TypeOK'
      <3>1. SessionsOK'  BY <1>u, <1>s, ReceivedOK DEF TypeOK
      <3>2. RequestsOK' /\ LocksOK'  BY <1>c2, EndOK, GotoOK DEF TypeOK, LocksOK, Pcs
      <3>3. RemoteOK'  BY <1>u DEF TypeOK, RemoteOK
      <3> QED
        BY <3>1, <3>2, <3>3 DEF TypeOK
    <2> USE DEF TypeOK, SessionsOK, RemoteOK, LocksOK, RequestsOK, RequestState,
                Sizes, Positions, Ops, Pcs
    <2>2. LockInv'  BY <1>c2 DEF LockInv
    <2>3. PcInv'  BY <1>c2 DEF PcInv
    <2>4. StartInv'  BY <1>c2 DEF StartInv
    <2>5. FlightInv'  BY <1>c2 DEF FlightInv
    <2>6. OnceInv'  BY <1>c2 DEF OnceInv
    <2>7. AckedBytesDurable'  BY <1>c2, <1>u, <1>s DEF AckedBytesDurable
    <2>8. CompletedExactlyOnce'  BY <1>c2 DEF CompletedExactlyOnce
    <2>9. (PrefixInv /\ FilesInv)'  BY <1>c2, Frame
    <2> QED
      BY <2>1, <2>2, <2>3, <2>4, <2>5, <2>6, <2>7, <2>8, <2>9 DEF IInv
  <1> QED
    BY <1>c1, <1>c2

\* The size check makes the object whole before the rename; the lock keeps it so.
LEMMA CheckTargetStep ==
  ASSUME IInv, NEW r \in Requests, CheckTarget(r) PROVE IInv'
  <1> USE SizeAssumption, PathAssumption, NullAssumption
       DEF IInv, InFlight, About, Holding, session, remote, locks, At, Goto, Unlock, End, Idle,
           Unlink, PathOf, Total, Exists, CheckTarget, AllBytesThere
  <1>u. req[r].u \in Uploads  BY DEF IInv, TypeOK, RequestsOK, CheckTarget, At
  <1>s. /\ RemoteSize(req[r].u) \in Sizes /\ RemoteSize(req[r].u) <= Total(req[r].u)
        /\ temp[req[r].u] = Positions(RemoteSize(req[r].u))
    BY <1>u, RemoteSizeIsPrefix DEF IInv
  <1>c1. CASE End(r)  BY <1>c1, Answered
  <1>c2. CASE Goto(r, "rename") /\ UNCHANGED locks
    <2>1. TypeOK'  BY <1>c2, GotoOK DEF TypeOK, SessionsOK, RemoteOK, LocksOK, Sizes, Positions, Pcs
    <2> USE DEF TypeOK, SessionsOK, RemoteOK, LocksOK, RequestsOK, RequestState,
                Sizes, Positions, Ops, Pcs
    <2>2. LockInv'  BY <1>c2 DEF LockInv
    <2>3. PcInv'  BY <1>c2 DEF PcInv
    <2>4. StartInv'  BY <1>c2 DEF StartInv
    <2>5. FlightInv'  BY <1>c2, <1>u, <1>s DEF FlightInv
    <2>6. OnceInv'  BY <1>c2 DEF OnceInv
    <2>7. (PrefixInv /\ FilesInv /\ AckedBytesDurable /\ CompletedExactlyOnce)'  BY <1>c2, Frame
    <2> QED
      BY <2>1, <2>2, <2>3, <2>4, <2>5, <2>6, <2>7 DEF IInv
  <1> QED
    BY <1>c1, <1>c2

\* A chunk extends the prefix, whether or not it is confirmed.
LEMMA WriteChunkStep ==
  ASSUME IInv, NEW r \in Requests, NEW m \in 0 .. ChunkSize, WriteChunk(r, m) PROVE IInv'
  <1> USE SizeAssumption, PathAssumption, NullAssumption
       DEF IInv, InFlight, About, Holding, session, remote, locks, At, Goto, Unlock, End, Idle,
           Unlink, PathOf, Total, Exists, WriteChunk
  <1>u. req[r].u \in Uploads  BY DEF IInv, TypeOK, RequestsOK, WriteChunk, At
  <1>s. /\ RemoteSize(req[r].u) \in Sizes /\ RemoteSize(req[r].u) <= Total(req[r].u)
        /\ temp[req[r].u] = Positions(RemoteSize(req[r].u))
    BY <1>u, RemoteSizeIsPrefix DEF IInv
  <1>w. /\ temp' = [temp EXCEPT ![req[r].u] = Positions(req[r].off + m)]
        /\ req[r].off + m \in 0 .. Total(req[r].u) /\ req[r].off + m \in Sizes
        /\ temp[req[r].u] \subseteq Positions(req[r].off + m)
        /\ row[req[r].u].received = req[r].off /\ req[r].u \in temps
    <2>1. req[r].off \in Nat /\ m \in Nat /\ Total(req[r].u) \in Sizes
      BY <1>u, SizeAssumption DEF IInv, TypeOK, SessionsOK, RequestsOK, RequestState, Total, Sizes
    <2>2. temp[req[r].u] = Positions(req[r].off)  BY <1>s DEF WriteChunk
    <2>3. temp' = [temp EXCEPT ![req[r].u] = Positions(req[r].off + m)]
      BY <2>1, <2>2, WrittenPrefix DEF WriteChunk
    <2>4. req[r].off + m \in 0 .. Total(req[r].u) /\ req[r].off + m \in Sizes
      BY <2>1, SizeAssumption DEF WriteChunk, Sizes
    <2>5. Positions(req[r].off) \subseteq Positions(req[r].off + m)  BY <2>1 DEF Positions
    <2> QED
      BY <2>2, <2>3, <2>4, <2>5 DEF WriteChunk
  <1>c1. CASE End(r)
    <2>1. TypeOK'
      <3>1. SessionsOK'  BY DEF TypeOK, SessionsOK
      <3>2. RequestsOK' /\ LocksOK'  BY <1>c1, <1>w, EndOK, ConfirmOK DEF TypeOK, LocksOK
      <3>3. RemoteOK'  BY <1>u, <1>w DEF TypeOK, RemoteOK, Positions, Sizes
      <3> QED
        BY <3>1, <3>2, <3>3 DEF TypeOK
    <2> USE DEF TypeOK, SessionsOK, RemoteOK, LocksOK, RequestsOK, RequestState,
                Sizes, Positions, Ops, Pcs
    <2>2. LockInv'  BY <1>c1 DEF LockInv
    <2>3. PcInv'  BY <1>c1 DEF PcInv
    <2>4. StartInv'  BY <1>c1, <1>u, <1>w DEF StartInv
    <2>5. PrefixInv'
      <3> HIDE DEF Positions, Sizes
      <3> SUFFICES ASSUME NEW v \in Uploads
                    PROVE  (\E n \in 0 .. Total(v) : temp'[v] = Positions(n)) /\ (v \notin temps' => temp'[v] = {})
        BY DEF PrefixInv
      <3>1. CASE v = req[r].u  BY <1>u, <1>w, <3>1 DEF TypeOK, RemoteOK
      <3>2. CASE v # req[r].u  BY <1>w, <3>2 DEF TypeOK, RemoteOK, PrefixInv
      <3> QED
        BY <3>1, <3>2
    <2>6. FlightInv'
      <3> SUFFICES ASSUME NEW s \in Requests
                    PROVE  InFlight(s)'
        BY DEF FlightInv
      <3>1. CASE s = r  BY <1>c1, <1>u, <1>w, <3>1 DEF TypeOK, RemoteOK, RequestsOK, RequestState
      <3>2. CASE s # r /\ req[s].u = req[r].u  BY <1>c1, <3>2 DEF LockInv, TypeOK, RequestsOK
      <3>3. CASE s # r /\ req[s].u # req[r].u
        BY <1>c1, <1>w, <3>3 DEF FlightInv, TypeOK, RequestsOK, RemoteOK
      <3> QED
        BY <3>1, <3>2, <3>3
    <2>7. OnceInv'  BY <1>c1, <1>u, <1>w DEF OnceInv
    <2>8. AckedBytesDurable'  BY <1>c1, <1>u, <1>w DEF AckedBytesDurable
    <2>9. (FilesInv /\ CompletedExactlyOnce)'  BY <1>c1, Frame
    <2> QED
      BY <2>1, <2>2, <2>3, <2>4, <2>5, <2>6, <2>7, <2>8, <2>9 DEF IInv
  <1>c2. CASE /\ req' = [req EXCEPT ![r].pc = "confirm", ![r].off = req[r].off + m]
              /\ UNCHANGED locks
    <2>1. TypeOK'
      <3>1. SessionsOK'  BY DEF TypeOK, SessionsOK
      <3>2. RequestsOK' /\ LocksOK'  BY <1>c2, <1>w, EndOK, ConfirmOK DEF TypeOK, LocksOK
      <3>3. RemoteOK'  BY <1>u, <1>w DEF TypeOK, RemoteOK, Positions, Sizes
      <3> QED
        BY <3>1, <3>2, <3>3 DEF TypeOK
    <2> USE DEF TypeOK, SessionsOK, RemoteOK, LocksOK, RequestsOK, RequestState,
                Sizes, Positions, Ops, Pcs
    <2>2. LockInv'  BY <1>c2 DEF LockInv
    <2>3. PcInv'  BY <1>c2 DEF PcInv
    <2>4. StartInv'  BY <1>c2, <1>u, <1>w DEF StartInv
    <2>5. PrefixInv'
      <3> HIDE DEF Positions, Sizes
      <3> SUFFICES ASSUME NEW v \in Uploads
                    PROVE  (\E n \in 0 .. Total(v) : temp'[v] = Positions(n)) /\ (v \notin temps' => temp'[v] = {})
        BY DEF PrefixInv
      <3>1. CASE v = req[r].u  BY <1>u, <1>w, <3>1 DEF TypeOK, RemoteOK
      <3>2. CASE v # req[r].u  BY <1>w, <3>2 DEF TypeOK, RemoteOK, PrefixInv
      <3> QED
        BY <3>1, <3>2
    <2>6. FlightInv'
      <3> SUFFICES ASSUME NEW s \in Requests
                    PROVE  InFlight(s)'
        BY DEF FlightInv
      <3>1. CASE s = r  BY <1>c2, <1>u, <1>w, <3>1 DEF TypeOK, RemoteOK, RequestsOK, RequestState
      <3>2. CASE s # r /\ req[s].u = req[r].u  BY <1>c2, <3>2 DEF LockInv, TypeOK, RequestsOK
      <3>3. CASE s # r /\ req[s].u # req[r].u
        BY <1>c2, <1>w, <3>3 DEF FlightInv, TypeOK, RequestsOK, RemoteOK
      <3> QED
        BY <3>1, <3>2, <3>3
    <2>7. OnceInv'  BY <1>c2, <1>u, <1>w DEF OnceInv
    <2>8. AckedBytesDurable'  BY <1>c2, <1>u, <1>w DEF AckedBytesDurable
    <2>9. (FilesInv /\ CompletedExactlyOnce)'  BY <1>c2, Frame
    <2> QED
      BY <2>1, <2>2, <2>3, <2>4, <2>5, <2>6, <2>7, <2>8, <2>9 DEF IInv
  <1> QED
    BY <1>c1, <1>c2

\* What is committed is what FlightInv says was written.
LEMMA ConfirmChunkStep ==
  ASSUME IInv, NEW r \in Requests, ConfirmChunk(r) PROVE IInv'
  <1> USE SizeAssumption, PathAssumption, NullAssumption
       DEF IInv, InFlight, About, Holding, session, remote, locks, At, Goto, Unlock, End, Idle,
           Unlink, PathOf, Total, Exists, ConfirmChunk
  <1>u. req[r].u \in Uploads  BY DEF IInv, TypeOK, RequestsOK, ConfirmChunk, At
  <1>1. TypeOK'
    <2>1. SessionsOK'  BY <1>u, ReceivedOK DEF TypeOK, RequestsOK, RequestState
    <2>2. RequestsOK' /\ LocksOK'  BY EndOK DEF TypeOK
    <2>3. RemoteOK'  BY DEF TypeOK, RemoteOK
    <2> QED
      BY <2>1, <2>2, <2>3 DEF TypeOK
  <1> USE DEF TypeOK, SessionsOK, RemoteOK, LocksOK, RequestsOK, RequestState,
              Sizes, Positions, Ops, Pcs
  <1>2. LockInv'  BY DEF LockInv
  <1>3. PcInv'  BY DEF PcInv
  <1>4. StartInv'  BY DEF StartInv
  <1>5. FlightInv'  BY DEF FlightInv
  <1>6. OnceInv'  BY DEF OnceInv
  <1>7. AckedBytesDurable'
    <2> SUFFICES ASSUME NEW v \in Uploads, row'[v].status # "NONE", v \in temps
                  PROVE  Positions(row'[v].received) \subseteq temp[v]
      BY DEF AckedBytesDurable
    <2>1. CASE v = req[r].u
      <3>1. row'[v].received = req[r].off  BY <1>u, <2>1 DEF TypeOK, SessionsOK
      <3> QED
        BY <2>1, <3>1 DEF FlightInv
    <2>2. CASE v # req[r].u  BY <2>2 DEF AckedBytesDurable, TypeOK, SessionsOK
    <2> QED
      BY <2>1, <2>2
  <1>8. CompletedExactlyOnce'  BY DEF CompletedExactlyOnce
  <1>9. (PrefixInv /\ FilesInv)'  BY Frame
  <1> QED
    BY <1>1, <1>2, <1>3, <1>4, <1>5, <1>6, <1>7, <1>8, <1>9 DEF IInv

\* The renamed object is whole, and the rename consumes it.
LEMMA PublishLocalStep ==
  ASSUME IInv, NEW r \in Requests, PublishLocal(r) PROVE IInv'
  <1> USE SizeAssumption, PathAssumption, NullAssumption
       DEF IInv, InFlight, About, Holding, session, remote, locks, At, Goto, Unlock, End, Idle,
           Unlink, PathOf, Total, Exists, PublishLocal, AllBytesThere, Rename
  <1>u. req[r].u \in Uploads  BY DEF IInv, TypeOK, RequestsOK, PublishLocal, At
  <1>s. /\ RemoteSize(req[r].u) \in Sizes /\ RemoteSize(req[r].u) <= Total(req[r].u)
        /\ temp[req[r].u] = Positions(RemoteSize(req[r].u))
    BY <1>u, RemoteSizeIsPrefix DEF IInv
  <1>c1. CASE End(r) /\ UNCHANGED remote  BY <1>c1, Answered
  <1>c2. CASE Rename(req[r].u) /\ Goto(r, "record") /\ Unlock(r)
    <2>1. TypeOK'
      BY <1>c2, <1>u, <1>s, GotoOK, UnlockOK DEF TypeOK, SessionsOK, RemoteOK, LocksOK, Sizes, Positions, Pcs
    <2> USE DEF TypeOK, SessionsOK, RemoteOK, LocksOK, RequestsOK, RequestState,
                Sizes, Positions, Ops, Pcs
    <2>2. LockInv'  BY <1>c2 DEF LockInv
    <2>3. PcInv'  BY <1>c2 DEF PcInv
    <2>4. StartInv'  BY <1>c2, <1>u, <1>s DEF StartInv
    <2>5. PrefixInv'  BY <1>c2, <1>u, UnlinkPrefix
    <2>6. FlightInv'  BY <1>c2, <1>u, <1>s DEF FlightInv
    <2>7. OnceInv'  BY <1>c2, <1>u, <1>s DEF OnceInv
    <2>8. FilesInv'  BY <1>c2, <1>u, <1>s DEF FilesInv
    <2>9. AckedBytesDurable'  BY <1>c2, <1>u, <1>s DEF AckedBytesDurable
    <2>10. CompletedExactlyOnce'  BY <1>c2 DEF CompletedExactlyOnce
    <2> QED
      BY <2>1, <2>2, <2>3, <2>4, <2>5, <2>6, <2>7, <2>8, <2>9, <2>10 DEF IInv
  <1> QED
    BY <1>c1, <1>c2

\* The same over SFTP, where the wholeness was checked one await earlier.
LEMMA RenameRemoteStep ==
  ASSUME IInv, NEW r \in Requests, RenameRemote(r) PROVE IInv'
  <1> USE SizeAssumption, PathAssumption, NullAssumption
       DEF IInv, InFlight, About, Holding, session, remote, locks, At, Goto, Unlock, End, Idle,
           Unlink, PathOf, Total, Exists, RenameRemote, Rename
  <1>u. req[r].u \in Uploads  BY DEF IInv, TypeOK, RequestsOK, RenameRemote
  <1>f. temp[req[r].u] = Positions(Total(req[r].u))
    BY <1>u DEF IInv, FlightInv, InFlight, RenameRemote
  <1>c1. CASE End(r)
    <2>1. TypeOK'
      BY <1>c1, <1>u, EndOK DEF TypeOK, SessionsOK, RemoteOK, LocksOK, Sizes, Positions, Pcs
    <2> USE DEF TypeOK, SessionsOK, RemoteOK, LocksOK, RequestsOK, RequestState,
                Sizes, Positions, Ops, Pcs
    <2>2. LockInv'  BY <1>c1 DEF LockInv
    <2>3. PcInv'  BY <1>c1 DEF PcInv
    <2>4. StartInv'  BY <1>c1, <1>u DEF StartInv
    <2>5. PrefixInv'  BY <1>u, UnlinkPrefix
    <2>6. FlightInv'  BY <1>c1, <1>u DEF FlightInv
    <2>7. OnceInv'  BY <1>c1, <1>u DEF OnceInv
    <2>8. FilesInv'
      <3> SUFFICES ASSUME NEW p \in Paths, files'[p].by \in Uploads
                    PROVE  files'[p].by \in published' /\ files'[p].bytes = Positions(Total(files'[p].by))
        BY DEF FilesInv
      <3>1. CASE p = meta[req[r].u].path  BY <1>u, <1>f, <3>1 DEF TypeOK, RemoteOK
      <3>2. CASE p # meta[req[r].u].path  BY <3>2 DEF FilesInv, TypeOK, RemoteOK
      <3> QED
        BY <3>1, <3>2
    <2>9. AckedBytesDurable'  BY <1>c1, <1>u DEF AckedBytesDurable
    <2>10. CompletedExactlyOnce'  BY <1>c1 DEF CompletedExactlyOnce
    <2> QED
      BY <2>1, <2>2, <2>3, <2>4, <2>5, <2>6, <2>7, <2>8, <2>9, <2>10 DEF IInv
  <1>c2. CASE Goto(r, "record") /\ Unlock(r)
    <2>1. TypeOK'
      BY <1>c2, <1>u, GotoOK, UnlockOK DEF TypeOK, SessionsOK, RemoteOK, LocksOK, Sizes, Positions, Pcs
    <2> USE DEF TypeOK, SessionsOK, RemoteOK, LocksOK, RequestsOK, RequestState,
                Sizes, Positions, Ops, Pcs
    <2>2. LockInv'  BY <1>c2 DEF LockInv
    <2>3. PcInv'  BY <1>c2 DEF PcInv
    <2>4. StartInv'  BY <1>c2, <1>u DEF StartInv
    <2>5. PrefixInv'  BY <1>u, UnlinkPrefix
    <2>6. FlightInv'  BY <1>c2, <1>u DEF FlightInv
    <2>7. OnceInv'  BY <1>c2, <1>u DEF OnceInv
    <2>8. FilesInv'
      <3> SUFFICES ASSUME NEW p \in Paths, files'[p].by \in Uploads
                    PROVE  files'[p].by \in published' /\ files'[p].bytes = Positions(Total(files'[p].by))
        BY DEF FilesInv
      <3>1. CASE p = meta[req[r].u].path  BY <1>u, <1>f, <3>1 DEF TypeOK, RemoteOK
      <3>2. CASE p # meta[req[r].u].path  BY <3>2 DEF FilesInv, TypeOK, RemoteOK
      <3> QED
        BY <3>1, <3>2
    <2>9. AckedBytesDurable'  BY <1>c2, <1>u DEF AckedBytesDurable
    <2>10. CompletedExactlyOnce'  BY <1>c2 DEF CompletedExactlyOnce
    <2> QED
      BY <2>1, <2>2, <2>3, <2>4, <2>5, <2>6, <2>7, <2>8, <2>9, <2>10 DEF IInv
  <1> QED
    BY <1>c1, <1>c2

\* The commit after the locks were released: the request that published is the only one to record.
LEMMA RecordCompletionStep ==
  ASSUME IInv, NEW r \in Requests, RecordCompletion(r) PROVE IInv'
  <1> USE SizeAssumption, PathAssumption, NullAssumption
       DEF IInv, InFlight, About, Holding, session, remote, locks, At, Goto, Unlock, End, Idle,
           Unlink, PathOf, Total, Exists, RecordCompletion
  <1>u. req[r].u \in Uploads  BY DEF IInv, TypeOK, RequestsOK, RecordCompletion
  <1>c1. CASE /\ Exists(req[r].u)
              /\ row' = [row EXCEPT ![req[r].u].status = "COMPLETED"]
              /\ audit' = [audit EXCEPT ![req[r].u] = @ + 1]
    <2>1. TypeOK'
      <3>1. SessionsOK'  BY <1>c1, <1>u, CompletedOK DEF TypeOK
      <3>2. RequestsOK' /\ LocksOK'  BY <1>c1, EndOK DEF TypeOK, LocksOK, Pcs
      <3>3. RemoteOK'  BY <1>u DEF TypeOK, RemoteOK
      <3> QED
        BY <3>1, <3>2, <3>3 DEF TypeOK
    <2> USE DEF TypeOK, SessionsOK, RemoteOK, LocksOK, RequestsOK, RequestState,
                Sizes, Positions, Ops, Pcs
    <2>2. LockInv'  BY <1>c1 DEF LockInv
    <2>3. PcInv'  BY <1>c1 DEF PcInv
    <2>4. StartInv'  BY <1>c1, <1>u DEF StartInv
    <2>5. FlightInv'  BY <1>c1 DEF FlightInv
    <2>6. OnceInv'  BY <1>c1, <1>u DEF OnceInv
    <2>7. AckedBytesDurable'  BY <1>c1, <1>u DEF AckedBytesDurable
    <2>8. CompletedExactlyOnce'
      <3> SUFFICES ASSUME NEW v \in Uploads
                    PROVE  audit'[v] <= 1 /\ (row'[v].status = "COMPLETED" => v \in published /\ audit'[v] = 1)
        BY DEF CompletedExactlyOnce
      <3>1. CASE v = req[r].u
        <4>1. audit'[v] = 1  BY <1>c1, <1>u, <3>1 DEF OnceInv, TypeOK, SessionsOK
        <4> QED
          BY <3>1, <4>1 DEF OnceInv
      <3>2. CASE v # req[r].u  BY <1>c1, <3>2 DEF CompletedExactlyOnce, TypeOK, SessionsOK
      <3> QED
        BY <3>1, <3>2
    <2>9. (PrefixInv /\ FilesInv)'  BY <1>c1, Frame
    <2> QED
      BY <2>1, <2>2, <2>3, <2>4, <2>5, <2>6, <2>7, <2>8, <2>9 DEF IInv
  <1>c2. CASE UNCHANGED <<row, audit>>  BY <1>c2, Answered
  <1> QED
    BY <1>c1, <1>c2

\* Removing the temporary object leaves the empty prefix, whatever the row says.
LEMMA CancelAbortStep ==
  ASSUME IInv, NEW r \in Requests, CancelAbort(r) PROVE IInv'
  <1> USE SizeAssumption, PathAssumption, NullAssumption
       DEF IInv, InFlight, About, Holding, session, remote, locks, At, Goto, Unlock, End, Idle,
           Unlink, PathOf, Total, Exists, CancelAbort
  <1>u. req[r].u \in Uploads  BY DEF IInv, TypeOK, RequestsOK, CancelAbort, At
  <1>c1. CASE Unlink(req[r].u)
    <2>1. TypeOK'
      <3>1. SessionsOK' /\ LocksOK'  BY DEF TypeOK, SessionsOK, LocksOK
      <3>2. RequestsOK'  BY DropOK DEF TypeOK
      <3>3. RemoteOK'  BY <1>c1 DEF TypeOK, RemoteOK
      <3> QED
        BY <3>1, <3>2, <3>3 DEF TypeOK
    <2> USE DEF TypeOK, SessionsOK, RemoteOK, LocksOK, RequestsOK, RequestState,
                Sizes, Positions, Ops, Pcs
    <2>2. LockInv'  BY <1>c1 DEF LockInv
    <2>3. PcInv'  BY <1>c1 DEF PcInv
    <2>4. StartInv'  BY <1>c1, <1>u DEF StartInv
    <2>5. PrefixInv'  BY <1>c1, <1>u, UnlinkPrefix DEF PrefixInv
    <2>6. FlightInv'  BY <1>c1, <1>u DEF FlightInv
    <2>7. OnceInv'  BY <1>c1, <1>u DEF OnceInv
    <2>8. AckedBytesDurable'  BY <1>c1, <1>u DEF AckedBytesDurable
    <2>9. (FilesInv /\ CompletedExactlyOnce)'  BY <1>c1, Frame
    <2> QED
      BY <2>1, <2>2, <2>3, <2>4, <2>5, <2>6, <2>7, <2>8, <2>9 DEF IInv
  <1>c2. CASE UNCHANGED <<temps, temp>>
    <2>1. TypeOK'
      <3>1. SessionsOK' /\ LocksOK'  BY DEF TypeOK, SessionsOK, LocksOK
      <3>2. RequestsOK'  BY DropOK DEF TypeOK
      <3>3. RemoteOK'  BY <1>c2 DEF TypeOK, RemoteOK
      <3> QED
        BY <3>1, <3>2, <3>3 DEF TypeOK
    <2> USE DEF TypeOK, SessionsOK, RemoteOK, LocksOK, RequestsOK, RequestState,
                Sizes, Positions, Ops, Pcs
    <2>2. LockInv'  BY <1>c2 DEF LockInv
    <2>3. PcInv'  BY <1>c2 DEF PcInv
    <2>4. StartInv'  BY <1>c2, <1>u DEF StartInv
    <2>5. PrefixInv'  BY <1>c2, <1>u, UnlinkPrefix DEF PrefixInv
    <2>6. FlightInv'  BY <1>c2, <1>u DEF FlightInv
    <2>7. OnceInv'  BY <1>c2, <1>u DEF OnceInv
    <2>8. AckedBytesDurable'  BY <1>c2, <1>u DEF AckedBytesDurable
    <2>9. (FilesInv /\ CompletedExactlyOnce)'  BY <1>c2, Frame
    <2> QED
      BY <2>1, <2>2, <2>3, <2>4, <2>5, <2>6, <2>7, <2>8, <2>9 DEF IInv
  <1> QED
    BY <1>c1, <1>c2

\* A new upload is unknown to every request, so its columns and its object are free.
LEMMA StartUploadStep ==
  ASSUME IInv, NEW u \in Uploads, NEW p \in Paths, NEW n \in Sizes, NEW rep \in BOOLEAN, StartUpload(u, p, n, rep)
  PROVE  IInv'
  <1> USE SizeAssumption, PathAssumption, NullAssumption
       DEF IInv, InFlight, About, Holding, session, remote, locks, At, Goto, Unlock, End, Idle,
           Unlink, PathOf, Total, Exists, StartUpload
  <1>n. /\ ~Exists(u) /\ u \notin published /\ temp[u] = {} /\ \A r \in Requests : ~About(r, u)
    BY DEF IInv, StartInv, StartUpload
  <1>m. /\ meta'[u] = [path |-> p, total |-> n, replace |-> rep]
        /\ \A v \in Uploads \ {u} : meta'[v] = meta[v]
    BY DEF IInv, TypeOK, SessionsOK, StartUpload
  <1>e. 0 \in 0 .. n /\ Positions(0) = {}  BY SizeAssumption DEF Sizes, Positions
  <1>1. TypeOK'
    <2>1. meta' \in [Uploads -> [path : Paths, total : Sizes, replace : BOOLEAN]]
      BY DEF TypeOK, SessionsOK
    <2>2. SessionsOK' /\ LocksOK' /\ RequestsOK'
      BY <2>1 DEF TypeOK, SessionsOK, LocksOK, RequestsOK
    <2>3. RemoteOK'  BY DEF TypeOK, RemoteOK
    <2> QED
      BY <2>2, <2>3 DEF TypeOK
  <1> USE DEF TypeOK, SessionsOK, RemoteOK, LocksOK, RequestsOK, RequestState,
              Sizes, Positions, Ops, Pcs
  <1>2. StartInv'  BY <1>n DEF StartInv
  <1>3. PrefixInv'
    <2> SUFFICES ASSUME NEW v \in Uploads
                  PROVE  (\E k \in 0 .. meta'[v].total : temp'[v] = Positions(k)) /\ (v \notin temps' => temp'[v] = {})
      BY DEF PrefixInv
    <2>1. CASE v = u  BY <1>m, <1>e, <2>1 DEF TypeOK, RemoteOK
    <2>2. CASE v # u  BY <1>m, <2>2 DEF PrefixInv, TypeOK, RemoteOK
    <2> QED
      BY <2>1, <2>2
  <1>4. FlightInv'
    <2> SUFFICES ASSUME NEW s \in Requests
                  PROVE  InFlight(s)'
      BY DEF FlightInv
    <2>1. CASE req[s].pc = "idle"  BY <2>1
    <2>2. CASE req[s].pc # "idle"
      <3>1. req[s].u \in Uploads \ {u}  BY <1>n, <2>2 DEF TypeOK, RequestsOK
      <3> QED
        BY <1>m, <3>1 DEF FlightInv, TypeOK, RemoteOK
    <2> QED
      BY <2>1, <2>2
  <1>5. OnceInv'  BY <1>n DEF OnceInv, TypeOK, RemoteOK
  <1>6. FilesInv'
    <2> SUFFICES ASSUME NEW q \in Paths, files[q].by \in Uploads
                  PROVE  files[q].by \in published /\ files[q].bytes = Positions(meta'[files[q].by].total)
      BY DEF FilesInv
    <2>1. files[q].by \in published /\ files[q].bytes = Positions(meta[files[q].by].total)
      BY DEF FilesInv
    <2> QED
      BY <1>n, <1>m, <2>1
  <1>7. AckedBytesDurable'
    <2> SUFFICES ASSUME NEW v \in Uploads, row[v].status # "NONE", v \in temps'
                  PROVE  Positions(row[v].received) \subseteq temp'[v]
      BY DEF AckedBytesDurable
    <2> QED
      BY <1>n DEF AckedBytesDurable, TypeOK, RemoteOK
  <1>8. (LockInv /\ PcInv /\ CompletedExactlyOnce)'  BY Frame
  <1> QED
    BY <1>1, <1>2, <1>3, <1>4, <1>5, <1>6, <1>7, <1>8 DEF IInv

\* The row is committed with nothing confirmed.
LEMMA SaveUploadStep ==
  ASSUME IInv, NEW u \in Uploads, SaveUpload(u) PROVE IInv'
  <1> USE SizeAssumption, PathAssumption, NullAssumption
       DEF IInv, InFlight, About, Holding, session, remote, locks, At, Goto, Unlock, End, Idle,
           Unlink, PathOf, Total, Exists, SaveUpload
  <1>1. TypeOK'
    BY DEF TypeOK, SessionsOK, RemoteOK, LocksOK, RequestsOK, RequestState, Sizes, Positions, Ops, Pcs
  <1> USE DEF TypeOK, SessionsOK, RemoteOK, LocksOK, RequestsOK, RequestState,
              Sizes, Positions, Ops, Pcs
  <1>2. StartInv'  BY DEF StartInv
  <1>3. AckedBytesDurable'  BY DEF AckedBytesDurable
  <1>4. CompletedExactlyOnce'  BY DEF CompletedExactlyOnce
  <1>5. (LockInv /\ PcInv /\ PrefixInv /\ FlightInv /\ OnceInv /\ FilesInv)'  BY Frame
  <1> QED
    BY <1>1, <1>2, <1>3, <1>4, <1>5 DEF IInv

\* A new request holds nothing yet.
LEMMA ArriveStep ==
  ASSUME IInv, NEW r \in Requests, NEW op \in Ops, NEW u \in Uploads, NEW off \in Sizes, Arrive(r, op, u, off)
  PROVE  IInv'
  <1> USE SizeAssumption, PathAssumption, NullAssumption
       DEF IInv, InFlight, About, Holding, session, remote, locks, At, Goto, Unlock, End, Idle,
           Unlink, PathOf, Total, Exists, Arrive
  <1>1. TypeOK'
    BY DEF TypeOK, SessionsOK, RemoteOK, LocksOK, RequestsOK, RequestState, Sizes, Positions, Ops, Pcs
  <1> USE DEF TypeOK, SessionsOK, RemoteOK, LocksOK, RequestsOK, RequestState,
              Sizes, Positions, Ops, Pcs
  <1>2. LockInv'  BY DEF LockInv
  <1>3. PcInv'  BY DEF PcInv
  <1>4. StartInv'  BY DEF StartInv
  <1>5. FlightInv'  BY DEF FlightInv
  <1>6. OnceInv'  BY DEF OnceInv
  <1>7. (PrefixInv /\ FilesInv /\ AckedBytesDurable /\ CompletedExactlyOnce)'  BY Frame
  <1> QED
    BY <1>1, <1>2, <1>3, <1>4, <1>5, <1>6, <1>7 DEF IInv

\* An error of the gateway only answers the request.
LEMMA GatewayFailsStep == ASSUME IInv, NEW r \in Requests, GatewayFails(r) PROVE IInv'
  BY Answered DEF GatewayFails

\* A 409 only answers the request.
LEMMA RefuseStep == ASSUME IInv, NEW r \in Requests, Refuse(r) PROVE IInv'
  BY Answered DEF Refuse

\* A deleted row leaves nothing to confirm and nothing COMPLETED.
LEMMA CancelDeleteStep ==
  ASSUME IInv, NEW r \in Requests, CancelDelete(r) PROVE IInv'
  <1> USE SizeAssumption, PathAssumption, NullAssumption
       DEF IInv, InFlight, About, Holding, session, remote, locks, At, Goto, Unlock, End, Idle,
           Unlink, PathOf, Total, Exists, CancelDelete
  <1>1. TypeOK'
    BY DEF TypeOK, SessionsOK, RemoteOK, LocksOK, RequestsOK, RequestState, Sizes, Positions, Ops, Pcs
  <1> USE DEF TypeOK, SessionsOK, RemoteOK, LocksOK, RequestsOK, RequestState,
              Sizes, Positions, Ops, Pcs
  <1>2. LockInv'  BY DEF LockInv
  <1>3. PcInv'  BY DEF PcInv
  <1>4. StartInv'  BY DEF StartInv
  <1>5. FlightInv'  BY DEF FlightInv
  <1>6. OnceInv'  BY DEF OnceInv
  <1>7. AckedBytesDurable'  BY DEF AckedBytesDurable
  <1>8. CompletedExactlyOnce'  BY DEF CompletedExactlyOnce
  <1>9. (PrefixInv /\ FilesInv)'  BY Frame
  <1> QED
    BY <1>1, <1>2, <1>3, <1>4, <1>5, <1>6, <1>7, <1>8, <1>9 DEF IInv

\* A moved target keeps its contents.
LEMMA MoveItemStep ==
  ASSUME IInv, NEW p \in Paths, NEW q \in Paths, MoveItem(p, q) PROVE IInv'
  <1> USE SizeAssumption, PathAssumption, NullAssumption
       DEF IInv, InFlight, About, Holding, session, remote, locks, At, Goto, Unlock, End, Idle,
           Unlink, PathOf, Total, Exists, MoveItem
  <1>1. TypeOK'
    BY DEF TypeOK, SessionsOK, RemoteOK, LocksOK, RequestsOK, RequestState, Sizes, Positions, Ops, Pcs
  <1> USE DEF TypeOK, SessionsOK, RemoteOK, LocksOK, RequestsOK, RequestState,
              Sizes, Positions, Ops, Pcs
  <1>2. FilesInv'  BY DEF FilesInv
  <1>3. (LockInv /\ PcInv /\ StartInv /\ PrefixInv /\ FlightInv /\ OnceInv /\ AckedBytesDurable /\ CompletedExactlyOnce)'
    BY Frame
  <1> QED
    BY <1>1, <1>2, <1>3 DEF IInv

\* A file from elsewhere is not an upload.
LEMMA MoveInStep ==
  ASSUME IInv, NEW q \in Paths, MoveIn(q) PROVE IInv'
  <1> USE SizeAssumption, PathAssumption, NullAssumption
       DEF IInv, InFlight, About, Holding, session, remote, locks, At, Goto, Unlock, End, Idle,
           Unlink, PathOf, Total, Exists, MoveIn
  <1>1. TypeOK'
    BY DEF TypeOK, SessionsOK, RemoteOK, LocksOK, RequestsOK, RequestState, Sizes, Positions, Ops, Pcs
  <1> USE DEF TypeOK, SessionsOK, RemoteOK, LocksOK, RequestsOK, RequestState,
              Sizes, Positions, Ops, Pcs
  <1>2. FilesInv'  BY DEF FilesInv
  <1>3. (LockInv /\ PcInv /\ StartInv /\ PrefixInv /\ FlightInv /\ OnceInv /\ AckedBytesDurable /\ CompletedExactlyOnce)'
    BY Frame
  <1> QED
    BY <1>1, <1>2, <1>3 DEF IInv

\* A deleted target shows nothing.
LEMMA DeleteItemStep ==
  ASSUME IInv, NEW p \in Paths, DeleteItem(p) PROVE IInv'
  <1> USE SizeAssumption, PathAssumption, NullAssumption
       DEF IInv, InFlight, About, Holding, session, remote, locks, At, Goto, Unlock, End, Idle,
           Unlink, PathOf, Total, Exists, DeleteItem
  <1>1. TypeOK'
    BY DEF TypeOK, SessionsOK, RemoteOK, LocksOK, RequestsOK, RequestState, Sizes, Positions, Ops, Pcs
  <1> USE DEF TypeOK, SessionsOK, RemoteOK, LocksOK, RequestsOK, RequestState,
              Sizes, Positions, Ops, Pcs
  <1>2. FilesInv'  BY DEF FilesInv
  <1>3. (LockInv /\ PcInv /\ StartInv /\ PrefixInv /\ FlightInv /\ OnceInv /\ AckedBytesDurable /\ CompletedExactlyOnce)'
    BY Frame
  <1> QED
    BY <1>1, <1>2, <1>3 DEF IInv

\* A temporary object can be deleted from the portal.
LEMMA DeleteTempStep ==
  ASSUME IInv, NEW u \in Uploads, DeleteTemp(u) PROVE IInv'
  <1> USE SizeAssumption, PathAssumption, NullAssumption
       DEF IInv, InFlight, About, Holding, session, remote, locks, At, Goto, Unlock, End, Idle,
           Unlink, PathOf, Total, Exists, DeleteTemp
  <1>1. TypeOK'
    BY DEF TypeOK, SessionsOK, RemoteOK, LocksOK, RequestsOK, RequestState, Sizes, Positions, Ops, Pcs
  <1> USE DEF TypeOK, SessionsOK, RemoteOK, LocksOK, RequestsOK, RequestState,
              Sizes, Positions, Ops, Pcs
  <1>2. StartInv'  BY DEF StartInv
  <1>3. PrefixInv'  BY DEF PrefixInv
  <1>4. FlightInv'  BY DEF FlightInv
  <1>5. OnceInv'  BY DEF OnceInv
  <1>6. AckedBytesDurable'  BY DEF AckedBytesDurable
  <1>7. (LockInv /\ PcInv /\ FilesInv /\ CompletedExactlyOnce)'  BY Frame
  <1> QED
    BY <1>1, <1>2, <1>3, <1>4, <1>5, <1>6, <1>7 DEF IInv

\* A restart forgets requests and locks together.
LEMMA CrashStep ==
  ASSUME IInv, Crash PROVE IInv'
  <1> USE SizeAssumption, PathAssumption, NullAssumption
       DEF IInv, InFlight, About, Holding, session, remote, locks, At, Goto, Unlock, End, Idle,
           Unlink, PathOf, Total, Exists, Crash
  <1>1. TypeOK'
    BY DEF TypeOK, SessionsOK, RemoteOK, LocksOK, RequestsOK, RequestState, Sizes, Positions, Ops, Pcs
  <1> USE DEF TypeOK, SessionsOK, RemoteOK, LocksOK, RequestsOK, RequestState,
              Sizes, Positions, Ops, Pcs
  <1>2. LockInv'  BY DEF LockInv
  <1>3. PcInv'  BY DEF PcInv
  <1>4. StartInv'  BY DEF StartInv
  <1>5. FlightInv'  BY DEF FlightInv
  <1>6. OnceInv'  BY DEF OnceInv
  <1>7. (PrefixInv /\ FilesInv /\ AckedBytesDurable /\ CompletedExactlyOnce)'  BY Frame
  <1> QED
    BY <1>1, <1>2, <1>3, <1>4, <1>5, <1>6, <1>7 DEF IInv

\* Every step keeps the invariant.
LEMMA NextIInv == IInv /\ [Next]_vars => IInv'
  <1> SUFFICES ASSUME IInv, [Next]_vars PROVE IInv'
    OBVIOUS
  <1>1. CASE \E u \in Uploads, p \in Paths, n \in Sizes, rep \in BOOLEAN : StartUpload(u, p, n, rep)
    BY <1>1, StartUploadStep
  <1>2. CASE \E u \in Uploads : SaveUpload(u) \/ DeleteTemp(u)
    BY <1>2, SaveUploadStep, DeleteTempStep
  <1>3. CASE \E r \in Requests, op \in Ops, u \in Uploads, off \in Sizes : Arrive(r, op, u, off)
    BY <1>3, ArriveStep
  <1>4. ASSUME NEW r \in Requests, Handle(r) PROVE IInv'
    BY <1>4, TakeUploadLockStep, TakeTargetLockStep, ReconcileStep, GatewayFailsStep, RefuseStep,
       WriteChunkStep, ConfirmChunkStep, PublishLocalStep, CheckTargetStep, RenameRemoteStep,
       RecordCompletionStep, CancelAbortStep, CancelDeleteStep DEF Handle
  <1>5. CASE \E p \in Paths : MoveIn(p) \/ DeleteItem(p)  BY <1>5, MoveInStep, DeleteItemStep
  <1>6. CASE \E p, q \in Paths : MoveItem(p, q)  BY <1>6, MoveItemStep
  <1>7. CASE Crash  BY <1>7, CrashStep
  <1>8. CASE UNCHANGED vars
    <2>1. UNCHANGED <<start, meta, row, temps, temp, files, published, audit,
                      upload_locks, upload_target_locks, req>>
      BY <1>8 DEF vars
    <2>2. TypeOK'  BY <2>1 DEF IInv, TypeOK, SessionsOK, RemoteOK, LocksOK, RequestsOK
    <2>3. (LockInv /\ PcInv /\ StartInv /\ PrefixInv)'
      BY <2>1 DEF IInv, LockInv, Holding, PcInv, StartInv, Exists, About, PrefixInv, Total
    <2>4. (FlightInv /\ OnceInv /\ FilesInv)'
      BY <2>1 DEF IInv, FlightInv, InFlight, OnceInv, FilesInv, Total
    <2>5. (AckedBytesDurable /\ CompletedExactlyOnce)'
      BY <2>1 DEF IInv, AckedBytesDurable, CompletedExactlyOnce, Exists
    <2> QED
      BY <2>2, <2>3, <2>4, <2>5 DEF IInv
  <1> QED
    BY <1>1, <1>2, <1>3, <1>4, <1>5, <1>6, <1>7, <1>8 DEF Next

\* The parts of IInv hold together in every reachable state, for every number
\* of uploads, requests and paths, every size and any number of restarts.
THEOREM Invariance == Spec => []IInv
  BY InitIInv, NextIInv, PTL DEF Spec
-----------------------------------------------------------------------------
\* Every variable keeps its type in every execution of the upload handlers.
THEOREM TypeCorrect == Spec => []TypeOK
  <1>1. IInv => TypeOK  BY DEF IInv
  <1> QED
    BY <1>1, Invariance, PTL

\* Confirmed bytes are on the server: write_file_upload_chunk commits
\* received_size only after the bytes, and nothing later takes them back.
THEOREM Durability == Spec => []AckedBytesDurable
  <1>1. IInv => AckedBytesDurable  BY DEF IInv
  <1> QED
    BY <1>1, Invariance, PTL

\* complete_file_upload publishes and records an upload at most once, although it
\* commits after it has left both locks.
THEOREM ExactlyOnce == Spec => []CompletedExactlyOnce
  <1>1. IInv => CompletedExactlyOnce  BY DEF IInv
  <1> QED
    BY <1>1, Invariance, PTL

\* The step that NoSilentOverwrite allows.
KeepsTargets ==
  \A p \in Paths :
       files[p].by # NoFile /\ files'[p] # files[p] =>
         \/ files'[p].by = NoFile
         \/ files'[p].by \in Uploads /\ meta[files'[p].by].replace

\* Publishing replaces a file only if the upload may.
LEMMA RenameKeepsTargets ==
  ASSUME TypeOK, NEW u \in Uploads, MayPublish(u), Rename(u) PROVE KeepsTargets
  BY DEF TypeOK, RemoteOK, SessionsOK, KeepsTargets, Rename, MayPublish, TargetFree, PathOf

\* No file operation of the portal overwrites a target silently.
THEOREM NoOverwrite == Spec => NoSilentOverwrite
  <1>1. ASSUME TypeOK, [Next]_vars PROVE KeepsTargets \/ UNCHANGED vars
    <2>1. CASE UNCHANGED files  BY <2>1 DEF KeepsTargets
    <2>2. ASSUME NEW r \in Requests, PublishLocal(r) \/ RenameRemote(r) PROVE KeepsTargets
      <3>1. req[r].u \in Uploads
        BY <1>1, <2>2 DEF TypeOK, RequestsOK, PublishLocal, RenameRemote, At
      <3>2. CASE UNCHANGED files  BY <3>2 DEF KeepsTargets
      <3>3. CASE MayPublish(req[r].u) /\ Rename(req[r].u)  BY <3>1, <3>3, RenameKeepsTargets, <1>1
      <3> QED
        BY <2>2, <3>2, <3>3 DEF PublishLocal, RenameRemote, remote, MayPublish
    <2>3. ASSUME NEW p \in Paths, NEW q \in Paths, MoveItem(p, q) PROVE KeepsTargets
      BY <1>1, <2>3 DEF TypeOK, RemoteOK, KeepsTargets, MoveItem
    <2>4. ASSUME NEW p \in Paths, MoveIn(p) \/ DeleteItem(p) PROVE KeepsTargets
      BY <1>1, <2>4 DEF TypeOK, RemoteOK, KeepsTargets, MoveIn, DeleteItem
    <2> QED
      BY <1>1, <2>1, <2>2, <2>3, <2>4
      DEF Next, Handle, vars, remote, StartUpload, SaveUpload, DeleteTemp, Arrive, TakeUploadLock, TakeTargetLock,
          Reconcile, GatewayFails, Refuse, WriteChunk, ConfirmChunk, CheckTarget, RecordCompletion,
          CancelAbort, CancelDelete, Crash
  <1> QED
    BY <1>1, TypeCorrect, PTL DEF Spec, NoSilentOverwrite, KeepsTargets

\* The part of LocksOrdered that is about the target lock.
TargetInv == \A p \in Paths : LET r == upload_target_locks[p] IN
  r # NoReq => req[r].op = "complete" /\ req[r].pc \in {"held", "sized", "rename"}

\* A step of r that frees its locks, or that has none of a target, disturbs nobody.
LEMMA TargetReleased ==
  ASSUME TypeOK, TargetInv, NEW r \in Requests, Unlock(r), \A s \in Requests \ {r} : req'[s] = req[s]
  PROVE  TargetInv'
  BY NullAssumption DEF TypeOK, LocksOK, TargetInv, Unlock

\* A step of r that does not leave the target lock disturbs nobody either.
LEMMA TargetKept ==
  ASSUME TypeOK, TargetInv, NEW r \in Requests, UNCHANGED upload_target_locks,
         \A s \in Requests \ {r} : req'[s] = req[s],
         req[r].pc \in {"held", "sized", "rename"} /\ req[r].op = "complete" =>
           req'[r].op = "complete" /\ req'[r].pc \in {"held", "sized", "rename"}
  PROVE  TargetInv'
  BY NullAssumption DEF TypeOK, LocksOK, TargetInv

\* Answering r frees what it holds.
LEMMA TargetEnd ==
  ASSUME TypeOK, TargetInv, NEW r \in Requests, End(r) PROVE TargetInv'
  <1>1. \A s \in Requests \ {r} : req'[s] = req[s]  BY DEF TypeOK, RequestsOK, End
  <1> QED
    BY <1>1, TargetReleased DEF End

\* The step of a request that ends it, or leaves it where it may hold a target.
LEMMA TargetStep == ASSUME IInv, TargetInv, NEW r \in Requests, Handle(r) PROVE TargetInv'
  <1> USE DEF IInv
  <1>1. CASE End(r)  BY <1>1, TargetEnd
  <1>2. CASE TakeUploadLock(r) /\ ~End(r)
    BY <1>2, TargetKept DEF TakeUploadLock, Goto, TypeOK, RequestsOK, RequestState
  <1>3. CASE TakeTargetLock(r) /\ ~End(r)
    <2>1. req[r].op = "complete"  BY <1>3 DEF TakeTargetLock, PcInv
    <2>2. \A s \in Requests : req'[s] = IF s = r THEN [req[r] EXCEPT !.pc = "held"] ELSE req[s]
      BY <1>3 DEF TakeTargetLock, Goto, TypeOK, RequestsOK
    <2>3. req'[r].op = "complete" /\ req'[r].pc = "held"
      BY <2>1, <2>2 DEF TypeOK, RequestsOK, RequestState
    <2>4. \A p \in Paths : upload_target_locks'[p] \in {upload_target_locks[p], r}
      BY <1>3 DEF TakeTargetLock, TypeOK, LocksOK
    <2> QED
      BY <2>2, <2>3, <2>4, NullAssumption DEF TargetInv, TypeOK, LocksOK
  <1>4. CASE (Reconcile(r) \/ CheckTarget(r)) /\ ~End(r)
    BY <1>4, TargetKept DEF Reconcile, CheckTarget, Goto, locks, TypeOK, RequestsOK, RequestState
  <1>5. CASE (\E m \in 0 .. ChunkSize : WriteChunk(r, m)) /\ ~End(r)
    BY <1>5, TargetKept DEF WriteChunk, At, locks, TypeOK, RequestsOK, RequestState
  <1>6. CASE (PublishLocal(r) \/ RenameRemote(r)) /\ ~End(r)
    BY <1>6, TargetReleased DEF PublishLocal, RenameRemote, Goto, TypeOK, RequestsOK
  <1>7. CASE CancelAbort(r)
    BY <1>7, TargetKept DEF CancelAbort, At, locks, TypeOK, RequestsOK, RequestState
  <1> QED
    BY <1>1, <1>2, <1>3, <1>4, <1>5, <1>6, <1>7
    DEF Handle, GatewayFails, Refuse, ConfirmChunk, RecordCompletion, CancelDelete

\* complete_file_upload takes its two locks in one order and waits with neither
\* in hand but the upload's: no circle of waiting requests, for any number of them.
THEOREM LockOrder == Spec => []LocksOrdered
  <1>1. Init => TargetInv  BY DEF Init, TargetInv
  <1>2. IInv /\ TargetInv /\ [Next]_vars => TargetInv'
    <2> SUFFICES ASSUME IInv, TargetInv, [Next]_vars PROVE TargetInv'  OBVIOUS
    <2>1. CASE UNCHANGED <<locks, req>>  BY <2>1 DEF locks, TargetInv
    <2>2. ASSUME NEW r \in Requests, Handle(r) PROVE TargetInv'  BY <2>2, TargetStep
    <2>3. ASSUME NEW r \in Requests, NEW op \in Ops, NEW u \in Uploads, NEW off \in Sizes, Arrive(r, op, u, off)
          PROVE TargetInv'
      BY <2>3, TargetKept DEF Arrive, locks, IInv, TypeOK, RequestsOK, RequestState
    <2>4. CASE Crash  BY <2>4 DEF Crash, TargetInv
    <2> QED
      BY <2>1, <2>2, <2>3, <2>4
      DEF Next, vars, StartUpload, SaveUpload, DeleteTemp, MoveIn, DeleteItem, MoveItem, locks
  <1>3. IInv /\ TargetInv => LocksOrdered
    BY NullAssumption DEF IInv, LockInv, Holding, TargetInv, LocksOrdered, TypeOK, LocksOK
  <1> QED
    BY <1>1, <1>2, <1>3, Invariance, PTL DEF Spec

\* Target files are whole, so what an observer sees is whose file it is.
LEMMA ShownWhole == IInv => [p \in Paths |-> Shown(files[p])] = [p \in Paths |-> files[p].by]
  BY DEF IInv, FilesInv, Shown

\* A step that leaves targets and sessions alone is invisible.
LEMMA Stutters ==
  ASSUME UNCHANGED <<meta, files, published>>, {u \in Uploads : start'[u] # "new"} = {u \in Uploads : start[u] # "new"}
  PROVE  UNCHANGED Abstract!vars
  BY DEF Abstract!vars, Shown, Total

\* The rename is the one visible step of an upload.
LEMMA RenamePublishes ==
  ASSUME IInv, IInv', NEW u \in Uploads, start[u] # "new", MayPublish(u), u \in temps, Rename(u), UNCHANGED session
  PROVE  Abstract!Publish(u)
  <1>1. u \in {v \in Uploads : start[v] # "new"} \ published  BY DEF IInv, OnceInv
  <1>2. files[meta[u].path].by = NoFile \/ meta[u].replace  BY DEF MayPublish, TargetFree, PathOf
  <1>3. [p \in Paths |-> files[p].by]' = [[p \in Paths |-> files[p].by] EXCEPT ![meta[u].path] = u]
    BY DEF Rename, PathOf, IInv, TypeOK, RemoteOK, SessionsOK
  <1>4. [p \in Paths |-> Shown(files[p])] = [p \in Paths |-> files[p].by]  BY ShownWhole
  <1>5. [p \in Paths |-> Shown(files[p])]' = [p \in Paths |-> files[p].by]'
    BY DEF IInv, FilesInv, Shown, Total
  <1>6. meta[u].path \in Paths  BY DEF IInv, TypeOK, SessionsOK
  <1> QED
    BY <1>1, <1>2, <1>3, <1>4, <1>5, <1>6 DEF Abstract!Publish, Rename, session

\* Every step of the handlers is a step of AtomicPublish, or invisible in it.
LEMMA StepSimulates == IInv /\ IInv' /\ [Next]_vars => [Abstract!Next]_Abstract!vars
  <1> SUFFICES ASSUME IInv, IInv', [Next]_vars PROVE [Abstract!Next]_Abstract!vars
    OBVIOUS
  <1> DEFINE by == [p \in Paths |-> files[p].by]
  <1>s. [p \in Paths |-> Shown(files[p])] = by  BY ShownWhole
  <1>t. [p \in Paths |-> Shown(files[p])]' = by'  BY DEF IInv, FilesInv, Shown, Total
  <1> USE DEF Abstract!vars
  <1>1. ASSUME NEW u \in Uploads, NEW p \in Paths, NEW n \in Sizes, NEW rep \in BOOLEAN, StartUpload(u, p, n, rep)
        PROVE  Abstract!Open(u, p, rep)
    <2>1. by' = by  BY <1>1 DEF StartUpload
    <2>2. {v \in Uploads : start'[v] # "new"} = {v \in Uploads : start[v] # "new"} \cup {u} /\ start[u] = "new"
      BY <1>1 DEF StartUpload, IInv, TypeOK, SessionsOK
    <2>3. /\ [v \in Uploads |-> meta'[v].path] = [[v \in Uploads |-> meta[v].path] EXCEPT ![u] = p]
          /\ [v \in Uploads |-> meta'[v].replace] = [[v \in Uploads |-> meta[v].replace] EXCEPT ![u] = rep]
      BY <1>1 DEF StartUpload, IInv, TypeOK, SessionsOK
    <2> QED
      BY <1>1, <1>s, <1>t, <2>1, <2>2, <2>3 DEF StartUpload, Abstract!Open
  <1>2. ASSUME NEW r \in Requests, PublishLocal(r) \/ RenameRemote(r)
        PROVE  [Abstract!Next]_Abstract!vars
    <2>1. req[r].u \in Uploads /\ start[req[r].u] # "new"
      BY <1>2 DEF IInv, TypeOK, RequestsOK, StartInv, About, PublishLocal, RenameRemote, At
    <2>2. CASE UNCHANGED <<session, remote>>  BY <2>2, Stutters DEF session, remote
    <2>3. CASE MayPublish(req[r].u) /\ req[r].u \in temps /\ Rename(req[r].u) /\ UNCHANGED session
      BY <2>1, <2>3, RenamePublishes DEF Abstract!Next
    <2> QED
      BY <1>2, <2>2, <2>3 DEF PublishLocal, RenameRemote, MayPublish, AllBytesThere
  <1>3. ASSUME NEW p \in Paths, NEW q \in Paths, MoveItem(p, q) PROVE Abstract!Move(p, q)
    <2>1. by' = [by EXCEPT ![q] = by[p], ![p] = NoFile] /\ by[p] # NoFile /\ by[q] = NoFile
      BY <1>3 DEF MoveItem, IInv, TypeOK, RemoteOK
    <2> QED
      BY <1>3, <1>s, <1>t, <2>1 DEF MoveItem, session, Abstract!Move
  <1>4. ASSUME NEW p \in Paths, MoveIn(p) PROVE Abstract!Deposit(p)
    <2>1. by' = [by EXCEPT ![p] = Foreign] /\ by[p] = NoFile
      BY <1>4 DEF MoveIn, IInv, TypeOK, RemoteOK
    <2> QED
      BY <1>4, <1>s, <1>t, <2>1 DEF MoveIn, session, Abstract!Deposit
  <1>5. ASSUME NEW p \in Paths, DeleteItem(p) PROVE Abstract!Remove(p)
    <2>1. by' = [by EXCEPT ![p] = NoFile] /\ by[p] # NoFile
      BY <1>5 DEF DeleteItem, IInv, TypeOK, RemoteOK
    <2> QED
      BY <1>5, <1>s, <1>t, <2>1 DEF DeleteItem, session, Abstract!Remove
  <1>6. ASSUME NEW u \in Uploads, SaveUpload(u) \/ DeleteTemp(u) PROVE UNCHANGED Abstract!vars
    <2>1. {v \in Uploads : start'[v] # "new"} = {v \in Uploads : start[v] # "new"}
      BY <1>6 DEF SaveUpload, DeleteTemp, session, IInv, TypeOK, SessionsOK
    <2> QED
      BY <1>6, <2>1, Stutters DEF SaveUpload, DeleteTemp, session, remote
  <1>7. CASE Crash
    <2>1. {v \in Uploads : start'[v] # "new"} = {v \in Uploads : start[v] # "new"}
      BY <1>7 DEF Crash, IInv, TypeOK, SessionsOK
    <2> QED
      BY <1>7, <2>1, Stutters DEF Crash, remote
  <1>8. CASE UNCHANGED <<start, meta, files, published>>  BY <1>8, Stutters
  <1> QED
    BY <1>1, <1>2, <1>3, <1>4, <1>5, <1>6, <1>7, <1>8
    DEF Next, Handle, vars, session, remote, Arrive, TakeUploadLock, TakeTargetLock,
        Reconcile, GatewayFails, Refuse, WriteChunk, ConfirmChunk, CheckTarget, RecordCompletion, CancelAbort,
        CancelDelete, Abstract!Next

\* The first state shows no file.
LEMMA InitSimulates == Init => Abstract!Init
  <1> SUFFICES ASSUME Init PROVE Abstract!Init
    OBVIOUS
  <1>1. (CHOOSE p \in Paths : TRUE) \in Paths  BY PathAssumption
  <1> QED
    BY <1>1, NullAssumption DEF Init, Abstract!Init, Shown

\* The handlers implement atomic publication (docs/architecture.md): chunks,
\* locks, reconciliation, cancellation and restarts are invisible in the target folder.
THEOREM Refinement == Spec => PublishesAtomically
  BY InitSimulates, Invariance, StepSimulates, PTL DEF Spec, Abstract!Spec, PublishesAtomically
=============================================================================
