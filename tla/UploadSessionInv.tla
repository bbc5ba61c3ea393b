-------------------------- MODULE UploadSessionInv --------------------------
(***************************************************************************)
(* The inductive invariant behind the properties of UploadSession, in      *)
(* parts, each about one reason why the uploads are safe.                  *)
(***************************************************************************)
EXTENDS UploadSession

About(r, u) == req[r].pc # "idle" /\ req[r].u = u

\* The upload lock is held from the refresh to the answer, except that
\* complete_file_upload leaves it before it commits.
Holding(r) == req[r].pc \in {"target", "held", "sized", "confirm", "rename", "drop"}
LockInv == \A r \in Requests : Holding(r) => upload_locks[req[r].u] = r

\* Some program counters belong to one kind of request.
PcInv == \A r \in Requests : /\ req[r].pc \in {"target", "rename", "record"} => req[r].op = "complete"
                             /\ req[r].pc = "confirm" => req[r].op = "write"
                             /\ req[r].pc = "drop" => req[r].op = "cancel"

\* Only an upload whose row was committed is requested, recorded or published.
StartInv == \A u \in Uploads :
  /\ start[u] # "open" => /\ ~Exists(u)
                          /\ u \notin published
                          /\ audit[u] = 0
                          /\ \A r \in Requests : ~About(r, u)
  /\ start[u] = "new" => temp[u] = {}

\* A temporary object is a prefix of the file; one that is gone is empty.
PrefixInv == \A u \in Uploads :
  /\ \E n \in 0 .. Total(u) : temp[u] = Positions(n)
  /\ u \notin temps => temp[u] = {}

\* What a request inside the lock relies on after its gateway call.
InFlight(r) == LET u == req[r].u IN
  /\ req[r].pc = "confirm" /\ u \in temps => Positions(req[r].off) \subseteq temp[u]
  /\ req[r].pc = "rename" /\ u \in temps => temp[u] = Positions(Total(u))
FlightInv == \A r \in Requests : InFlight(r)

\* Publishing consumes the temporary object, so it happens once; the one
\* request that published u is the one that will record it.
OnceInv ==
  /\ temps \cap published = {}
  /\ \A u \in Uploads : audit[u] > 0 => u \in published
  /\ \A r \in Requests : req[r].pc = "record" =>
       /\ req[r].u \in published
       /\ audit[req[r].u] = 0
       /\ \A s \in Requests : req[s].pc = "record" /\ req[s].u = req[r].u => s = r

\* Every target file that came from an upload is whole.
FilesInv == \A p \in Paths : LET f == files[p] IN
  f.by \in Uploads => f.by \in published /\ f.bytes = Positions(Total(f.by))

IInv == /\ TypeOK /\ LockInv /\ PcInv /\ StartInv /\ PrefixInv /\ FlightInv /\ OnceInv /\ FilesInv
        /\ AckedBytesDurable /\ CompletedExactlyOnce
=============================================================================
