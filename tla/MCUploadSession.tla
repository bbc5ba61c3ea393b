-------------------------- MODULE MCUploadSession --------------------------
(***************************************************************************)
(* Instances of UploadSession for TLC.                                     *)
(***************************************************************************)
EXTENDS UploadSessionInv, TLC

CONSTANTS u1, u2, r1, r2, pm, pn, pr

\* pm and pn are on a MOCK (file system) server, pr is on a REAL (SFTP) server.
MCAdapterOf == (pm :> "MOCK") @@ (pn :> "MOCK") @@ (pr :> "REAL")
MCUploads == {u1, u2}
MCRequests == {r1, r2}

\* One session for a file of any size; or two sessions for one path, where two
\* completions meet at the lock of the target, for empty files that are only
\* completed and cancelled.  The server that no session is about holds nothing.
\* All of this bounds clients only: what the backend does on its own is never cut off.
Begun(u) == start[u] # "new"
OneServer ==
  Begun(u1) => /\ PathOf(u1) \in {pm, pr}
               /\ \A p \in Paths : AdapterOf[p] # AdapterOf[PathOf(u1)] => files[p].by = NoFile
OnePath ==
  Begun(u2) => /\ Begun(u1)
               /\ \A u \in Uploads : PathOf(u) = pr /\ Total(u) = 0
               /\ \A r \in Requests : req[r].pc # "idle" => req[r].op \in {"complete", "cancel"}
BoundedNext == Next /\ OneServer' /\ OnePath'
BoundedSpec == Init /\ [][BoundedNext]_vars /\ Fairness
=============================================================================
