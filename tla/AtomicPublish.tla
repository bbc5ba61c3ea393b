--------------------------- MODULE AtomicPublish ---------------------------
(***************************************************************************)
(* What a resumable upload promises to everybody who looks at the target   *)
(* folder, with chunks, locks, sessions and failures left out: a target    *)
(* path is vacant, holds a file that did not come from an upload, or holds *)
(* one WHOLE upload.  An upload appears at its path in a single step, at   *)
(* most once, and over an existing file only if it was opened with         *)
(* replace.  docs/architecture.md calls this "A completed object is        *)
(* atomically renamed to the desired filename".                            *)
(***************************************************************************)
CONSTANTS Uploads,   \* upload identifiers
          Paths,     \* final paths of the target files
          NoFile,    \* the contents of a vacant path
          Foreign    \* a file that no upload of Uploads wrote

VARIABLES opened,    \* the uploads the portal accepted
          path,      \* the path each opened upload was opened for
          replace,   \* whether it may replace a file
          store,     \* the contents of every path
          done       \* the uploads that were published

vars == <<opened, path, replace, store, done>>

Init == /\ opened = {}
        /\ path \in [Uploads -> Paths]
        /\ replace = [u \in Uploads |-> FALSE]
        /\ store = [p \in Paths |-> NoFile]
        /\ done = {}

\* The portal accepts upload u for path p.
Open(u, p, rep) ==
  /\ u \notin opened
  /\ opened' = opened \cup {u}
  /\ path' = [path EXCEPT ![u] = p]
  /\ replace' = [replace EXCEPT ![u] = rep]
  /\ UNCHANGED <<store, done>>

\* The whole of u appears at its path.
Publish(u) ==
  /\ u \in opened \ done
  /\ store[path[u]] = NoFile \/ replace[u]
  /\ store' = [store EXCEPT ![path[u]] = u]
  /\ done' = done \cup {u}
  /\ UNCHANGED <<opened, path, replace>>

\* A file arrives at a vacant path from outside Paths.
Deposit(p) ==
  /\ store[p] = NoFile
  /\ store' = [store EXCEPT ![p] = Foreign]
  /\ UNCHANGED <<opened, path, replace, done>>

\* A file moves to a vacant path.
Move(p, q) ==
  /\ store[p] # NoFile
  /\ store[q] = NoFile
  /\ store' = [store EXCEPT ![q] = store[p], ![p] = NoFile]
  /\ UNCHANGED <<opened, path, replace, done>>

\* A file is deleted.
Remove(p) ==
  /\ store[p] # NoFile
  /\ store' = [store EXCEPT ![p] = NoFile]
  /\ UNCHANGED <<opened, path, replace, done>>

Next == \/ \E u \in Uploads, p \in Paths, rep \in BOOLEAN : Open(u, p, rep)
        \/ \E u \in Uploads : Publish(u)
        \/ \E p \in Paths : Deposit(p) \/ Remove(p)
        \/ \E p, q \in Paths : Move(p, q)

Spec == Init /\ [][Next]_vars
=============================================================================
