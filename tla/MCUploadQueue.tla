---------------------------- MODULE MCUploadQueue ----------------------------
(***************************************************************************)
(* Instances of UploadQueue for TLC.                                       *)
(***************************************************************************)
EXTENDS UploadQueue

CONSTANTS j1, j2

\* The other file is empty.
MCChunks == [j \in Jobs |-> IF j = j1 THEN 1 ELSE 0]
MCSessions == [j \in Jobs |-> IF j = j1 THEN 2 ELSE 1]
=============================================================================
