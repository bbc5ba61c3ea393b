--------------------------- MODULE MCTaskLifecycle ---------------------------
(***************************************************************************)
(* Instances of TaskLifecycle for TLC.                                     *)
(***************************************************************************)
EXTENDS TaskLifecycle

CONSTANTS match, folder

MCFolderOf == [t \in Tasks |-> folder]
=============================================================================
