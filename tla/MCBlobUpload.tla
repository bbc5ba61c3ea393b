---------------------------- MODULE MCBlobUpload ----------------------------
(***************************************************************************)
(* Instances of BlobUpload for TLC.                                        *)
(***************************************************************************)
EXTENDS BlobUpload, TLC

Interchangeable ==
  Permutations(Uploads) \cup Permutations(Requests) \cup Permutations(Instances) \cup Permutations(Paths)
=============================================================================
