--------------------------- MODULE MCServerRegistry ---------------------------
(***************************************************************************)
(* Instances of ServerRegistry for TLC.                                    *)
(***************************************************************************)
EXTENDS ServerRegistry, TLC

CONSTANTS s1, r1, r2

MCRequests == {r1, r2}
Interchangeable == Permutations(MCRequests)
=============================================================================
