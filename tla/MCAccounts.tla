----------------------------- MODULE MCAccounts -----------------------------
(***************************************************************************)
(* Instances of Accounts for TLC.                                          *)
(***************************************************************************)
EXTENDS Accounts, TLC

CONSTANTS root, u1, s1, s2, r1, r2

MCSessions == {s1, s2}
MCRequests == {r1, r2}
Interchangeable == Permutations(MCSessions) \cup Permutations(MCRequests)
=============================================================================
