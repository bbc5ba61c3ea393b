--------------------------- MODULE MCTaskSchedule ---------------------------
(***************************************************************************)
(* Instances of TaskSchedule for TLC.                                      *)
(***************************************************************************)
EXTENDS TaskSchedule, TLC

CONSTANTS d1, d2, tick, inline, e1, e2

MCPasses == {tick, inline}
Interchangeable == Permutations(Defs) \cup Permutations(Passes) \cup Permutations(Editors)
=============================================================================
