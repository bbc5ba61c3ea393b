---------------------------- MODULE MCRecurrence ----------------------------
(***************************************************************************)
(* An instance of Recurrence for TLC: days of four slots, short months, a  *)
(* zone without clock changes and two whose clock skips two slots of the   *)
(* fourth day and repeats two of the twelfth; the third skips the last two *)
(* of the eleventh day.                                                    *)
(***************************************************************************)
EXTENDS Recurrence

MCMonthStarts == <<0, 9, 17, 26, 35>>
MCZones == {[spring |-> 0, fall |-> 1, shift |-> 0], [spring |-> 13, fall |-> 45, shift |-> 2],
            [spring |-> 42, fall |-> 62, shift |-> 2]}
=============================================================================
