--------------------------- MODULE MCMiconPrograms ---------------------------
(* A micon_fan.conf for which the float product falls short, at 49 degrees, and *)
(* temperatures at and between its ends.                                        *)
EXTENDS MiconPrograms

MCTemps == {27, 28, 49, 55, 56}
=============================================================================
