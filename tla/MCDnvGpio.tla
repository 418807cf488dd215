------------------------------ MODULE MCDnvGpio ------------------------------
(* GPIOs 4 and 5 share a word of the GPE registers, and the pad of 5 is locked; *)
(* GPIO 20 has no interrupt.                                                    *)
EXTENDS DnvGpio

MCType(g) == CASE g = 4 -> {"NONE", "FALLING", "HIGH_AND_RISING"}
               [] g = 5 -> {"BOTH"}
               [] OTHER -> {}

MCUse(g) == CASE g = 4 -> {"out"} [] g = 20 -> {"in"} [] OTHER -> {}
=============================================================================
