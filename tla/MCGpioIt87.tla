----------------------------- MODULE MCGpioIt87 -----------------------------
(* Instance of GpioIt87 for TLC: two threads and two lines of one group,    *)
(* one with a Simple I/O switch.  Lines of two groups share no register.   *)
EXTENDS GpioIt87, TLC

MCGroupOf == [l \in Line |-> 0]

\* No operation depends on which thread runs it.
MCSymmetry == Permutations(Thread)
=============================================================================
