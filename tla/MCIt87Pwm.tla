----------------------------- MODULE MCIt87Pwm -----------------------------
(* Instance of It87Pwm for TLC: one channel of each kind of chip, among    *)
(* them two without the on/off mode (a chip without FEAT_FANCTL_ONOFF, and *)
(* the fifth channel of a chip that has it for the first three only).      *)
EXTENDS It87Pwm, TLC

Chan(f, onoff, n) == [family |-> f, fanctl |-> onoff, nr |-> n]

MCChannel == {Chan("old", TRUE, 0), Chan("mid", TRUE, 2), Chan("newer", TRUE, 1),
              Chan("newer", FALSE, 0), Chan("newer", TRUE, 4)}

MCPwm == {0, 254}

MCTemp == {0, 40}

\* Manual, and automatic with reserved bits set beside the map
MCCtrl == {[auto |-> FALSE, low |-> 0], [auto |-> TRUE, low |-> 9]}

\* No handler depends on which thread runs it.
MCSymmetry == Permutations(Thread)
=============================================================================
