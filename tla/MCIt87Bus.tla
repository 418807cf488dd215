----------------------------- MODULE MCIt87Bus -----------------------------
(* Instance of It87Bus for TLC: two threads on a chip with banks, three   *)
(* registers of two banks (one PWM control register, and the two that the *)
(* unlocked callers read), and two bytes whose bank fields differ.        *)
EXTENDS It87Bus

MCPwm == 21           \* IT87_REG_PWM[0], 0x15
MCTempExtra == 85     \* IT87_REG_TEMP_EXTRA, 0x55
MCTempSrc1 == 541     \* IT87_REG_TEMP_SRC1[0], 0x21d

MCReg == {MCPwm, MCTempExtra, MCTempSrc1}
MCUnlockedReg == {MCTempExtra, MCTempSrc1}

MCValue == {0, 67}

MCPowerOn == [c \in Cell |-> c[1]]
=============================================================================
