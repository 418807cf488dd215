------------------------------ MODULE It87Chip ------------------------------
(***************************************************************************)
(* What it87ts.c knows of the chips it drives, as constant operators: the  *)
(* features of each type, the registers of each sensor, the pins that      *)
(* serve another function, and the sysfs attributes in the order of their  *)
(* arrays with the functions that decide by position which are visible.    *)
(* Sensors are numbered from 0 and bit masks are sets of numbers.          *)
(***************************************************************************)
EXTENDS Integers, Sequences

OldPwmType == {"it87", "it8712"}
MidType == {"it8716", "it8718", "it8720", "it8781", "it8782", "it8783"}
BankedType == {"it8655", "it8665", "it8686"}
SixTempType == {"it8620", "it8628", "it8686"}
NewerType ==
  {"it8721", "it8728", "it8732", "it8771", "it8772", "it8786", "it8790", "it8792",
   "it8603", "it8607", "it8613", "it8622"} \union SixTempType \union BankedType
ChipType == OldPwmType \union MidType \union NewerType

\* The features of it87_devices[type] that say how many fans and PWM channels
\* there can be, and how fans are measured.
FourFans == {"it8721", "it8732"}
FiveFans == {"it8716", "it8718", "it8720", "it8728", "it8613", "it8622"}
SixFans == {"it8665"} \union SixTempType
FourPwm == {"it8732"}
FivePwm == {"it8613", "it8622"}
SixPwm == SixFans
Fan16Config == MidType \union {"it8721"}

\* Those that concern temperatures, voltages and the PWM frequency
PeciMask(type) ==
  CASE type = "it8721" -> {0, 2}
    [] type \in NewerType \ (BankedType \union {"it8721"}) -> 0..2
    [] OTHER -> {}
OldPeciMask(type) ==
  CASE type \in {"it8718", "it8720", "it8781", "it8782", "it8783"} -> {2}
    [] type \in {"it8721", "it8732"} -> {1}
    [] OTHER -> {}
HasVid == {"it8712", "it8716", "it8718", "it8720"}
HasAvcc3 == {"it8603", "it8607", "it8613", "it8622", "it8628"} \union BankedType
HasScaling == NewerType \ {"it8732", "it8786", "it8655", "it8665"}
HasPwmFreq2 == (MidType \union NewerType) \ {"it8732", "it8655", "it8665"}
NumTempLimit(type) == IF type \in BankedType THEN 6 ELSE 3

\* it87_probe: the first revisions with 16-bit tachometers
Is16Bit(type, rev) ==
  CASE type = "it87" -> rev >= 3
    [] type = "it8712" -> rev >= 8
    [] OTHER -> TRUE

HasOldAutoPwm(type, rev) == type \in OldPwmType /\ ~Is16Bit(type, rev)
HasNewerAutoPwm(type) == type \in NewerType
NeedsFan16Config(type, rev) ==
  type \in Fan16Config \/ (type \in OldPwmType /\ Is16Bit(type, rev))

\* has_four_fans and its siblings, with the revisions it87_probe adds
MoreFans(type, rev) ==
  {f \in 3..5 :
     \/ f = 3 /\ type \in FourFans \union FiveFans \union SixFans
     \/ f = 4 /\ type \in FiveFans \union SixFans
     \/ f = 5 /\ type \in SixFans
     \/ f \in 3..4 /\ type = "it8712" /\ Is16Bit(type, rev)}

\* In units of 0.1 mV, before internal scaling
AdcLsb(type) ==
  CASE type \in {"it8732", "it8790", "it8792", "it8655", "it8665"} -> 109
    [] type = "it8613" -> 110
    [] type \in NewerType \ {"it8732", "it8790", "it8792", "it8655", "it8665", "it8613"} -> 120
    [] OTHER -> 160
-----------------------------------------------------------------------------
(* The registers.                                                          *)

AUTO_BASE == <<96, 104, 112, 120, 160, 168>>
VIN == <<32, 33, 34, 35, 36, 37, 38, 39, 40, 47, 44, 45, 46>>
PWM_DUTY == <<99, 107, 115, 123, 163, 171>>

\* REG_FAN, REG_FANX, REG_FAN_MIN, REG_FANX_MIN
FanRegs(type, f) ==
  LET sixth == IF type \in {"it8655", "it8665"} THEN <<147, 148, 178, 179>>
                                                ELSE <<76, 77, 78, 79>>
  IN << <<13, 24, 16, 27>>, <<14, 25, 17, 28>>, <<15, 26, 18, 29>>,
        <<128, 129, 132, 133>>, <<130, 131, 134, 135>>, sixth >>[f + 1]

\* Mutant: the registers of the IT8665E for every banked chip.
RegPwmBanked(type) ==
  IF type \in {"it8622", "it8613"} \union BankedType
  THEN <<21, 22, 23, 30, 31, 146>> ELSE <<21, 22, 23, 127, 167, 175>>

RegPwm(type) ==
  IF type \in {"it8655", "it8665", "it8622", "it8613"}
  THEN <<21, 22, 23, 30, 31, 146>> ELSE <<21, 22, 23, 127, 167, 175>>

RegTempLimit(type) ==
  IF type = "it8686"
  THEN [offset |-> <<86, 87, 89, 144, 145, 146>>,
        low |-> <<65, 67, 69, 181, 183, 185>>, high |-> <<64, 66, 68, 180, 182, 184>>]
  ELSE [offset |-> <<86, 87, 89, 90, 144, 145>>,
        low |-> <<65, 67, 69, 71, 181, 183>>, high |-> <<64, 66, 68, 70, 180, 182>>]

\* IT87_REG_CONFIG, the alarms, the bank, fan divisors and modes, the fan and
\* PWM controls, the enables, TEMP_EXTRA, the chip's id and the beep enables
GlobalRegs(type) ==
  {0, 1, 2, 3, 11, 12, 19, 20, 80, 81, 85, 88, 92}
    \union (IF type \in BankedType THEN {6} ELSE {})
    \union (IF type \in SixTempType THEN {119} ELSE {})
=============================================================================
