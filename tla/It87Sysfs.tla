------------------------------ MODULE It87Sysfs -----------------------------
(***************************************************************************)
(* The sysfs attributes of it87ts.c.  Each group is an array, and a        *)
(* function that decides from the position in the array which sensor an    *)
(* attribute belongs to and whether it is visible.  d is the driver's data *)
(* on the device (struct it87_data), see Data in It87Load.                 *)
(***************************************************************************)
EXTENDS It87Chip

\* The attributes of sensor n, in the order of kinds
Of(n, kinds) == [k \in DOMAIN kinds |-> [nr |-> n, kind |-> kinds[k]]]

InKinds == <<"input", "min", "max", "alarm", "beep">>
TempKinds == <<"input", "max", "min", "type", "alarm", "offset", "beep">>
FanKinds == <<"input", "min", "alarm", "beep">>
PwmKinds == <<"enable", "pwm", "freq", "auto_channels_temp">>
PointKinds == <<"point1_temp", "point1_temp_hyst", "point2_temp", "point3_temp">>
StartKinds == <<"start", "slope">>
AutoKinds == <<"point1_pwm", "point2_pwm", "point3_pwm", "point4_pwm">>
               \o PointKinds \o <<"point4_temp">> \o StartKinds

it87_attributes_in ==
  Of(0, InKinds) \o Of(1, InKinds) \o Of(2, InKinds) \o Of(3, InKinds)
  \o Of(4, InKinds) \o Of(5, InKinds) \o Of(6, InKinds) \o Of(7, InKinds)
  \o [k \in 1..5 |-> [nr |-> 7 + k, kind |-> "input"]]

it87_attributes_temp ==
  Of(0, TempKinds) \o Of(1, TempKinds) \o Of(2, TempKinds)
  \o Of(3, TempKinds) \o Of(4, TempKinds) \o Of(5, TempKinds)

it87_attributes_fan ==
  Of(0, FanKinds \o <<"div">>) \o Of(1, FanKinds \o <<"div">>)
  \o Of(2, FanKinds \o <<"div">>)
  \o Of(3, FanKinds) \o Of(4, FanKinds) \o Of(5, FanKinds)

it87_attributes_pwm ==
  Of(0, PwmKinds) \o Of(1, PwmKinds) \o Of(2, PwmKinds)
  \o Of(3, PwmKinds) \o Of(4, PwmKinds) \o Of(5, PwmKinds)

it87_attributes_auto_pwm ==
  Of(0, AutoKinds) \o Of(1, AutoKinds) \o Of(2, AutoKinds)
  \o Of(3, PointKinds \o StartKinds) \o Of(4, PointKinds \o StartKinds)
  \o Of(5, PointKinds \o StartKinds)

\* The labels of in3, in7, in8 and in9, positions 4 to 7 of it87_attributes
it87_attributes_label == <<3, 7, 8, 9>>

\* The number in SENSOR_DEVICE_ATTR that tells the handlers the sensor: the trip
\* points of pwm4 to pwm6 are declared with that of pwm3.
HandlerNr(a) ==
  IF a.nr \in 3..5 /\ \E k \in DOMAIN PointKinds : PointKinds[k] = a.kind THEN 2 ELSE a.nr
-----------------------------------------------------------------------------
(* is_visible, of the attribute at position index of its array, from 0.    *)

it87_in_is_visible(d, index) ==
  LET i == IF index >= 40 THEN index - 40 + 8 ELSE index \div 5
      a == IF index >= 40 THEN 0 ELSE index % 5
  IN i \in d.has_in /\ (a = 4 => d.has_beep)

\* types: the sensors for which get_temp_type does not return 0
it87_temp_is_visible(d, types, index) ==
  LET i == index \div 7
      a == index % 7
  IN /\ i \in d.has_temp
     /\ a # 0 => i < NumTempLimit(d.type)
     /\ a = 3 => i \in types
     /\ a = 5 => d.type \notin OldPwmType
     /\ a = 6 => d.has_beep

it87_is_visible(d, index) == index \in d.in_internal

\* Mutant: the later fans are taken to have five attributes, too.
FanVisibleFive(d, index) ==
  LET i == index \div 5
      a == index % 5
  IN /\ i \in d.has_fan
     /\ a = 3 => d.has_beep
     /\ a = 4 => ~Is16Bit(d.type, d.rev)

it87_fan_is_visible(d, index) ==
  LET late == index >= 15
      i == IF late THEN (index - 15) \div 4 + 3 ELSE index \div 5
      a == IF late THEN (index - 15) % 4 ELSE (index % 5)
  IN /\ i \in d.has_fan
     /\ a = 3 => d.has_beep
     /\ a = 4 => ~Is16Bit(d.type, d.rev)

it87_pwm_is_visible(d, index) == index \div 4 \in d.has_pwm

it87_auto_pwm_is_visible(d, index) ==
  LET late == index >= 33
      i == IF late THEN (index - 33) \div 6 + 3 ELSE index \div 11
      a == IF late THEN ((index - 33) % 6) + 4 ELSE index % 11
  IN /\ i \in d.has_pwm
     /\ HasNewerAutoPwm(d.type) => a >= 4 /\ a # 8
     /\ HasOldAutoPwm(d.type, d.rev) => a < 9

\* The attributes of an array that are visible
Visible(attrs, Shown(_)) == {attrs[k] : k \in {j \in DOMAIN attrs : Shown(j - 1)}}
-----------------------------------------------------------------------------
(* The attributes a user sees, and the registers behind them.              *)

InShown(d) == Visible(it87_attributes_in, LAMBDA p : it87_in_is_visible(d, p))
FanShown(d) == Visible(it87_attributes_fan, LAMBDA p : it87_fan_is_visible(d, p))
TempShown(d, types) ==
  Visible(it87_attributes_temp, LAMBDA p : it87_temp_is_visible(d, types, p))
LabelShown(d) == Visible(it87_attributes_label, LAMBDA p : it87_is_visible(d, p))
PwmShown(d) == Visible(it87_attributes_pwm, LAMBDA p : it87_pwm_is_visible(d, p))
\* The group is registered only on chips with trip points.
AutoShown(d) ==
  IF HasNewerAutoPwm(d.type) \/ HasOldAutoPwm(d.type, d.rev)
  THEN Visible(it87_attributes_auto_pwm, LAMBDA p : it87_auto_pwm_is_visible(d, p))
  ELSE {}

InRegs(a) ==
  CASE a.kind = "input" -> {VIN[a.nr + 1]}
    [] a.kind = "min" -> {49 + 2 * a.nr}
    [] a.kind = "max" -> {48 + 2 * a.nr}
    [] OTHER -> {}
TempRegs(d, a) ==
  LET r == RegTempLimit(d.type) IN
  CASE a.kind = "input" -> {41 + a.nr}
    [] a.kind = "min" -> {r.low[a.nr + 1]}
    [] a.kind = "max" -> {r.high[a.nr + 1]}
    [] a.kind = "offset" -> {r.offset[a.nr + 1]}
    [] OTHER -> {}
\* The low byte, and the high byte on 16-bit chips
FanAttrRegs(d, a) ==
  LET r == FanRegs(d.type, a.nr)
      bytes(k) == IF Is16Bit(d.type, d.rev) THEN {r[k], r[k + 1]} ELSE {r[k]}
  IN CASE a.kind = "input" -> bytes(1)
       [] a.kind = "min" -> bytes(3)
       [] OTHER -> {}
\* The start value of newer chips is the duty cycle's register.
PwmRegs(d, a) ==
  CASE a.kind = "enable" -> {RegPwm(d.type)[a.nr + 1]}
    [] a.kind = "pwm" /\ HasNewerAutoPwm(d.type) -> {PWM_DUTY[a.nr + 1]}
    [] OTHER -> {}
\* IT87_REG_AUTO_TEMP and IT87_REG_AUTO_PWM, as the handlers index them
AutoRegs(d, a) ==
  LET base == AUTO_BASE[HandlerNr(a) + 1]
      newer == HasNewerAutoPwm(d.type)
      step == CASE a.kind = "point1_temp_hyst" -> IF newer THEN 5 ELSE 0
                [] a.kind = "point1_temp" -> IF newer THEN 0 ELSE 1
                [] a.kind = "point2_temp" -> IF newer THEN 1 ELSE 2
                [] a.kind = "point3_temp" -> IF newer THEN 2 ELSE 3
                [] a.kind = "point4_temp" -> 4
                [] a.kind = "point1_pwm" -> 5
                [] a.kind = "point2_pwm" -> 6
                [] a.kind = "point3_pwm" -> 7
                [] a.kind = "start" -> 3
                [] a.kind = "slope" -> 4
  IN IF a.kind = "point4_pwm" THEN {} ELSE {base + step}
=============================================================================
