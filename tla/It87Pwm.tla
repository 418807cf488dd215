------------------------------ MODULE It87Pwm ------------------------------
(***************************************************************************)
(* One PWM channel of it87ts.c: the sysfs handlers that set its mode, duty *)
(* cycle, temperature map and trip points, the cache of the registers in   *)
(* struct it87_data, and the registers themselves.                         *)
(*                                                                         *)
(* Registers are read and written atomically, which It87Bus shows of the   *)
(* accessors.  A handler computes under data->update_lock and then writes  *)
(* its registers one at a time (todo), so that the chip is seen between    *)
(* two writes; the trip-point check runs before the lock is taken, as in   *)
(* the code.  The meaning of the control register depends on the chip:     *)
(*   old    FEAT_OLD_AUTOPWM                                               *)
(*   mid    neither feature: automatic mode, but no trip points in sysfs   *)
(*   newer  FEAT_NEWER_AUTOPWM: the duty cycle has a register of its own   *)
(***************************************************************************)
EXTENDS Integers, Sequences

CONSTANTS Thread,  \* kernel threads inside sysfs handlers
          NoThread,\* the value of update_lock when nobody holds it
          None,    \* nothing was asked for yet
          Channel, \* the channels considered, see ChannelAssumption
          Pwm,     \* the values written to pwmN
          Temp,    \* the trip-point temperatures
          Ctrl     \* the contents the control register can have at power on

\* Only newer chips come without FEAT_FANCTL_ONOFF or with more than 3 channels.
ASSUME ChannelAssumption ==
  \A c \in Channel :
    /\ c \in [family : {"old", "mid", "newer"}, fanctl : BOOLEAN, nr : 0..5]
    /\ c.family # "newer" => c.fanctl /\ c.nr < 3
ASSUME PwmAssumption == Pwm \subseteq 0..255
ASSUME TempAssumption == Temp \subseteq -128..127 /\ 0 \in Temp
ASSUME CtrlAssumption == Ctrl \subseteq [auto : BOOLEAN, low : 0..127]
ASSUME NoThreadAssumption == NoThread \notin Thread
ASSUME NoneAssumption == None \notin Int

\* pwmN_auto_channels_temp: the register values of BIT(0), BIT(1) and BIT(2)
TempMap == 0..2

Point == 1..2

VARIABLES
  ch,          \* the channel, fixed by the chip
  \* the chip
  ctrlReg,     \* REG_PWM: bit 7 (auto) and bits 6-0 (low)
  dutyReg,     \* IT87_REG_PWM_DUTY, on newer chips
  smart,       \* the channel's bit of IT87_REG_FAN_MAIN_CTRL: not on/off mode
  forced,      \* the channel's bit of IT87_REG_FAN_CTL: on, in on/off mode
  pointReg,    \* the trip points, IT87_REG_AUTO_TEMP
  \* struct it87_data
  pwm_ctrl, pwm_duty, pwm_temp_map, fan_main_ctrl, auto_temp,
  valid,       \* data->valid
  recent,      \* fewer than 1.5 s since last_updated
  \* the handlers in progress
  update_lock, \* the lock's holder, or NoThread
  checked,     \* the threads in set_pwm_enable past check_trip_points
  todo,        \* the register writes the holder still has to do
  \* history: the last mode, duty (as the register holds it) and map asked for
  lastMode, lastDuty, lastMap

registers == <<ctrlReg, dutyReg, smart, forced, pointReg>>
cache == <<pwm_ctrl, pwm_duty, pwm_temp_map, fan_main_ctrl, auto_temp>>
stamp == <<valid, recent>>
asked == <<lastMode, lastDuty, lastMap>>
vars == <<ch, registers, cache, stamp, update_lock, checked, todo, asked>>

Newer == ch.family = "newer"
HasAutoPwm == ch.family # "mid"
\* has_fanctl_onoff(data) && nr < 3
OnOff == ch.fanctl /\ ch.nr < 3

Manual(d) == [auto |-> FALSE, low |-> d]

\* Mutant: the older chips' 7-bit scale is forgotten.
PwmToRegUnscaled(v) == v

pwm_to_reg(v) == IF Newer THEN v ELSE v \div 2
-----------------------------------------------------------------------------
(* The chip (external).                                                    *)

\* A write to one register.  The duty register of a channel in automatic mode
\* is read-only (it87ts.c:1683).
WriteReg(w) ==
  /\ ctrlReg' = IF w.reg = "pwm" THEN w.val ELSE ctrlReg
  /\ dutyReg' = IF w.reg = "duty" /\ ~ctrlReg.auto THEN w.val ELSE dutyReg
  /\ smart' = IF w.reg = "main" THEN w.val ELSE smart
  /\ forced' = IF w.reg = "fan_ctl" THEN w.val ELSE forced
  /\ pointReg' = IF w.reg = "point" THEN w.val ELSE pointReg

\* In automatic mode a newer chip keeps the duty cycle it applies there.
ChipAdjusts ==
  /\ Newer /\ ctrlReg.auto
  /\ dutyReg' \in Pwm
  /\ UNCHANGED <<ch, ctrlReg, smart, forced, pointReg, cache, stamp, update_lock,
                 checked, todo, asked>>
-----------------------------------------------------------------------------

\* The state it87_probe and it87_init_device leave: whatever the firmware put
\* in the registers, a cache of defaults, and FAN_MAIN_CTRL read once.
Init ==
  /\ ch \in Channel
  /\ ctrlReg \in Ctrl
  /\ dutyReg \in Pwm
  /\ smart \in BOOLEAN /\ (OnOff \/ smart)
  /\ forced \in BOOLEAN
  /\ pointReg \in [Point -> Temp]
  /\ pwm_ctrl = Manual(0)
  /\ pwm_duty = 127
  /\ pwm_temp_map = ch.nr
  /\ fan_main_ctrl = smart
  /\ auto_temp = [i \in Point |-> 0]
  /\ valid = FALSE
  /\ recent = FALSE
  /\ update_lock = NoThread
  /\ checked = {}
  /\ todo = <<>>
  /\ lastMode = None /\ lastDuty = None /\ lastMap = None

\* Mutant: bits 6-0 are taken for the duty cycle in automatic mode too.
RefreshedDutyAlways ==
  [ctrl |-> ctrlReg,
   duty |-> IF Newer THEN dutyReg ELSE ctrlReg.low,
   map  |-> IF Newer \/ ctrlReg.auto THEN ctrlReg.low % 4 ELSE pwm_temp_map,
   points |-> IF HasAutoPwm THEN pointReg ELSE auto_temp]

\* Mutant: the trip points of newer chips are not read.
RefreshedOldPoints ==
  [ctrl |-> ctrlReg,
   duty |-> IF Newer THEN dutyReg
            ELSE IF ctrlReg.auto THEN pwm_duty ELSE ctrlReg.low,
   map  |-> IF Newer \/ ctrlReg.auto THEN ctrlReg.low % 4 ELSE pwm_temp_map,
   points |-> IF ch.family = "old" THEN pointReg ELSE auto_temp]

\* it87_update_pwm_ctrl: what it reads from the chip into the cache
Refreshed ==
  [ctrl |-> ctrlReg,
   duty |-> IF Newer THEN dutyReg
            ELSE IF ctrlReg.auto THEN pwm_duty ELSE ctrlReg.low,
   map  |-> IF Newer \/ ctrlReg.auto THEN ctrlReg.low % 4 ELSE pwm_temp_map,
   points |-> IF HasAutoPwm THEN pointReg ELSE auto_temp]

\* it87_update_device, called by every show handler
UpdateDevice ==
  /\ update_lock = NoThread
  /\ ~valid \/ ~recent
  /\ pwm_ctrl' = Refreshed.ctrl
  /\ pwm_duty' = Refreshed.duty
  /\ pwm_temp_map' = Refreshed.map
  /\ auto_temp' = Refreshed.points
  /\ fan_main_ctrl' = smart
  /\ valid' = TRUE /\ recent' = TRUE
  /\ UNCHANGED <<ch, registers, update_lock, checked, todo, asked>>

\* 1.5 s pass since the last update.
CacheAges ==
  /\ recent
  /\ recent' = FALSE
  /\ UNCHANGED <<ch, registers, cache, valid, update_lock, checked, todo, asked>>

\* The handlers of other attributes that set data->valid = 0
\* (set_temp of an offset, set_temp_type, clear_intrusion).
Invalidate ==
  /\ update_lock = NoThread
  /\ valid
  /\ valid' = FALSE
  /\ UNCHANGED <<ch, registers, cache, recent, update_lock, checked, todo, asked>>
-----------------------------------------------------------------------------
(* A locked handler computes, then does its register writes one by one.    *)

Lock(t, writes) ==
  /\ update_lock = NoThread
  /\ todo' = writes
  /\ update_lock' = IF writes = <<>> THEN NoThread ELSE t
  /\ UNCHANGED <<ch, registers, stamp>>

DoWrite ==
  /\ update_lock # NoThread
  /\ WriteReg(Head(todo))
  /\ todo' = Tail(todo)
  /\ update_lock' = IF Len(todo) = 1 THEN NoThread ELSE update_lock
  /\ UNCHANGED <<ch, cache, stamp, checked, asked>>

\* (data->pwm_ctrl[nr] & 0x7c) | data->pwm_temp_map[nr]; before the first
\* update the map can be as large as the channel number, 5
WithMap(c, m) ==
  LET keep == c.low - (c.low % 4)
      bit2 == (keep \div 4) % 2
  IN keep + (m % 4) + (IF m >= 4 /\ bit2 = 0 THEN 4 ELSE 0)

ManualCtrl == IF Newer THEN Manual(WithMap(pwm_ctrl, pwm_temp_map)) ELSE Manual(pwm_duty)
AutoCtrl == [auto |-> TRUE, low |-> IF Newer THEN WithMap(pwm_ctrl, pwm_temp_map) ELSE 0]

\* Mutant: the two writes in the other order.
FullSpeedOnOffSwapped ==
  <<[reg |-> "main", val |-> FALSE], [reg |-> "fan_ctl", val |-> TRUE]>>

\* set_pwm_enable with 0 where there is an on/off mode: the fan is forced on,
\* then the channel leaves SmartGuardian mode.
FullSpeedOnOff ==
  <<[reg |-> "fan_ctl", val |-> TRUE], [reg |-> "main", val |-> FALSE]>>

SetFullSpeedOnOff(t) ==
  /\ OnOff
  /\ Lock(t, FullSpeedOnOff)
  /\ fan_main_ctrl' = FALSE
  /\ lastMode' = 0
  /\ UNCHANGED <<pwm_ctrl, pwm_duty, pwm_temp_map, auto_temp, checked, lastDuty, lastMap>>

\* Where there is none: the maximum duty cycle, then manual mode.
SetFullSpeedPwm(t) ==
  /\ ~OnOff
  /\ pwm_duty' = pwm_to_reg(255)
  /\ pwm_ctrl' = Manual(WithMap(pwm_ctrl, pwm_temp_map))
  /\ Lock(t, <<[reg |-> "duty", val |-> pwm_duty'], [reg |-> "pwm", val |-> pwm_ctrl']>>)
  /\ lastMode' = 0
  /\ UNCHANGED <<pwm_temp_map, fan_main_ctrl, auto_temp, checked, lastDuty, lastMap>>

\* Mutant: SmartGuardian mode is not set again after on/off mode.
ModeWritesNoMain(c) == <<[reg |-> "pwm", val |-> c]>>

\* set_pwm_enable with 1 or 2: the control register, then SmartGuardian mode
ModeWrites(c) ==
  IF OnOff THEN <<[reg |-> "pwm", val |-> c], [reg |-> "main", val |-> TRUE]>>
           ELSE <<[reg |-> "pwm", val |-> c]>>

SetMode(t, c, mode) ==
  /\ Lock(t, ModeWrites(c))
  /\ pwm_ctrl' = c
  /\ fan_main_ctrl' = (fan_main_ctrl \/ OnOff)
  /\ lastMode' = mode
  /\ UNCHANGED <<pwm_duty, pwm_temp_map, auto_temp, lastDuty, lastMap>>

SetManual(t) == SetMode(t, ManualCtrl, 1) /\ UNCHANGED checked

\* check_trip_points, on the cache and without the lock
CheckTripPoints(t) ==
  /\ HasAutoPwm => auto_temp[1] <= auto_temp[2]
  /\ checked' = checked \union {t}
  /\ UNCHANGED <<ch, registers, cache, stamp, update_lock, todo, asked>>

SetAuto(t) ==
  /\ t \in checked
  /\ SetMode(t, AutoCtrl, 2)
  /\ checked' = checked \ {t}

\* set_pwm first re-reads the channel's registers into the cache.
\* -EBUSY: on a newer chip in automatic mode nothing is written.
SetPwm(t, v) ==
  /\ auto_temp' = Refreshed.points
  /\ pwm_temp_map' = Refreshed.map
  /\ IF Newer /\ ctrlReg.auto
     THEN /\ Lock(t, <<>>)
          /\ pwm_ctrl' = ctrlReg /\ pwm_duty' = Refreshed.duty
          /\ UNCHANGED lastDuty
     ELSE /\ pwm_duty' = pwm_to_reg(v)
          /\ pwm_ctrl' = IF Newer \/ ctrlReg.auto THEN ctrlReg ELSE Manual(pwm_duty')
          /\ Lock(t, IF Newer THEN <<[reg |-> "duty", val |-> pwm_duty']>>
                     ELSE IF ctrlReg.auto THEN <<>>
                     ELSE <<[reg |-> "pwm", val |-> pwm_ctrl']>>)
          /\ lastDuty' = pwm_duty'
  /\ UNCHANGED <<fan_main_ctrl, checked, lastMode, lastMap>>

\* set_pwm_temp_map: written at once in automatic mode, else kept in the cache
SetTempMap(t, m) ==
  /\ HasAutoPwm
  /\ pwm_duty' = Refreshed.duty
  /\ auto_temp' = Refreshed.points
  /\ pwm_temp_map' = m
  /\ pwm_ctrl' = IF ctrlReg.auto THEN [ctrlReg EXCEPT !.low = @ - (@ % 4) + m] ELSE ctrlReg
  /\ Lock(t, IF ctrlReg.auto THEN <<[reg |-> "pwm", val |-> pwm_ctrl']>> ELSE <<>>)
  /\ lastMap' = m
  /\ UNCHANGED <<fan_main_ctrl, checked, lastMode, lastDuty>>

\* set_auto_temp
SetAutoTemp(t, i, v) ==
  /\ HasAutoPwm
  /\ auto_temp' = [auto_temp EXCEPT ![i] = v]
  /\ Lock(t, <<[reg |-> "point", val |-> [pointReg EXCEPT ![i] = v]]>>)
  /\ UNCHANGED <<pwm_ctrl, pwm_duty, pwm_temp_map, fan_main_ctrl, checked, asked>>

\* A thread past check_trip_points has only SetAuto to do.
Handler(t) ==
  \/ SetAuto(t)
  \/ /\ t # update_lock /\ t \notin checked
     /\ \/ SetFullSpeedOnOff(t)
        \/ SetFullSpeedPwm(t)
        \/ SetManual(t)
        \/ CheckTripPoints(t)
        \/ \E v \in Pwm : SetPwm(t, v)
        \/ \E m \in TempMap : SetTempMap(t, m)
        \/ \E i \in Point, v \in Temp : SetAutoTemp(t, i, v)

Next ==
  \/ \E t \in Thread : Handler(t)
  \/ DoWrite
  \/ UpdateDevice \/ CacheAges \/ Invalidate
  \/ ChipAdjusts

Spec == Init /\ [][Next]_vars
-----------------------------------------------------------------------------

Low == 0..127
CtrlByte == [auto : BOOLEAN, low : Low]

TypeOK ==
  /\ ch \in Channel
  /\ ctrlReg \in CtrlByte /\ pwm_ctrl \in CtrlByte
  /\ dutyReg \in 0..255 /\ pwm_duty \in 0..255
  /\ ~Newer => pwm_duty \in Low
  /\ pwm_temp_map \in 0..5
  /\ smart \in BOOLEAN /\ forced \in BOOLEAN /\ fan_main_ctrl \in BOOLEAN
  /\ pointReg \in [Point -> Temp] /\ auto_temp \in [Point -> Temp]
  /\ valid \in BOOLEAN /\ recent \in BOOLEAN
  /\ update_lock \in Thread \union {NoThread}
  /\ checked \subseteq Thread
  /\ Len(todo) \in 0..2 /\ (todo = <<>> <=> update_lock = NoThread)
  /\ lastMode \in 0..2 \union {None}
  /\ lastDuty \in 0..255 \union {None}
  /\ lastMap \in TempMap \union {None}

Quiet == update_lock = NoThread

(***************************************************************************)
(* Whenever the cache is marked valid and no handler is between two        *)
(* writes, it agrees with the registers that only the driver changes: no   *)
(* sequence of handlers, refreshes and aborted writes leaves struct        *)
(* it87_data describing another mode, or other trip points, than the       *)
(* chip's.  set_pwm_enable computes the next control byte from this cache. *)
(***************************************************************************)
CacheMatchesChip ==
  valid /\ Quiet =>
    /\ pwm_ctrl = ctrlReg
    /\ fan_main_ctrl = smart
    /\ HasAutoPwm => auto_temp = pointReg

\* The chip is in the mode pwmN_enable stands for: 1 manual, 2 automatic.
InMode(m) == (ctrlReg.auto <=> m = 2) /\ smart

\* The fan runs at full speed, whatever the control registers say.
FullSpeed ==
  IF OnOff THEN ~smart /\ forced ELSE ~ctrlReg.auto /\ dutyReg = 255

(***************************************************************************)
(* Once set_pwm_enable has returned, the chip is in the mode it was asked  *)
(* for and stays there until the next set_pwm_enable, whatever other       *)
(* handlers of the channel do meanwhile.  Full speed is included where the *)
(* chip has the on/off mode.                                               *)
(***************************************************************************)
ModeHolds ==
  Quiet /\ lastMode # None =>
    \/ lastMode = 0 /\ ~OnOff
    \/ lastMode = 0 /\ FullSpeed
    \/ lastMode # 0 /\ InMode(lastMode)

(***************************************************************************)
(* Up to the IT8720F the duty cycle and the temperature map share bits     *)
(* 6-0 of one register, "and we want to preserve settings on mode changes" *)
(* (it87ts.c:735): the duty cycle set last is the one in force whenever    *)
(* the channel is in manual mode, also when it was set in automatic mode.  *)
(***************************************************************************)
DutySurvivesModeChanges ==
  Quiet /\ ~Newer /\ lastDuty # None /\ ~ctrlReg.auto => ctrlReg.low = lastDuty

(***************************************************************************)
(* The driver takes a channel out of SmartGuardian mode only when the fan  *)
(* is already forced on, so it never stops between two register writes     *)
(* (it87ts.c:1618, "make sure the fan is on when in on/off mode").         *)
(***************************************************************************)
NeverSwitchedOff == [][smart /\ ~smart' => forced]_vars

(***************************************************************************)
(* set_pwm_enable with 0 means full speed on every chip: "No on/off mode,  *)
(* set maximum pwm value" (it87ts.c:1628).  It writes the duty cycle       *)
(* before it leaves automatic mode, where that register is read-only.      *)
(***************************************************************************)
FullSpeedReached == Quiet /\ lastMode = 0 => FullSpeed

(***************************************************************************)
(* A temperature map set in manual mode is "just store[d] for later use"   *)
(* (it87ts.c:1796): it is the map in force once the channel is in          *)
(* automatic mode.                                                         *)
(***************************************************************************)
StoredMapIsUsed ==
  Quiet /\ ctrlReg.auto /\ lastMap # None => ctrlReg.low % 4 = lastMap
-----------------------------------------------------------------------------
(* The inductive invariant of the proofs                                   *)

Write ==
  [reg : {"pwm"}, val : CtrlByte] \union [reg : {"duty"}, val : 0..255]
    \union [reg : {"main", "fan_ctl"}, val : BOOLEAN]
    \union [reg : {"point"}, val : [Point -> Temp]]

\* What register r will hold, now v, when todo is done
Final(r, v) ==
  IF Len(todo) = 2 /\ todo[2].reg = r THEN todo[2].val
  ELSE IF Len(todo) > 0 /\ todo[1].reg = r THEN todo[1].val
  ELSE v

FinalCtrl == Final("pwm", ctrlReg)
FinalSmart == Final("main", smart)
FinalForced == Final("fan_ctl", forced)
FinalPoint == Final("point", pointReg)

TodoInv == todo \in Seq(Write)

CacheInv ==
  /\ fan_main_ctrl = FinalSmart
  /\ valid => /\ pwm_ctrl = FinalCtrl
              /\ HasAutoPwm => auto_temp = FinalPoint

ModeInv ==
  /\ OnOff \/ FinalSmart
  /\ lastMode \in {1, 2} => (FinalCtrl.auto <=> lastMode = 2) /\ FinalSmart
  /\ lastMode = 0 /\ OnOff => ~FinalSmart /\ FinalForced

\* The fan is forced on before its channel leaves SmartGuardian mode.
ForcedInv ==
  \A i \in DOMAIN todo :
    /\ todo[i].reg = "fan_ctl" => todo[i].val
    /\ todo[i].reg = "main" /\ ~todo[i].val =>
         forced \/ (i = 2 /\ todo[1].reg = "fan_ctl")

DutyInv ==
  ~Newer /\ lastDuty # None =>
    pwm_duty = lastDuty /\ (~FinalCtrl.auto => FinalCtrl.low = lastDuty)

IInv == TypeOK /\ TodoInv /\ CacheInv /\ ModeInv /\ ForcedInv /\ DutyInv
=============================================================================
