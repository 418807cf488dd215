---------------------------- MODULE It87PwmProofs ---------------------------
(***************************************************************************)
(* Proofs about It87Pwm: its types and its safety properties, for any      *)
(* number of threads, any of the chips' channels and any values.           *)
(*                                                                         *)
(* A handler changes the cache at once and the registers one by one, so    *)
(* the invariant speaks of what the registers will hold when the writes    *)
(* still to do are done (Final): that is what the cache describes, and     *)
(* what has the mode, the trip points and the duty cycle asked for.        *)
(***************************************************************************)
EXTENDS It87Pwm, SequenceTheorems, TLAPS

LEMMA CtrlFacts ==
  ASSUME NEW c \in CtrlByte
  PROVE  c.auto \in BOOLEAN /\ c.low \in 0..127
  BY DEF CtrlByte, Low

LEMMA WithMapType ==
  ASSUME NEW c \in CtrlByte, NEW m \in 0..5
  PROVE  WithMap(c, m) \in 0..127
<1> DEFINE low == c.low
           keep == low - (low % 4)
<1>1. low \in 0..127
  BY CtrlFacts
<1> HIDE DEF low
<1>2. keep \in 0..124 /\ keep % 4 = 0
  BY <1>1
<1> HIDE DEF keep
<1>3. (keep \div 4) % 2 = 0 => keep <= 120
  BY <1>2
<1>4. m % 4 \in 0..3 /\ (m >= 4 => m % 4 <= 1)
  OBVIOUS
<1>5. keep + (m % 4) + (IF m >= 4 /\ (keep \div 4) % 2 = 0 THEN 4 ELSE 0) \in 0..127
  BY <1>2, <1>3, <1>4
<1> QED BY <1>5 DEF WithMap, keep, low

LEMMA CtrlTypes ==
  ASSUME TypeOK
  PROVE  /\ ManualCtrl \in CtrlByte /\ AutoCtrl \in CtrlByte
         /\ \A d \in 0..127 : Manual(d) \in CtrlByte
         /\ Manual(WithMap(pwm_ctrl, pwm_temp_map)) \in CtrlByte
         /\ ManualCtrl.auto = FALSE /\ AutoCtrl.auto = TRUE
<1>1. WithMap(pwm_ctrl, pwm_temp_map) \in 0..127
  BY WithMapType DEF TypeOK
<1>2. ~Newer => pwm_duty \in 0..127
  BY DEF TypeOK, Low
<1> QED BY <1>1, <1>2 DEF ManualCtrl, AutoCtrl, Manual, CtrlByte, Low

\* What it87_update_pwm_ctrl reads
LEMMA RefreshedType ==
  ASSUME TypeOK
  PROVE  /\ Refreshed.ctrl = ctrlReg
         /\ Refreshed.duty \in 0..255
         /\ ~Newer => Refreshed.duty \in 0..127
         /\ ~Newer => Refreshed.duty = (IF ctrlReg.auto THEN pwm_duty ELSE ctrlReg.low)
         /\ Refreshed.map \in 0..5
         /\ Refreshed.points \in [Point -> Temp]
         /\ HasAutoPwm => Refreshed.points = pointReg
<1>1. ctrlReg.low \in 0..127
  BY CtrlFacts DEF TypeOK
<1>2. ctrlReg.low % 4 \in 0..5
  BY <1>1
<1> QED BY <1>1, <1>2 DEF Refreshed, TypeOK, Low
-----------------------------------------------------------------------------
(* Register writes                                                         *)

LEMMA WriteFacts ==
  ASSUME NEW w \in Write
  PROVE  /\ w.reg \in {"pwm", "duty", "main", "fan_ctl", "point"}
         /\ w.reg = "pwm" => w.val \in CtrlByte
         /\ w.reg = "duty" => w.val \in 0..255
         /\ w.reg \in {"main", "fan_ctl"} => w.val \in BOOLEAN
         /\ w.reg = "point" => w.val \in [Point -> Temp]
  BY DEF Write

\* todo after its first write
LEMMA TodoStep ==
  ASSUME TypeOK, TodoInv, DoWrite
  PROVE  /\ Head(todo) = todo[1] /\ todo[1] \in Write
         /\ todo' \in Seq(Write)
         /\ \/ Len(todo) = 1 /\ todo' = <<>> /\ update_lock' = NoThread
            \/ /\ Len(todo) = 2 /\ Len(todo') = 1 /\ todo'[1] = todo[2]
               /\ todo[2] \in Write /\ update_lock' = update_lock
<1>1. todo # <<>> /\ todo' = Tail(todo)
  BY DEF TypeOK, DoWrite
<1>2. Len(todo) \in 1..2
  BY <1>1, EmptySeq DEF TypeOK, TodoInv
<1>3. /\ Head(todo) = todo[1] /\ todo[1] \in Write
      /\ Tail(todo) \in Seq(Write) /\ Len(Tail(todo)) = Len(todo) - 1
      /\ Len(todo) = 2 => Tail(todo)[1] = todo[2] /\ todo[2] \in Write
  BY <1>1, <1>2, HeadTailProperties, ElementOfSeq DEF TodoInv
<1>4. Len(todo) = 1 => todo' = <<>>
  BY <1>1, <1>3, EmptySeq
<1> QED BY <1>1, <1>2, <1>3, <1>4 DEF DoWrite

\* A register write leaves what the registers will hold in the end.
LEMMA FinalStep ==
  ASSUME TypeOK, TodoInv, DoWrite
  PROVE  /\ FinalCtrl' = FinalCtrl /\ FinalPoint' = FinalPoint
         /\ FinalSmart' = FinalSmart /\ FinalForced' = FinalForced
<1>1. WriteReg(todo[1])
  BY TodoStep DEF DoWrite
<1>2. CASE Len(todo) = 1 /\ todo' = <<>>
  BY <1>1, <1>2 DEF WriteReg, Final, FinalCtrl, FinalPoint, FinalSmart, FinalForced
<1>3. CASE Len(todo) = 2 /\ Len(todo') = 1 /\ todo'[1] = todo[2]
  BY <1>1, <1>3 DEF WriteReg, Final, FinalCtrl, FinalPoint, FinalSmart, FinalForced
<1> QED BY <1>2, <1>3, TodoStep

\* With nothing to do the registers hold it already.
LEMMA FinalQuiet ==
  ASSUME todo = <<>>
  PROVE  /\ FinalCtrl = ctrlReg /\ FinalPoint = pointReg
         /\ FinalSmart = smart /\ FinalForced = forced
  BY DEF Final, FinalCtrl, FinalPoint, FinalSmart, FinalForced
-----------------------------------------------------------------------------
(* A locked handler: what Lock(t, writes) establishes                      *)

LEMMA LockStep ==
  ASSUME IInv, NEW t \in Thread, NEW writes \in Seq(Write), Len(writes) \in 0..2,
         Lock(t, writes)
  PROVE  /\ todo = <<>> /\ todo' = writes
         /\ update_lock' \in Thread \union {NoThread}
         /\ Len(todo') \in 0..2 /\ (todo' = <<>> <=> update_lock' = NoThread)
         /\ UNCHANGED <<ch, ctrlReg, dutyReg, smart, forced, pointReg, valid, recent>>
  BY NoThreadAssumption DEF Lock, IInv, TypeOK, registers, stamp

\* What is left to do after it, with none, one or two writes
LockDone(t) ==
  /\ todo = <<>> /\ todo' \in Seq(Write) /\ Len(todo') \in 0..2
  /\ update_lock' \in Thread \union {NoThread}
  /\ todo' = <<>> <=> update_lock' = NoThread
  /\ UNCHANGED <<ch, ctrlReg, dutyReg, smart, forced, pointReg, valid, recent>>

LEMMA LockNone ==
  ASSUME IInv, NEW t \in Thread, Lock(t, <<>>)
  PROVE  LockDone(t) /\ Len(todo') = 0
<1> DEFINE writes == <<>>
<1>1. writes \in Seq(Write) /\ Len(writes) = 0
  OBVIOUS
<1>2. Lock(t, writes)
  OBVIOUS
<1> HIDE DEF writes
<1>3. /\ todo = <<>> /\ todo' = writes
      /\ update_lock' \in Thread \union {NoThread}
      /\ Len(todo') \in 0..2 /\ (todo' = <<>> <=> update_lock' = NoThread)
      /\ UNCHANGED <<ch, ctrlReg, dutyReg, smart, forced, pointReg, valid, recent>>
  <2>1. Len(writes) \in 0..2
    BY <1>1
  <2> QED BY <1>1, <1>2, <2>1, LockStep
<1> QED BY <1>1, <1>3 DEF LockDone

LEMMA LockOne ==
  ASSUME IInv, NEW t \in Thread, NEW a \in Write, Lock(t, <<a>>)
  PROVE  LockDone(t) /\ Len(todo') = 1 /\ todo'[1] = a
<1> DEFINE writes == <<a>>
<1>1. writes \in Seq(Write) /\ Len(writes) = 1 /\ writes[1] = a
  OBVIOUS
<1>2. Lock(t, writes)
  OBVIOUS
<1> HIDE DEF writes
<1> QED BY <1>1, <1>2, LockStep DEF LockDone

LEMMA LockTwo ==
  ASSUME IInv, NEW t \in Thread, NEW a \in Write, NEW b \in Write, Lock(t, <<a, b>>)
  PROVE  LockDone(t) /\ Len(todo') = 2 /\ todo'[1] = a /\ todo'[2] = b
<1> DEFINE writes == <<a, b>>
<1>1. writes \in Seq(Write) /\ Len(writes) = 2 /\ writes[1] = a /\ writes[2] = b
  OBVIOUS
<1>2. Lock(t, writes)
  OBVIOUS
<1> HIDE DEF writes
<1> QED BY <1>1, <1>2, LockStep DEF LockDone

LEMMA WriteTypes ==
  /\ \A v \in CtrlByte : [reg |-> "pwm", val |-> v] \in Write
  /\ \A v \in 0..255 : [reg |-> "duty", val |-> v] \in Write
  /\ \A v \in BOOLEAN : [reg |-> "main", val |-> v] \in Write
  /\ \A v \in BOOLEAN : [reg |-> "fan_ctl", val |-> v] \in Write
  /\ \A v \in [Point -> Temp] : [reg |-> "point", val |-> v] \in Write
  BY DEF Write
-----------------------------------------------------------------------------
(* The handlers                                                            *)

LEMMA FullSpeedOnOffStep ==
  ASSUME IInv, NEW t \in Thread, SetFullSpeedOnOff(t)
  PROVE  IInv'
<1> TypeOK /\ TodoInv /\ CacheInv /\ ModeInv /\ ForcedInv /\ DutyInv
  BY DEF IInv
<1>1. /\ LockDone(t) /\ Len(todo') = 2
      /\ todo'[1] = [reg |-> "fan_ctl", val |-> TRUE]
      /\ todo'[2] = [reg |-> "main", val |-> FALSE]
  BY WriteTypes, LockTwo DEF SetFullSpeedOnOff, FullSpeedOnOff
<1>2. /\ fan_main_ctrl' = FALSE /\ lastMode' = 0 /\ OnOff
      /\ UNCHANGED <<pwm_ctrl, pwm_duty, pwm_temp_map, auto_temp, checked, lastDuty, lastMap>>
  BY DEF SetFullSpeedOnOff
<1>3. TypeOK' /\ TodoInv'
  <2>1. fan_main_ctrl' \in BOOLEAN /\ lastMode' \in 0..2 \union {None}
    <3>1. fan_main_ctrl' \in BOOLEAN
      BY <1>2, Zenon
    <3>2. lastMode' \in 0..2 \union {None}
      BY <1>2
    <3> QED BY <3>1, <3>2
  <2>2. UNCHANGED <<pwm_ctrl, pwm_duty, pwm_temp_map, auto_temp, checked, lastDuty, lastMap>>
    BY <1>2
  <2> QED BY <1>1, <2>1, <2>2 DEF LockDone, TypeOK, TodoInv, Newer
<1>4. /\ FinalCtrl' = ctrlReg /\ FinalPoint' = pointReg
      /\ FinalSmart' = FALSE /\ FinalForced' = TRUE
  BY <1>1 DEF LockDone, Final, FinalCtrl, FinalPoint, FinalSmart, FinalForced
<1>5. CacheInv'
  BY <1>1, <1>2, <1>4, FinalQuiet DEF LockDone, CacheInv, HasAutoPwm
<1>6. ModeInv' /\ DutyInv'
  BY <1>1, <1>2, <1>4, FinalQuiet DEF LockDone, ModeInv, DutyInv, OnOff, Newer
<1>7. ForcedInv'
  BY <1>1 DEF LockDone, ForcedInv
<1> QED BY <1>3, <1>5, <1>6, <1>7 DEF IInv

LEMMA FullSpeedPwmStep ==
  ASSUME IInv, NEW t \in Thread, SetFullSpeedPwm(t)
  PROVE  IInv'
<1> TypeOK /\ TodoInv /\ CacheInv /\ ModeInv /\ ForcedInv /\ DutyInv
  BY DEF IInv
<1>1. ~OnOff /\ Newer
  BY ChannelAssumption DEF SetFullSpeedPwm, OnOff, Newer, TypeOK
<1>2. pwm_duty' \in 0..255
  BY <1>1 DEF SetFullSpeedPwm, pwm_to_reg
<1>3. pwm_ctrl' \in CtrlByte
  BY CtrlTypes DEF SetFullSpeedPwm
<1>4. /\ LockDone(t) /\ Len(todo') = 2
      /\ todo'[1] = [reg |-> "duty", val |-> pwm_duty']
      /\ todo'[2] = [reg |-> "pwm", val |-> pwm_ctrl']
  <2>1. /\ [reg |-> "duty", val |-> pwm_duty'] \in Write
        /\ [reg |-> "pwm", val |-> pwm_ctrl'] \in Write
    BY <1>2, <1>3, WriteTypes
  <2>2. Lock(t, <<[reg |-> "duty", val |-> pwm_duty'], [reg |-> "pwm", val |-> pwm_ctrl']>>)
    BY DEF SetFullSpeedPwm
  <2> QED BY <2>1, <2>2, LockTwo
<1>5. /\ lastMode' = 0
      /\ UNCHANGED <<pwm_temp_map, fan_main_ctrl, auto_temp, checked, lastDuty, lastMap>>
  BY DEF SetFullSpeedPwm
<1>6. TypeOK' /\ TodoInv'
  BY <1>1, <1>2, <1>3, <1>4, <1>5 DEF LockDone, TypeOK, TodoInv, Newer
<1>7. /\ FinalCtrl' = pwm_ctrl' /\ FinalPoint' = pointReg
      /\ FinalSmart' = smart /\ FinalForced' = forced
  BY <1>4 DEF LockDone, Final, FinalCtrl, FinalPoint, FinalSmart, FinalForced
<1>8. CacheInv'
  BY <1>4, <1>5, <1>7, FinalQuiet DEF LockDone, CacheInv, HasAutoPwm
<1>9. ModeInv' /\ DutyInv'
  BY <1>1, <1>4, <1>5, <1>7, FinalQuiet DEF LockDone, ModeInv, DutyInv, OnOff, Newer
<1>10. ForcedInv'
  BY <1>4 DEF LockDone, ForcedInv
<1> QED BY <1>6, <1>8, <1>9, <1>10 DEF IInv

\* set_pwm_enable with 1 or 2
LEMMA SetModeStep ==
  ASSUME IInv, NEW t \in Thread, NEW c \in CtrlByte, NEW mode \in {1, 2},
         c.auto <=> mode = 2,
         ~Newer /\ ~c.auto => c.low = pwm_duty,
         SetMode(t, c, mode), checked' \subseteq Thread
  PROVE  IInv'
<1> TypeOK /\ TodoInv /\ CacheInv /\ ModeInv /\ ForcedInv /\ DutyInv
  BY DEF IInv
<1>1. /\ LockDone(t)
      /\ Len(todo') = IF OnOff THEN 2 ELSE 1
      /\ todo'[1] = [reg |-> "pwm", val |-> c]
      /\ OnOff => todo'[2] = [reg |-> "main", val |-> TRUE]
  <2>1. CASE OnOff
    <3>1. Lock(t, <<[reg |-> "pwm", val |-> c], [reg |-> "main", val |-> TRUE]>>)
      BY <2>1 DEF SetMode, ModeWrites
    <3> QED BY <2>1, <3>1, WriteTypes, LockTwo
  <2>2. CASE ~OnOff
    <3>1. Lock(t, <<[reg |-> "pwm", val |-> c]>>)
      BY <2>2 DEF SetMode, ModeWrites
    <3> QED BY <2>2, <3>1, WriteTypes, LockOne
  <2> QED BY <2>1, <2>2
<1>2. /\ pwm_ctrl' = c /\ fan_main_ctrl' = (fan_main_ctrl \/ OnOff) /\ lastMode' = mode
      /\ UNCHANGED <<pwm_duty, pwm_temp_map, auto_temp, lastDuty, lastMap>>
  BY DEF SetMode
<1>3. OnOff \in BOOLEAN
  BY ChannelAssumption DEF OnOff, TypeOK
<1>4. TypeOK' /\ TodoInv'
  BY <1>1, <1>2, <1>3 DEF LockDone, TypeOK, TodoInv, Newer
<1>5. /\ FinalCtrl' = c /\ FinalPoint' = pointReg
      /\ FinalSmart' = (IF OnOff THEN TRUE ELSE smart) /\ FinalForced' = forced
  <2>1. CASE OnOff
    <3>1. /\ Len(todo') = 2 /\ todo'[1] = [reg |-> "pwm", val |-> c]
          /\ todo'[2] = [reg |-> "main", val |-> TRUE]
      BY <1>1, <2>1
    <3>2. FinalCtrl' = c /\ FinalPoint' = pointReg /\ FinalForced' = forced
      BY <1>1, <3>1 DEF LockDone, Final, FinalCtrl, FinalPoint, FinalForced
    <3>3. FinalSmart' = TRUE
      BY <3>1 DEF Final, FinalSmart
    <3> QED BY <2>1, <3>2, <3>3, Zenon
  <2>2. CASE ~OnOff
    BY <1>1, <2>2 DEF LockDone, Final, FinalCtrl, FinalPoint, FinalSmart, FinalForced
  <2> QED BY <2>1, <2>2
<1>6. CacheInv'
  BY <1>1, <1>2, <1>3, <1>5, FinalQuiet DEF LockDone, CacheInv, HasAutoPwm, TypeOK
<1>7. ModeInv' /\ DutyInv'
  BY <1>1, <1>2, <1>5, FinalQuiet DEF LockDone, ModeInv, DutyInv, OnOff, Newer
<1>8. ForcedInv'
  BY <1>1 DEF LockDone, ForcedInv
<1> QED BY <1>4, <1>6, <1>7, <1>8 DEF IInv

LEMMA SetManualStep ==
  ASSUME IInv, NEW t \in Thread, SetManual(t)
  PROVE  IInv'
<1>1. /\ ManualCtrl \in CtrlByte /\ ~ManualCtrl.auto
      /\ ~Newer => ManualCtrl.low = pwm_duty
  BY CtrlTypes DEF IInv, ManualCtrl, Manual
<1>2. SetMode(t, ManualCtrl, 1) /\ checked' \subseteq Thread
  BY DEF SetManual, IInv, TypeOK
<1> QED BY <1>1, <1>2, SetModeStep

LEMMA SetAutoStep ==
  ASSUME IInv, NEW t \in Thread, SetAuto(t)
  PROVE  IInv'
<1>1. AutoCtrl \in CtrlByte /\ AutoCtrl.auto
  BY CtrlTypes DEF IInv, AutoCtrl
<1>2. SetMode(t, AutoCtrl, 2) /\ checked' \subseteq Thread
  BY DEF SetAuto, IInv, TypeOK
<1> QED BY <1>1, <1>2, SetModeStep

\* What set_pwm and set_pwm_temp_map read and change has one form: at most one
\* write, of the duty cycle or of a control byte in the same mode.
LEMMA SettingStep ==
  ASSUME IInv, NEW t \in Thread, LockDone(t),
         pwm_ctrl' \in CtrlByte, pwm_ctrl'.auto <=> ctrlReg.auto,
         pwm_duty' \in 0..255, ~Newer => pwm_duty' \in 0..127,
         pwm_temp_map' \in 0..5, auto_temp' = Refreshed.points,
         UNCHANGED <<fan_main_ctrl, checked, lastMode>>,
         lastDuty' \in 0..255 \union {None}, lastMap' \in TempMap \union {None},
         ~Newer /\ lastDuty' # None =>
           pwm_duty' = lastDuty' /\ (~ctrlReg.auto => pwm_ctrl'.low = lastDuty'),
         \/ Len(todo') = 0 /\ pwm_ctrl' = ctrlReg
         \/ Len(todo') = 1 /\ todo'[1].reg = "duty" /\ pwm_ctrl' = ctrlReg
         \/ Len(todo') = 1 /\ todo'[1] = [reg |-> "pwm", val |-> pwm_ctrl']
  PROVE  IInv'
<1> TypeOK /\ TodoInv /\ CacheInv /\ ModeInv /\ ForcedInv /\ DutyInv
  BY DEF IInv
<1>1. auto_temp' \in [Point -> Temp] /\ (HasAutoPwm => auto_temp' = pointReg)
  BY RefreshedType
<1>2. TypeOK' /\ TodoInv'
  BY <1>1 DEF LockDone, TypeOK, TodoInv, Newer, Low
<1>3. /\ FinalCtrl' = pwm_ctrl' /\ FinalPoint' = pointReg
      /\ FinalSmart' = smart /\ FinalForced' = forced
  BY DEF LockDone, Final, FinalCtrl, FinalPoint, FinalSmart, FinalForced
<1>4. CacheInv'
  BY <1>1, <1>3, FinalQuiet DEF LockDone, CacheInv, HasAutoPwm
<1>5. ModeInv' /\ DutyInv'
  BY <1>3, FinalQuiet DEF LockDone, ModeInv, DutyInv, OnOff, Newer
<1>6. ForcedInv'
  BY DEF LockDone, ForcedInv
<1> QED BY <1>2, <1>4, <1>5, <1>6 DEF IInv

LEMMA SetPwmStep ==
  ASSUME IInv, NEW t \in Thread, NEW v \in Pwm, SetPwm(t, v)
  PROVE  IInv'
<1> TypeOK /\ TodoInv /\ CacheInv /\ ModeInv /\ ForcedInv /\ DutyInv
  BY DEF IInv
<1>1. /\ ctrlReg \in CtrlByte /\ v \in 0..255
      /\ pwm_to_reg(v) \in 0..255 /\ (~Newer => pwm_to_reg(v) \in 0..127)
  <2>1. ctrlReg \in CtrlByte
    BY DEF TypeOK
  <2>2. v \in 0..255
    BY PwmAssumption
  <2>3. pwm_to_reg(v) \in 0..255 /\ (~Newer => pwm_to_reg(v) \in 0..127)
    BY <2>2 DEF pwm_to_reg
  <2> QED BY <2>1, <2>2, <2>3
<1>2. /\ pwm_temp_map' \in 0..5 /\ auto_temp' = Refreshed.points
      /\ UNCHANGED <<fan_main_ctrl, checked, lastMode, lastMap>>
      /\ lastMap' \in TempMap \union {None}
  BY RefreshedType DEF SetPwm, TypeOK
<1>3. CASE Newer /\ ctrlReg.auto
  <2>1. /\ Lock(t, <<>>) /\ pwm_ctrl' = ctrlReg /\ pwm_duty' = Refreshed.duty
        /\ lastDuty' = lastDuty
    BY <1>3 DEF SetPwm
  <2>2. LockDone(t) /\ Len(todo') = 0
    BY <2>1, LockNone
  <2>3. pwm_duty' \in 0..255 /\ lastDuty' \in 0..255 \union {None}
    BY <2>1, RefreshedType DEF TypeOK
  <2> QED BY <1>1, <1>2, <1>3, <2>1, <2>2, <2>3, SettingStep
<1>4. CASE ~(Newer /\ ctrlReg.auto)
  <2>1. /\ pwm_duty' = pwm_to_reg(v) /\ lastDuty' = pwm_duty'
        /\ pwm_ctrl' = IF Newer \/ ctrlReg.auto THEN ctrlReg ELSE Manual(pwm_duty')
        /\ Lock(t, IF Newer THEN <<[reg |-> "duty", val |-> pwm_duty']>>
                   ELSE IF ctrlReg.auto THEN <<>>
                   ELSE <<[reg |-> "pwm", val |-> pwm_ctrl']>>)
    BY <1>4 DEF SetPwm
  <2>2. /\ pwm_duty' \in 0..255 /\ (~Newer => pwm_duty' \in 0..127)
        /\ lastDuty' \in 0..255 \union {None}
    BY <1>1, <2>1
  <2>3. CASE Newer
    <3>1. [reg |-> "duty", val |-> pwm_duty'] \in Write
      BY <2>2, WriteTypes
    <3>2. LockDone(t) /\ Len(todo') = 1 /\ todo'[1] = [reg |-> "duty", val |-> pwm_duty']
      BY <2>1, <2>3, <3>1, LockOne
    <3> QED BY <1>1, <1>2, <2>1, <2>2, <2>3, <3>2, SettingStep
  <2>4. CASE ~Newer /\ ctrlReg.auto
    <3>1. LockDone(t) /\ Len(todo') = 0
      BY <2>1, <2>4, LockNone
    <3> QED BY <1>1, <1>2, <2>1, <2>2, <2>4, <3>1, SettingStep
  <2>5. CASE ~Newer /\ ~ctrlReg.auto
    <3>1. pwm_ctrl' \in CtrlByte /\ ~pwm_ctrl'.auto /\ pwm_ctrl'.low = pwm_duty'
      BY <2>1, <2>2, <2>5, CtrlTypes DEF Manual
    <3>2. LockDone(t) /\ Len(todo') = 1 /\ todo'[1] = [reg |-> "pwm", val |-> pwm_ctrl']
      BY <2>1, <2>5, <3>1, WriteTypes, LockOne
    <3> QED BY <1>2, <2>1, <2>2, <2>5, <3>1, <3>2, SettingStep
  <2> QED BY <2>3, <2>4, <2>5
<1> QED BY <1>3, <1>4

LEMMA SetTempMapStep ==
  ASSUME IInv, NEW t \in Thread, NEW m \in TempMap, SetTempMap(t, m)
  PROVE  IInv'
<1> TypeOK /\ TodoInv /\ CacheInv /\ ModeInv /\ ForcedInv /\ DutyInv
  BY DEF IInv
<1>1. ctrlReg \in CtrlByte /\ m \in 0..2 /\ ctrlReg.low \in 0..127
  BY CtrlFacts DEF TypeOK, TempMap
<1>2. /\ pwm_duty' = Refreshed.duty /\ auto_temp' = Refreshed.points /\ pwm_temp_map' = m
      /\ pwm_ctrl' = IF ctrlReg.auto THEN [ctrlReg EXCEPT !.low = @ - (@ % 4) + m] ELSE ctrlReg
      /\ Lock(t, IF ctrlReg.auto THEN <<[reg |-> "pwm", val |-> pwm_ctrl']>> ELSE <<>>)
      /\ lastMap' = m
      /\ UNCHANGED <<fan_main_ctrl, checked, lastMode, lastDuty>>
  BY DEF SetTempMap
<1>3. /\ pwm_duty' \in 0..255 /\ (~Newer => pwm_duty' \in 0..127)
      /\ lastDuty' \in 0..255 \union {None} /\ lastMap' \in TempMap \union {None}
      /\ pwm_temp_map' \in 0..5
  BY <1>1, <1>2, RefreshedType DEF TypeOK
<1>4. ~Newer /\ lastDuty # None =>
        pwm_duty' = lastDuty /\ (~ctrlReg.auto => ctrlReg.low = lastDuty)
  <2>1. todo = <<>>
    BY <1>2, WriteTypes DEF Lock, TypeOK
  <2> QED BY <1>2, <2>1, FinalQuiet, RefreshedType DEF DutyInv
<1>5. CASE ctrlReg.auto
  <2>1. ctrlReg.low - (ctrlReg.low % 4) + m \in 0..127
    BY <1>1
  <2>2. pwm_ctrl' \in CtrlByte /\ pwm_ctrl'.auto
    BY <1>1, <1>2, <1>5, <2>1 DEF CtrlByte, Low
  <2>3. LockDone(t) /\ Len(todo') = 1 /\ todo'[1] = [reg |-> "pwm", val |-> pwm_ctrl']
    BY <1>2, <1>5, <2>2, WriteTypes, LockOne
  <2> QED BY <1>2, <1>3, <1>4, <1>5, <2>2, <2>3, SettingStep
<1>6. CASE ~ctrlReg.auto
  <2>1. LockDone(t) /\ Len(todo') = 0
    BY <1>2, <1>6, LockNone
  <2> QED BY <1>1, <1>2, <1>3, <1>4, <1>6, <2>1, SettingStep
<1> QED BY <1>5, <1>6

LEMMA SetAutoTempStep ==
  ASSUME IInv, NEW t \in Thread, NEW i \in Point, NEW v \in Temp, SetAutoTemp(t, i, v)
  PROVE  IInv'
<1> TypeOK /\ TodoInv /\ CacheInv /\ ModeInv /\ ForcedInv /\ DutyInv
  BY DEF IInv
<1> DEFINE points == [pointReg EXCEPT ![i] = v]
<1>1. /\ points \in [Point -> Temp] /\ auto_temp' \in [Point -> Temp]
      /\ auto_temp' = [auto_temp EXCEPT ![i] = v]
      /\ Lock(t, <<[reg |-> "point", val |-> points]>>)
      /\ UNCHANGED <<pwm_ctrl, pwm_duty, pwm_temp_map, fan_main_ctrl, checked, lastMode, lastDuty, lastMap>>
  BY DEF SetAutoTemp, TypeOK, asked
<1>2. LockDone(t) /\ Len(todo') = 1 /\ todo'[1] = [reg |-> "point", val |-> points]
  BY <1>1, WriteTypes, LockOne
<1>3. TypeOK' /\ TodoInv'
  BY <1>1, <1>2 DEF LockDone, TypeOK, TodoInv, Newer
<1>4. /\ FinalCtrl' = ctrlReg /\ FinalPoint' = points
      /\ FinalSmart' = smart /\ FinalForced' = forced
  BY <1>2 DEF LockDone, Final, FinalCtrl, FinalPoint, FinalSmart, FinalForced
<1>5. CacheInv'
  BY <1>1, <1>2, <1>4, FinalQuiet DEF LockDone, CacheInv, HasAutoPwm
<1>6. ModeInv' /\ DutyInv'
  BY <1>1, <1>2, <1>4, FinalQuiet DEF LockDone, ModeInv, DutyInv, OnOff, Newer
<1>7. ForcedInv'
  BY <1>2 DEF LockDone, ForcedInv
<1> QED BY <1>3, <1>5, <1>6, <1>7 DEF IInv
-----------------------------------------------------------------------------
(* The other actions                                                       *)

LEMMA InitIInv == Init => IInv
<1> SUFFICES ASSUME Init PROVE IInv
  OBVIOUS
<1>1. ch \in Channel /\ ch.nr \in 0..5
  BY ChannelAssumption DEF Init
<1>2. ctrlReg \in CtrlByte /\ dutyReg \in 0..255
  BY CtrlAssumption, PwmAssumption DEF Init, CtrlByte, Low
<1>3. pwm_ctrl \in CtrlByte
  BY DEF Init, Manual, CtrlByte, Low
<1>4. auto_temp \in [Point -> Temp]
  BY TempAssumption DEF Init
<1>5. TypeOK
  <2>1. update_lock \in Thread \union {NoThread} /\ checked \subseteq Thread
    BY DEF Init
  <2>2. Len(todo) \in 0..2 /\ (todo = <<>> <=> update_lock = NoThread)
    BY DEF Init
  <2>3. pwm_duty \in 0..255 /\ (~Newer => pwm_duty \in Low) /\ pwm_temp_map \in 0..5
    BY <1>1 DEF Init, Low
  <2>4. smart \in BOOLEAN /\ forced \in BOOLEAN /\ fan_main_ctrl \in BOOLEAN
    BY DEF Init
  <2>5. valid \in BOOLEAN /\ recent \in BOOLEAN
    BY Zenon DEF Init
  <2>6. /\ lastMode \in 0..2 \union {None} /\ lastDuty \in 0..255 \union {None}
        /\ lastMap \in TempMap \union {None}
    BY DEF Init
  <2>7. pointReg \in [Point -> Temp]
    BY DEF Init
  <2> QED BY <1>1, <1>2, <1>3, <1>4, <2>1, <2>2, <2>3, <2>4, <2>5, <2>6, <2>7 DEF TypeOK
<1>6. TodoInv /\ todo = <<>>
  BY DEF Init, TodoInv
<1>7. CacheInv
  BY <1>6, FinalQuiet DEF Init, CacheInv
<1>8. ModeInv /\ DutyInv
  <2>1. lastMode \notin 0..2 /\ lastDuty = None
    BY NoneAssumption DEF Init
  <2>2. OnOff \/ FinalSmart
    BY <1>6, FinalQuiet DEF Init
  <2> QED BY <2>1, <2>2 DEF ModeInv, DutyInv
<1>9. ForcedInv
  BY <1>6 DEF ForcedInv
<1> QED BY <1>5, <1>6, <1>7, <1>8, <1>9 DEF IInv

LEMMA CheckTripPointsStep ==
  ASSUME IInv, NEW t \in Thread, CheckTripPoints(t)
  PROVE  IInv'
<1> TypeOK /\ TodoInv /\ CacheInv /\ ModeInv /\ ForcedInv /\ DutyInv
  BY DEF IInv
<1>1. /\ checked' \subseteq Thread
      /\ UNCHANGED <<ch, ctrlReg, dutyReg, smart, forced, pointReg, pwm_ctrl, pwm_duty,
                     pwm_temp_map, fan_main_ctrl, auto_temp, valid, recent, update_lock,
                     todo, lastMode, lastDuty, lastMap>>
  BY DEF CheckTripPoints, TypeOK, registers, cache, stamp, asked
<1>2. TypeOK' /\ TodoInv'
  BY <1>1 DEF TypeOK, TodoInv, Newer
<1>3. CacheInv' /\ ModeInv' /\ ForcedInv' /\ DutyInv'
  BY <1>1 DEF CacheInv, ModeInv, ForcedInv, DutyInv, HasAutoPwm, OnOff, Newer,
              FinalCtrl, FinalSmart, FinalForced, FinalPoint, Final
<1> QED BY <1>2, <1>3 DEF IInv

\* A register write changes no promise about the end, and the write after it
\* finds the fan forced on if it takes the channel out of SmartGuardian mode.
LEMMA DoWriteStep ==
  ASSUME IInv, DoWrite
  PROVE  IInv'
<1> TypeOK /\ TodoInv /\ CacheInv /\ ModeInv /\ ForcedInv /\ DutyInv
  BY DEF IInv
<1>1. WriteReg(todo[1]) /\ todo[1] \in Write
  BY TodoStep DEF DoWrite
<1>2. UNCHANGED <<ch, pwm_ctrl, pwm_duty, pwm_temp_map, fan_main_ctrl, auto_temp, valid, recent,
                  checked, lastMode, lastDuty, lastMap>>
  BY DEF DoWrite, cache, stamp, asked
<1>3. TypeOK' /\ TodoInv'
  <2>1. ctrlReg' \in CtrlByte /\ dutyReg' \in 0..255 /\ pointReg' \in [Point -> Temp]
    BY <1>1, WriteFacts DEF WriteReg, TypeOK
  <2>2. smart' \in BOOLEAN
    BY <1>1, WriteFacts DEF WriteReg, TypeOK
  <2>3. forced' \in BOOLEAN
    BY <1>1, WriteFacts DEF WriteReg, TypeOK
  <2>4. /\ Len(todo') \in 0..2 /\ (todo' = <<>> <=> update_lock' = NoThread)
        /\ update_lock' \in Thread \union {NoThread} /\ todo' \in Seq(Write)
    <3>1. update_lock # NoThread
      BY DEF DoWrite
    <3>2. Len(<<>>) = 0
      OBVIOUS
    <3> QED BY <3>1, <3>2, TodoStep DEF TypeOK
  <2> QED BY <1>2, <2>1, <2>2, <2>3, <2>4 DEF TypeOK, TodoInv, Newer
<1>4. CacheInv' /\ ModeInv' /\ DutyInv'
  BY <1>2, FinalStep DEF CacheInv, ModeInv, DutyInv, HasAutoPwm, OnOff, Newer
<1>5. ForcedInv'
  <2>1. CASE todo' = <<>>
    BY <2>1 DEF ForcedInv
  <2>2. CASE Len(todo) = 2 /\ Len(todo') = 1 /\ todo'[1] = todo[2]
    <3>1. DOMAIN todo = 1..2 /\ DOMAIN todo' = 1..1
      BY <1>3, <2>2 DEF TodoInv
    <3>2. /\ todo[2].reg = "fan_ctl" => todo[2].val
          /\ todo[2].reg = "main" /\ ~todo[2].val => forced \/ todo[1].reg = "fan_ctl"
          /\ todo[1].reg = "fan_ctl" => todo[1].val
      BY <3>1 DEF ForcedInv
    <3>3. forced \/ todo[1].reg = "fan_ctl" => forced'
      BY <1>1, <3>2 DEF WriteReg
    <3> QED BY <2>2, <3>1, <3>2, <3>3 DEF ForcedInv
  <2> QED BY <2>1, <2>2, TodoStep
<1> QED BY <1>3, <1>4, <1>5 DEF IInv

LEMMA UpdateDeviceStep ==
  ASSUME IInv, UpdateDevice
  PROVE  IInv'
<1> TypeOK /\ TodoInv /\ CacheInv /\ ModeInv /\ ForcedInv /\ DutyInv
  BY DEF IInv
<1>1. /\ todo = <<>>
      /\ pwm_ctrl' = Refreshed.ctrl /\ pwm_duty' = Refreshed.duty
      /\ pwm_temp_map' = Refreshed.map /\ auto_temp' = Refreshed.points
      /\ fan_main_ctrl' = smart /\ valid' = TRUE /\ recent' = TRUE
      /\ UNCHANGED <<ch, ctrlReg, dutyReg, smart, forced, pointReg, update_lock, checked,
                     todo, lastMode, lastDuty, lastMap>>
  BY DEF UpdateDevice, TypeOK, registers, asked
<1>2. TypeOK' /\ TodoInv'
  <2>1. valid' \in BOOLEAN /\ recent' \in BOOLEAN
    BY <1>1, Zenon
  <2>2. /\ pwm_ctrl' \in CtrlByte /\ pwm_duty' \in 0..255 /\ (~Newer => pwm_duty' \in 0..127)
        /\ pwm_temp_map' \in 0..5 /\ auto_temp' \in [Point -> Temp]
        /\ fan_main_ctrl' \in BOOLEAN
    BY <1>1, RefreshedType DEF TypeOK
  <2>3. UNCHANGED <<ch, ctrlReg, dutyReg, smart, forced, pointReg, update_lock, checked,
                    todo, lastMode, lastDuty, lastMap>>
    BY <1>1
  <2> QED BY <2>1, <2>2, <2>3 DEF TypeOK, TodoInv, Newer, Low
<1>3. /\ FinalCtrl' = ctrlReg /\ FinalPoint' = pointReg
      /\ FinalSmart' = smart /\ FinalForced' = forced
  BY <1>1 DEF Final, FinalCtrl, FinalPoint, FinalSmart, FinalForced
<1>4. CacheInv'
  BY <1>1, <1>3, RefreshedType DEF CacheInv, HasAutoPwm
<1>5. ModeInv' /\ ForcedInv'
  BY <1>1, <1>3, FinalQuiet DEF ModeInv, ForcedInv, OnOff
<1>6. DutyInv'
  BY <1>1, <1>3, FinalQuiet, RefreshedType DEF DutyInv, Newer
<1> QED BY <1>2, <1>4, <1>5, <1>6 DEF IInv

LEMMA StampStep ==
  ASSUME IInv, CacheAges \/ Invalidate
  PROVE  IInv'
<1> TypeOK /\ TodoInv /\ CacheInv /\ ModeInv /\ ForcedInv /\ DutyInv
  BY DEF IInv
<1>1. UNCHANGED <<ch, ctrlReg, dutyReg, smart, forced, pointReg, pwm_ctrl, pwm_duty,
                  pwm_temp_map, fan_main_ctrl, auto_temp, update_lock, checked, todo,
                  lastMode, lastDuty, lastMap>>
  BY DEF CacheAges, Invalidate, registers, cache, asked
<1>2. valid' \in BOOLEAN /\ recent' \in BOOLEAN /\ (valid' => valid)
  <2> valid \in BOOLEAN /\ recent \in BOOLEAN
    BY DEF TypeOK
  <2>1. CASE CacheAges
    <3>1. recent' = FALSE /\ valid' = valid
      BY <2>1 DEF CacheAges
    <3> QED BY <3>1, Zenon
  <2>2. CASE Invalidate
    <3>1. valid' = FALSE /\ recent' = recent
      BY <2>2 DEF Invalidate
    <3> QED BY <3>1, Zenon
  <2> QED BY <2>1, <2>2
<1>3. TypeOK' /\ TodoInv'
  BY <1>1, <1>2 DEF TypeOK, TodoInv, Newer
<1>4. CacheInv' /\ ModeInv' /\ ForcedInv' /\ DutyInv'
  BY <1>1, <1>2 DEF CacheInv, ModeInv, ForcedInv, DutyInv, HasAutoPwm, OnOff, Newer,
                    FinalCtrl, FinalSmart, FinalForced, FinalPoint, Final
<1> QED BY <1>3, <1>4 DEF IInv

LEMMA ChipAdjustsStep ==
  ASSUME IInv, ChipAdjusts
  PROVE  IInv'
<1> TypeOK /\ TodoInv /\ CacheInv /\ ModeInv /\ ForcedInv /\ DutyInv
  BY DEF IInv
<1>1. /\ dutyReg' \in 0..255
      /\ UNCHANGED <<ch, ctrlReg, smart, forced, pointReg, pwm_ctrl, pwm_duty, pwm_temp_map,
                     fan_main_ctrl, auto_temp, valid, recent, update_lock, checked, todo,
                     lastMode, lastDuty, lastMap>>
  BY PwmAssumption DEF ChipAdjusts, cache, stamp, asked
<1>2. TypeOK' /\ TodoInv'
  BY <1>1 DEF TypeOK, TodoInv, Newer
<1>3. CacheInv' /\ ModeInv' /\ ForcedInv' /\ DutyInv'
  BY <1>1 DEF CacheInv, ModeInv, ForcedInv, DutyInv, HasAutoPwm, OnOff, Newer,
              FinalCtrl, FinalSmart, FinalForced, FinalPoint, Final
<1> QED BY <1>2, <1>3 DEF IInv

LEMMA StutterStep ==
  ASSUME IInv, UNCHANGED vars
  PROVE  IInv'
BY DEF vars, registers, cache, stamp, asked, IInv, TypeOK, TodoInv, CacheInv, ModeInv,
       ForcedInv, DutyInv, HasAutoPwm, OnOff, Newer, FinalCtrl, FinalSmart, FinalForced,
       FinalPoint, Final

LEMMA NextStep ==
  ASSUME IInv, [Next]_vars
  PROVE  IInv'
<1>1. ASSUME NEW t \in Thread, Handler(t) PROVE IInv'
  BY <1>1, SetAutoStep, FullSpeedOnOffStep, FullSpeedPwmStep, SetManualStep,
     CheckTripPointsStep, SetPwmStep, SetTempMapStep, SetAutoTempStep DEF Handler
<1> QED BY <1>1, DoWriteStep, UpdateDeviceStep, StampStep, ChipAdjustsStep, StutterStep DEF Next

LEMMA Inductive == Spec => []IInv
<1>1. IInv /\ [Next]_vars => IInv'
  BY NextStep
<1> QED BY InitIInv, <1>1, PTL DEF Spec
-----------------------------------------------------------------------------

(***************************************************************************)
(* Every field of struct it87_data and every register keeps its type, and  *)
(* update_lock is held exactly while register writes are outstanding.      *)
(***************************************************************************)
THEOREM TypeCorrect == Spec => []TypeOK
<1>1. IInv => TypeOK
  BY DEF IInv
<1> QED BY <1>1, Inductive, PTL

(***************************************************************************)
(* A cache marked valid describes the mode, the on/off bit and the trip    *)
(* points the chip really has, whatever handlers ran and however often the *)
(* refresh of it87_update_device came between them.                        *)
(***************************************************************************)
THEOREM CacheDescribesChip == Spec => []CacheMatchesChip
<1>1. IInv => CacheMatchesChip
  <2> SUFFICES ASSUME IInv, valid, Quiet
               PROVE  /\ pwm_ctrl = ctrlReg /\ fan_main_ctrl = smart
                      /\ HasAutoPwm => auto_temp = pointReg
    BY DEF CacheMatchesChip
  <2>1. todo = <<>> /\ CacheInv
    BY DEF IInv, TypeOK, Quiet
  <2> QED BY <2>1, FinalQuiet DEF CacheInv
<1> QED BY <1>1, Inductive, PTL

(***************************************************************************)
(* Once set_pwm_enable has done its writes the chip is in the mode asked   *)
(* for, and no other handler of the channel takes it out of it.            *)
(***************************************************************************)
THEOREM ModesHold == Spec => []ModeHolds
<1>1. IInv => ModeHolds
  <2> SUFFICES ASSUME IInv, Quiet, lastMode # None
               PROVE  \/ lastMode = 0 /\ ~OnOff
                      \/ lastMode = 0 /\ FullSpeed
                      \/ lastMode # 0 /\ InMode(lastMode)
    BY DEF ModeHolds
  <2>1. todo = <<>> /\ ModeInv /\ lastMode \in 0..2
    BY DEF IInv, TypeOK, Quiet
  <2>2. CASE lastMode = 0
    BY <2>1, <2>2, FinalQuiet DEF ModeInv, FullSpeed
  <2>3. CASE lastMode \in {1, 2}
    BY <2>1, <2>3, FinalQuiet DEF ModeInv, InMode
  <2> QED BY <2>1, <2>2, <2>3
<1> QED BY <1>1, Inductive, PTL

(***************************************************************************)
(* On the chips where the duty cycle shares its register with the map, the *)
(* duty cycle set last is in force whenever the channel is in manual mode. *)
(***************************************************************************)
THEOREM DutyKept == Spec => []DutySurvivesModeChanges
<1>1. IInv => DutySurvivesModeChanges
  <2> SUFFICES ASSUME IInv, Quiet, ~Newer, lastDuty # None, ~ctrlReg.auto
               PROVE  ctrlReg.low = lastDuty
    BY DEF DutySurvivesModeChanges
  <2>1. todo = <<>> /\ DutyInv
    BY DEF IInv, TypeOK, Quiet
  <2> QED BY <2>1, FinalQuiet DEF DutyInv
<1> QED BY <1>1, Inductive, PTL

(***************************************************************************)
(* No register write takes the channel out of SmartGuardian mode while its *)
(* fan is not forced on: set_pwm_enable never lets the fan stop between    *)
(* its two writes.                                                         *)
(***************************************************************************)
THEOREM FanNeverSwitchedOff == Spec => NeverSwitchedOff
<1>1. IInv /\ [Next]_vars => [smart /\ ~smart' => forced]_vars
  <2> SUFFICES ASSUME IInv, [Next]_vars, smart, ~smart'
               PROVE  forced
    OBVIOUS
  <2> TypeOK /\ TodoInv /\ ForcedInv
    BY DEF IInv
  <2>1. CASE DoWrite
    <3>1. /\ WriteReg(todo[1]) /\ todo[1] \in Write
          /\ Len(todo) \in {1, 2}
      BY <2>1, TodoStep DEF DoWrite
    <3>2. 1 \in DOMAIN todo
      BY <3>1 DEF TodoInv
    <3>3. todo[1].reg = "main" /\ ~todo[1].val
      BY <3>1 DEF WriteReg
    <3> QED BY <3>2, <3>3 DEF ForcedInv
  <2>2. CASE ~DoWrite
    <3>1. smart' = smart
      BY <2>2 DEF Next, Handler, UpdateDevice, CacheAges, Invalidate, ChipAdjusts, SetAuto,
                  SetFullSpeedOnOff, SetFullSpeedPwm, SetManual, SetMode, CheckTripPoints,
                  SetPwm, SetTempMap, SetAutoTemp, Lock, registers, vars
    <3> QED BY <3>1
  <2> QED BY <2>1, <2>2
<1>2. IInv /\ [Next]_vars => [smart /\ ~smart' => forced]_vars
  BY <1>1
<1> QED BY <1>2, Inductive, PTL DEF Spec, NeverSwitchedOff
=============================================================================
