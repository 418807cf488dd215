------------------------------ MODULE It87Load ------------------------------
(***************************************************************************)
(* Loading and unloading it87ts: sm_it87_init looks for a chip behind each *)
(* of the two Super-I/O addresses, adds a platform device for it, whose    *)
(* probe checks the chip, decides which sensors there are and initialises  *)
(* the environment controller (EC).  Any call into the kernel can fail.    *)
(* The module can be unloaded and loaded again; the EC keeps its contents. *)
(*                                                                         *)
(* The accesses to the configuration ports are in GpioIt87 and those to    *)
(* the EC in It87Bus: here each is a value.  VID is left out.              *)
(***************************************************************************)
EXTENDS It87Sysfs, FiniteSets

CONSTANTS NoChip, \* nothing answers at a Super-I/O address
          System, \* the systems considered, see SystemAssumption
          MaxLoads(_) \* bound on the number of times a system loads the module

Slot == 1..2 \* the indices of sioaddr and it87_pdev, from 1

\* A bit of a configuration register of the GPIO logical device
Pin == {"GPIO1", "GPIO2", "GPIO3", "GPIO4", "GPIO5", "GPIO9", "PINX1", "PINX2",
        "PINX4", "SPI", "BEEP"} \X (0..7)

Ec == [tach : SUBSET (0..2),         \* bits 6-4 of FAN_MAIN_CTRL
       fan_16bit : SUBSET (0..5),    \* FAN_16BIT: 16-bit mode of fans 0 to 2, others
       div3 : BOOLEAN,               \* bit 3 of FAN_DIV, where it tells of fan 5
       temp456 : [3..5 -> 0..3],     \* TEMP456_ENABLE: 1 a voltage, 2 or 3 a temperature
       fan_ctl : BOOLEAN,            \* FAN_CTL & 0x87 # 0: active high, or some fan on
       auto : BOOLEAN]               \* some of the first three channels is automatic

Chip == [type : ChipType, rev : 0..15,
         active : BOOLEAN,           \* activated and given a base address
         alive : BOOLEAN,            \* CONFIG and CHIPID of the EC are right
         pins : SUBSET Pin,
         extra7 : BOOLEAN,          \* bit 7 of TEMP_EXTRA, the same at each load
         ec : Ec]

ASSUME SystemAssumption ==
  System \subseteq [chips : [Slot -> Chip \union {NoChip}],
                    fix_pwm_polarity : BOOLEAN, dmi_skip_pwm : SUBSET (0..5)]
ASSUME NoChipAssumption == NoChip \notin Chip
ASSUME MaxLoadsAssumption == \A s \in System : MaxLoads(s) \in Nat

VARIABLES
  sys,      \* the system
  ec,       \* ec[i]: the EC of the chip at slot i
  routed,   \* the slots where bit 1 of PINX2 was set by it87_find
  pc,       \* where sm_it87_init is
  i,        \* its loop variable
  found, sio_data,
  driver,   \* the platform driver is registered
  pdev,     \* the slots with a platform device
  data,     \* data[i]: struct it87_data of a device with a driver, or NoData
  loads,    \* how often the module was loaded
  offered   \* history: what each slot's hwmon device offered when last registered

device == <<sys, ec, routed>>
vars == <<device, pc, i, found, sio_data, driver, pdev, data, loads, offered>>

\* Stands for a device without struct it87_data; none of its fields is used.
NoData == [type |-> "none"]

-----------------------------------------------------------------------------
(* it87_find: which pins serve another function.                           *)

PinSet(c, reg, bit) == <<reg, bit>> \in c.pins

\* The pins that most of the later chips use for fans 1 and 2
UsualFan(c) == {f \in 1..2 : PinSet(c, <<"GPIO5", "GPIO3">>[f], <<2, 7>>[f])}
UsualPwm(c) == {p \in 1..2 : PinSet(c, <<"GPIO5", "GPIO3">>[p], <<1, 6>>[p])}

When(cond, set) == IF cond THEN set ELSE {}

\* Fans 3 and 4 of the chips of the last branch; has_five_fans looks at the
\* features of the type, which the IT8721F does not have.
Gpio2Fan(c) ==
  CASE c.type = "it8718" -> When(PinSet(c, "GPIO2", 5), {3}) \union When(PinSet(c, "GPIO2", 4), {4})
    [] c.type \in {"it8720", "it8728"} ->
         When(~PinSet(c, "GPIO2", 5), {3}) \union When(~PinSet(c, "GPIO2", 4), {4})
    [] OTHER -> {}

SkipFan(c) ==
  CASE c.type = "it87" -> {}
    [] c.type = "it8783" ->
         When(PinSet(c, "GPIO3", 0) \/ ~PinSet(c, "PINX2", 2), {2})
           \union When(PinSet(c, "GPIO3", 7), {1})
    [] c.type \in SixTempType ->
         UsualFan(c) \union When(~PinSet(c, "GPIO2", 5), {3})
           \union When(~PinSet(c, "GPIO2", 4), {4}) \union When(~PinSet(c, "GPIO5", 7), {5})
    [] c.type \in {"it8613", "it8622"} ->
         UsualFan(c) \union When(PinSet(c, "GPIO1", 6), {3}) \union When(PinSet(c, "GPIO3", 1), {4})
    [] c.type = "it8732" -> UsualFan(c) \union When(PinSet(c, "GPIO3", 5), {3})
    [] c.type \in {"it8655", "it8665"} ->
         When(PinSet(c, "PINX4", 4), {1}) \union When(PinSet(c, "GPIO3", 7), {2})
           \union When(c.type = "it8665",
                     When(~PinSet(c, "GPIO2", 4), {4}) \union When(PinSet(c, "GPIO9", 3), {3})
                       \union When(PinSet(c, "GPIO9", 1), {5}))
    [] OTHER -> UsualFan(c) \union Gpio2Fan(c)

\* The channels the type does not have
NoPwm(type) ==
  IF type \notin FourPwm \union FivePwm \union SixPwm THEN 3..5
  ELSE IF type \in FourPwm THEN 4..5
  ELSE IF type \in FivePwm THEN {5} ELSE {}

PwmPinsTaken(c) ==
  CASE c.type = "it87" -> {}
    [] c.type = "it8783" ->
         When(PinSet(c, "GPIO1", 4) \/ (~PinSet(c, "PINX1", 1) /\ PinSet(c, "SPI", 0)), {2})
           \union When(PinSet(c, "GPIO3", 3), {1})
    [] c.type \in SixTempType ->
         UsualPwm(c) \union When(PinSet(c, "GPIO4", 2), {3}) \union When(PinSet(c, "GPIO1", 6), {4})
                     \union When(~PinSet(c, "GPIO5", 7), {5})
    [] c.type \in {"it8613", "it8622"} ->
         UsualPwm(c) \union When(PinSet(c, "GPIO1", 5), {3}) \union When(PinSet(c, "GPIO3", 3), {4})
    [] c.type = "it8665" ->
         UsualPwm(c) \union When(PinSet(c, "GPIO9", 2), {3}) \union When(PinSet(c, "GPIO2", 5), {4})
                     \union When(PinSet(c, "GPIO9", 0), {5})
    [] OTHER -> UsualPwm(c)

SkipPwm(c) == NoPwm(c.type) \union PwmPinsTaken(c)

\* UART6 takes the pins of VIN5 to VIN7, and perhaps of TEMPIN3.
Uart6(c) == c.type = "it8782" /\ PinSet(c, "PINX2", 2)

InPinsTaken(c) ==
  CASE c.type = "it8783" ->
         When(PinSet(c, "GPIO3", 0) \/ PinSet(c, "PINX2", 2), {5})
           \union When(PinSet(c, "GPIO3", 1), {6})
    [] c.type = "it8603" \/ Uart6(c) -> {5, 6}
    [] c.type \in SixTempType \union {"it8613", "it8622"} -> When(~PinSet(c, "PINX2", 0), {9})
    [] OTHER -> {}

SkipIn(c) == InPinsTaken(c) \union When(c.type \notin HasAvcc3, {9})

LastBranch(type) ==
  type \notin {"it87", "it8783", "it8603", "it8607", "it8613", "it8622", "it8732"}
               \union SixTempType \union BankedType

\* it87_find sets bit 1 of PINX2: VCCH is routed to in7.
Routes(c) ==
  /\ ~PinSet(c, "PINX2", 1)
  /\ \/ c.type = "it8720" \/ Uart6(c)
     \/ c.type = "it8783" /\ PinSet(c, "GPIO3", 2)

\* The voltages measured inside the chip: bits 0 to 3 are in3, in7, in8 and in9.
Internal(c, isRouted) ==
  LET pinx2 == When(PinSet(c, "PINX2", 0), {0}) \union When(PinSet(c, "PINX2", 1) \/ isRouted, {1})
  IN {2} \union When(c.type \in NewerType, {1})
     \union When(c.type \in HasAvcc3 /\ ~(c.type \in SixTempType /\ ~PinSet(c, "PINX2", 0)), {3})
     \union (IF c.type = "it8783" \/ LastBranch(c.type) THEN pinx2
             ELSE When(c.type \in {"it8620", "it8628", "it8732"} /\ PinSet(c, "PINX2", 0), {0}))

BlankSio == [skip_fan |-> {}, skip_pwm |-> {}, skip_in |-> {}, skip_temp |-> {},
             internal |-> {}, beep_pin |-> FALSE]

\* Mutant: sm_it87_init does not clear the structure for the second address.
ClearedSioNot == sio_data

\* memset, at the head of sm_it87_init's loop
ClearedSio == BlankSio

\* What it87_find ors into the structure
FoundSio(c, old) ==
  [skip_fan |-> old.skip_fan \union SkipFan(c),
   skip_pwm |-> old.skip_pwm \union SkipPwm(c),
   skip_in |-> old.skip_in \union SkipIn(c),
   skip_temp |-> old.skip_temp \union When(Uart6(c), {2}),
   internal |-> old.internal \union Internal(c, i \in routed \/ Routes(c)),
   beep_pin |-> \E b \in 0..5 : PinSet(c, "BEEP", b)]
-----------------------------------------------------------------------------
(* it87_probe and it87_init_device: which sensors there are.               *)

\* The tachometers are enabled, all but those to skip, if none is.
Tachometers(c, s) ==
  IF c.tach \ s.skip_fan = {} THEN c.tach \union (0..2 \ s.skip_fan) ELSE c.tach

\* Mutant: the condition looks at the features of the type only.
ModesOfType(t, r, c, s) ==
  IF t \in Fan16Config /\ Tachometers(c, s) \ c.fan_16bit # {}
  THEN c.fan_16bit \union 0..2 ELSE c.fan_16bit

\* IT87_REG_FAN_16BIT afterwards
Modes(t, r, c, s) ==
  IF NeedsFan16Config(t, r) /\ Tachometers(c, s) \ c.fan_16bit # {}
  THEN c.fan_16bit \union 0..2 ELSE c.fan_16bit

\* Bits 4 and 5 of FAN_16BIT tell of fans 3 and 4; where the chip tells of fan 5
\* depends on the type.
HasFan(t, r, c, s) ==
  (Tachometers(c, s)
    \union {f \in MoreFans(t, r) \intersect (3..4) : f + 1 \in c.fan_16bit}
    \union When(5 \in MoreFans(t, r) /\ t \in SixTempType /\ 2 \in c.fan_16bit, {5})
    \union When(5 \in MoreFans(t, r) /\ t = "it8665" /\ c.div3, {5})) \ s.skip_fan

HasTemp(b, c, s) ==
  (0..2 \ When(2 \in s.skip_temp /\ b.type = "it8782" /\ ~b.extra7, {2}))
    \union When(b.type \in SixTempType, {n \in 3..5 : c.temp456[n] >= 2})

HasIn(b, c, s) ==
  (0..9 \ s.skip_in)
    \union When(b.type \in SixTempType, {n + 7 : n \in {m \in 3..5 : c.temp456[m] = 1}})

HasPwm(b, c, s) ==
  When(c.fan_ctl,
     0..5 \ (s.skip_pwm \union When(b.type \in {"it8620", "it8686"} /\ ~c.div3, {5})))

InScaled(b, s) ==
  IF b.type \in HasScaling THEN {<<3, 7, 8, 9>>[n + 1] : n \in s.internal}
  ELSE When(b.type \in {"it8781", "it8782", "it8783"},
          {<<3, 7>>[n + 1] : n \in s.internal \intersect (0..1)})

\* struct it87_data after it87_init_device; in_internal as positions among the
\* labels
Data(b, c, s) ==
  [type |-> b.type, rev |-> b.rev, has_beep |-> s.beep_pin,
   in_internal |-> s.internal, in_scaled |-> InScaled(b, s),
   has_in |-> HasIn(b, c, s), has_temp |-> HasTemp(b, c, s),
   has_fan |-> HasFan(b.type, b.rev, c, s), has_pwm |-> HasPwm(b, c, s)]
-----------------------------------------------------------------------------

Init ==
  /\ sys \in System
  /\ ec = [n \in Slot |-> IF sys.chips[n] = NoChip THEN NoData ELSE sys.chips[n].ec]
  /\ routed = {}
  /\ pc = "unloaded" /\ i = 1 /\ found = FALSE /\ sio_data = BlankSio
  /\ driver = FALSE /\ pdev = {} /\ data = [n \in Slot |-> NoData]
  /\ loads = 0
  /\ offered = [n \in Slot |-> NoData]

chip == sys.chips[i]

\* insmod: platform_driver_register may fail.
Register ==
  /\ pc \in {"unloaded", "failed"} /\ loads < MaxLoads(sys)
  /\ i' = 1 /\ found' = FALSE /\ loads' = loads + 1
  /\ \/ driver' = TRUE /\ pc' = "find"
     \/ driver' = FALSE /\ pc' = "failed"
  /\ UNCHANGED <<device, sio_data, pdev, data, offered>>

\* The end of the loop's body, and what follows the loop
NextSlot(isFound) ==
  /\ found' = isFound
  /\ IF i = 1 THEN pc' = "find" /\ i' = 2 /\ UNCHANGED driver
     ELSE IF isFound THEN pc' = "loaded" /\ UNCHANGED <<i, driver>>
     ELSE pc' = "failed" /\ driver' = FALSE /\ UNCHANGED i

\* it87_find fails: the ports are taken, there is no chip, or it is not active.
FindNone ==
  /\ pc = "find"
  /\ sio_data' = ClearedSio
  /\ NextSlot(found)
  /\ UNCHANGED <<device, pdev, data, loads, offered>>

Find ==
  /\ pc = "find"
  /\ chip # NoChip /\ chip.active
  /\ LET s == FoundSio(chip, ClearedSio)
     IN sio_data' = [s EXCEPT !.skip_pwm = @ \union sys.dmi_skip_pwm]
  /\ routed' = IF Routes(chip) THEN routed \union {i} ELSE routed
  /\ pc' = "add"
  /\ UNCHANGED <<sys, ec, i, found, driver, pdev, data, loads, offered>>

\* Mutant: exit_dev_unregister forgets the first device.
KeptPdevAll == pdev

\* exit_dev_unregister unregisters it87_pdev[0] only.
KeptPdev == pdev \ {1}

\* it87_device_add fails and gives up what was loaded so far.
AddFails ==
  /\ pc = "add"
  /\ pdev' = KeptPdev
  /\ data' = [n \in Slot |-> IF n \in pdev' THEN data[n] ELSE NoData]
  /\ driver' = FALSE /\ pc' = "failed"
  /\ UNCHANGED <<device, i, found, sio_data, loads, offered>>

\* platform_device_add calls it87_probe.
Add ==
  /\ pc = "add"
  /\ pdev' = pdev \union {i}
  /\ pc' = "probe"
  /\ UNCHANGED <<device, i, found, sio_data, driver, data, loads, offered>>

\* it87_probe fails before it changes anything: no region, no memory, or no EC.
\* platform_device_add does not return that error.
ProbeFails ==
  /\ pc = "probe"
  /\ NextSlot(TRUE)
  /\ UNCHANGED <<device, sio_data, pdev, data, loads, offered>>

\* it87_check_pwm goes to invert the duty cycles: it reads them through
\* data->REG_PWM, which it87_init_device has yet to set.  What follows in the
\* function is never reached.
NeedsFix == sys.fix_pwm_polarity /\ ~ec[i].fan_ctl

NullDereference ==
  /\ pc = "probe" /\ chip.alive
  /\ NeedsFix
  /\ pc' = "oops"
  /\ UNCHANGED <<device, i, found, sio_data, driver, pdev, data, loads, offered>>

\* The rest of it87_probe up to the registration of the hwmon device
Probe ==
  /\ pc = "probe" /\ chip.alive
  /\ ~NeedsFix
  /\ data' = [data EXCEPT ![i] = Data(chip, ec[i], sio_data)]
  /\ ec' = [ec EXCEPT ![i].tach = Tachometers(ec[i], sio_data),
                      ![i].fan_16bit = Modes(chip.type, chip.rev, ec[i], sio_data)]
  /\ pc' = "hwmon"
  /\ UNCHANGED <<sys, routed, i, found, sio_data, driver, pdev, loads, offered>>

\* devm_hwmon_device_register_with_groups; if it fails the device has no driver.
Offer ==
  /\ pc = "hwmon"
  /\ offered' = [offered EXCEPT ![i] = data[i]]
  /\ NextSlot(TRUE)
  /\ UNCHANGED <<device, sio_data, pdev, data, loads>>

OfferFails ==
  /\ pc = "hwmon"
  /\ data' = [data EXCEPT ![i] = NoData]
  /\ NextSlot(TRUE)
  /\ UNCHANGED <<device, sio_data, pdev, loads, offered>>

\* sm_it87_exit
Exit ==
  /\ pc = "loaded"
  /\ pc' = "unloaded"
  /\ pdev' = {} /\ driver' = FALSE /\ data' = [n \in Slot |-> NoData]
  /\ UNCHANGED <<device, i, found, sio_data, loads, offered>>

Next ==
  \/ Register
  \/ FindNone \/ Find
  \/ AddFails \/ Add
  \/ ProbeFails \/ NullDereference \/ Probe
  \/ Offer \/ OfferFails
  \/ Exit

Spec == Init /\ [][Next]_vars
-----------------------------------------------------------------------------

TypeOK ==
  /\ sys \in System
  /\ \A n \in Slot : IF sys.chips[n] = NoChip THEN ec[n] = NoData ELSE ec[n] \in Ec
  /\ routed \subseteq Slot
  /\ pc \in {"unloaded", "failed", "find", "add", "probe", "hwmon", "loaded", "oops"}
  /\ i \in Slot /\ found \in BOOLEAN /\ driver \in BOOLEAN
  /\ sio_data.skip_fan \union sio_data.skip_pwm \subseteq 0..5
  /\ sio_data.skip_in \subseteq 0..9 /\ sio_data.internal \subseteq 0..3
  /\ pdev \subseteq Slot /\ loads \in 0..MaxLoads(sys)
  /\ \A n \in Slot :
       data[n] # NoData => /\ n \in pdev
                           /\ data[n].has_fan \subseteq 0..5
                           /\ data[n].has_pwm \subseteq 0..5
                           /\ data[n].has_temp \subseteq 0..5
                           /\ data[n].has_in \subseteq 0..12

(***************************************************************************)
(* sm_it87_init loads all or nothing: when it has failed, at whichever of  *)
(* the two chips, and when the module is unloaded, neither the driver nor  *)
(* a device is left registered; when it has succeeded there is a device.   *)
(***************************************************************************)
LoadAllOrNothing ==
  /\ pc \in {"unloaded", "failed"} => ~driver /\ pdev = {} /\ \A n \in Slot : data[n] = NoData
  /\ pc = "loaded" => driver /\ pdev # {}

\* The device that is about to be offered to user space
Offering == pc = "hwmon"

(***************************************************************************)
(* What a chip offers does not depend on whether another chip was found    *)
(* before it, nor on an earlier load, failed or not, that already enabled  *)
(* tachometers, switched fans to 16 bits or routed a voltage: struct       *)
(* it87_sio_data and the chip's registers carry nothing over.  (What users *)
(* set in between can: an IT8782F whose UART6 is on offers temp3 only      *)
(* while bit 7 of TEMP_EXTRA is set, and temp3_type writes that bit.)      *)
(***************************************************************************)
OffersTheSame == Offering /\ offered[i] # NoData => data[i] = offered[i]

(***************************************************************************)
(* A fan the driver offers with 16-bit limits is measured with 16 bits:    *)
(* the chips that have to be switched are, in every revision.              *)
(***************************************************************************)
WideFansAreWide ==
  Offering /\ NeedsFan16Config(data[i].type, data[i].rev) =>
    data[i].has_fan \intersect (0..2) \subseteq ec[i].fan_16bit

\* The attributes behind which there are registers, with these, but for the
\* start value, which is the duty cycle's register by design, and the trip points
\* of pwm4 to pwm6, which the handlers take for those of pwm3.
Owned(d) ==
  (UNION {{<<"in", a, r>> : r \in InRegs(a)} : a \in InShown(d)})
  \union (UNION {{<<"fan", a, r>> : r \in FanAttrRegs(d, a)} : a \in FanShown(d)})
  \union (UNION {{<<"temp", a, r>> : r \in TempRegs(d, a)} : a \in TempShown(d, 0..5)})
  \union (UNION {{<<"pwm", a, r>> : r \in PwmRegs(d, a)} : a \in PwmShown(d)})
  \union (UNION {{<<"auto", a, r>> : r \in AutoRegs(d, a)} :
                   a \in {b \in AutoShown(d) : b.kind # "start" /\ HandlerNr(b) = b.nr}})

(***************************************************************************)
(* No two attributes a chip offers act on one register, and none acts on a *)
(* register of the whole chip: the tables of registers of the 25 types,    *)
(* the choice among them in it87_init_device, and the sensors that share   *)
(* pins (temperatures 4 to 6 and voltages 10 to 12) fit together.          *)
(***************************************************************************)
RegistersApart ==
  Offering =>
    LET owned == Owned(data[i])
        regs == {o[3] : o \in owned}
    IN /\ Cardinality(regs) = Cardinality(owned)
       /\ regs \intersect GlobalRegs(data[i].type) = {}

Named(nrs, kinds) == [nr : nrs, kind : {kinds[k] : k \in DOMAIN kinds}]

(***************************************************************************)
(* A voltage that has a label has a value.  Of the IT8613E and IT8622E     *)
(* this does not hold: where AVCC3 is not measured it87_find skips in9 but *)
(* leaves it marked internal, so that in9_label stands alone.              *)
(***************************************************************************)
LabelsHaveInputs ==
  Offering /\ data[i].type \notin {"it8613", "it8622"} =>
    \A n \in LabelShown(data[i]) : n \in data[i].has_in

(***************************************************************************)
(* The attributes of a sensor are visible just when the chip has the       *)
(* sensor and what the attribute is about: the arithmetic of the           *)
(* is_visible functions agrees with the names in the arrays.  One it does  *)
(* not agree with: pwm4_auto_start to pwm6_auto_start are never visible,   *)
(* because "no auto_point4" hides position 8 (it87ts.c:2645).  And what    *)
(* has a label has a value.                                                *)
(***************************************************************************)
VisibleAsNamed ==
  Offering =>
    LET d == data[i]
        beep(a) == a.kind = "beep" => d.has_beep
        newer == HasNewerAutoPwm(d.type)
        old == HasOldAutoPwm(d.type, d.rev)
    IN /\ InShown(d) = {a \in Named(d.has_in, InKinds) : beep(a) /\ (a.nr > 7 => a.kind = "input")}
       /\ FanShown(d) = {a \in Named(d.has_fan, FanKinds \o <<"div">>) :
                           beep(a) /\ (a.kind = "div" => a.nr < 3 /\ ~Is16Bit(d.type, d.rev))}
       /\ \A types \in {{}, {0, 2}, 0..5} :
            TempShown(d, types) =
              {a \in Named(d.has_temp, TempKinds) :
                 /\ beep(a) /\ (a.kind = "type" => a.nr \in types)
                 /\ a.kind # "input" => a.nr < NumTempLimit(d.type)
                 /\ a.kind = "offset" => d.type \notin OldPwmType}
       /\ PwmShown(d) = Named(d.has_pwm, PwmKinds)
       /\ AutoShown(d) =
            {a \in Named(d.has_pwm, AutoKinds) :
               \/ /\ newer /\ a \in Named(0..5, PointKinds \o StartKinds)
                  /\ ~(a.kind = "start" /\ a.nr > 2)
               \/ old /\ a.nr < 3 /\ a \notin Named(0..5, StartKinds)}
       /\ LabelsHaveInputs

(***************************************************************************)
(* fix_pwm_polarity: "The user asks us to attempt a chip reconfiguration.  *)
(* This means switching to active high polarity and inverting all fan      *)
(* speed values" (it87ts.c:3462-3464).  A probe that is past               *)
(* it87_check_pwm has done so, unless a fan is in automatic mode.          *)
(***************************************************************************)
PolarityFixed ==
  pc \in {"hwmon", "oops"} /\ sys.fix_pwm_polarity /\ ~ec[i].auto => ec[i].fan_ctl
=============================================================================
