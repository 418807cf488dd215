--------------------------- MODULE It87LoadProofs ---------------------------
(***************************************************************************)
(* Proofs about It87Load, for any systems, any number of loads and,        *)
(* because It87Sensors leaves the loading alone, for the driver in use.    *)
(* The invariant IInv says at each place of sm_it87_init which devices     *)
(* there are and what the module has noted of them; SameInv, that all of   *)
(* it follows from the chip.  What a chip offers is then a constant, and   *)
(* the tables of registers and attributes are proved to fit for every chip *)
(* that it87_devices and the pins make possible.                           *)
(***************************************************************************)
EXTENDS It87Sensors, FiniteSetTheorems, TLAPS

Label == {"unloaded", "failed", "find", "add", "probe", "hwmon", "loaded", "oops"}

\* The values the variables can have, as far as the proofs need them
LoadTypes ==
  /\ sys \in System
  /\ ec \in [Slot -> Ec \union {NoData}]
  /\ \A n \in Slot : sys.chips[n] # NoChip => ec[n] \in Ec
  /\ pc \in Label /\ i \in Slot /\ found \in BOOLEAN
  /\ pdev \in SUBSET Slot
  /\ DOMAIN data = Slot

\* Which devices there are: the ones added in this round of the loop or before it
DevicesInv ==
  /\ driver <=> pc \notin {"unloaded", "failed"}
  /\ \A n \in Slot : data[n] # NoData => n \in pdev
  /\ pc \in {"unloaded", "failed"} => pdev = {}
  /\ pc \in {"find", "add"} => pdev \subseteq {1} /\ i \notin pdev
  /\ pc = "find" => (found <=> pdev # {})
  /\ pc \in {"probe", "hwmon", "oops"} => i \in pdev
  /\ pc \in {"probe", "hwmon"} /\ i = 1 => pdev \subseteq {1}
  /\ pc = "loaded" => pdev # {}
  /\ pc \in {"add", "probe", "hwmon", "oops"} => chip # NoChip

IInv == LoadTypes /\ DevicesInv /\ WideFansAreWide

LEMMA SlotFacts == Slot = {1, 2} /\ \A n \in Slot : n = 1 \/ n = 2
  BY DEF Slot

\* The fields of a system and of a chip
LEMMA SystemFields ==
  ASSUME NEW s \in System
  PROVE  s.chips \in [Slot -> Chip \union {NoChip}]
  BY SystemAssumption

LEMMA ChipFields ==
  ASSUME NEW c \in Chip
  PROVE  c.ec \in Ec /\ c.type \in ChipType /\ c # NoChip
  BY NoChipAssumption DEF Chip

\* What it87_probe leaves in the EC has the type of its contents.
LEMMA ModesType ==
  ASSUME NEW c \in Ec, NEW t, NEW r, NEW s
  PROVE  Tachometers(c, s) \in SUBSET (0..2) /\ Modes(t, r, c, s) \in SUBSET (0..5)
<1>1. c.tach \in SUBSET (0..2) /\ c.fan_16bit \in SUBSET (0..5)
  BY DEF Ec
<1> QED BY <1>1 DEF Tachometers, Modes

\* Fans 1 to 3 come from the tachometers alone, and if one of them is not in
\* 16-bit mode all three are switched to it.
LEMMA WideFans ==
  ASSUME NEW c \in Ec, NEW t, NEW r, NEW s, NeedsFan16Config(t, r)
  PROVE  HasFan(t, r, c, s) \intersect (0..2) \subseteq Modes(t, r, c, s)
<1>1. HasFan(t, r, c, s) \intersect (0..2) \subseteq Tachometers(c, s)
  BY DEF HasFan, When
<1>2. Tachometers(c, s) \in SUBSET (0..2)
  BY ModesType
<1> QED BY <1>1, <1>2 DEF Modes

LEMMA InitIInv == Init => IInv
<1> SUFFICES ASSUME Init PROVE IInv
  OBVIOUS
<1> USE DEF Init
<1>1. sys.chips \in [Slot -> Chip \union {NoChip}]
  BY SystemFields
<1>2. \A n \in Slot : sys.chips[n] # NoChip => sys.chips[n].ec \in Ec
  BY <1>1, ChipFields
<1>3. LoadTypes
  <2>1. ec \in [Slot -> Ec \union {NoData}] /\ \A n \in Slot : sys.chips[n] # NoChip => ec[n] \in Ec
    BY <1>2
  <2> QED BY <2>1, SlotFacts DEF LoadTypes, Label
<1>4. DevicesInv
  BY DEF DevicesInv, Slot
<1>5. WideFansAreWide
  BY DEF WideFansAreWide, Offering
<1> QED BY <1>3, <1>4, <1>5 DEF IInv

\* The end of a round of the loop finds as many devices as it says.
LEMMA NextSlotDevices ==
  ASSUME IInv, NEW isFound \in BOOLEAN, NextSlot(isFound),
         pdev' \in SUBSET Slot, pdev' \subseteq pdev \union {i}, isFound <=> pdev' # {},
         pc \in {"find", "probe", "hwmon"}, UNCHANGED sys,
         \A n \in Slot : data'[n] # NoData => n \in pdev'
  PROVE  DevicesInv' /\ pc' \in Label /\ i' \in Slot /\ found' \in BOOLEAN /\ ~Offering'
<1> USE SlotFacts DEF IInv, LoadTypes, DevicesInv, NextSlot, Label, Offering
<1>1. CASE i = 1
  <2>1. pc' = "find" /\ i' = 2 /\ driver' = driver /\ found' = isFound
    BY <1>1
  <2>2. pdev' \subseteq {1}
    BY <1>1
  <2> QED BY <2>1, <2>2
<1>2. CASE i # 1 /\ isFound
  BY <1>2
<1>3. CASE i # 1 /\ ~isFound
  BY <1>3
<1> QED BY <1>1, <1>2, <1>3

LEMMA LoadStep == IInv /\ [Next]_vars => IInv'
<1> SUFFICES ASSUME IInv, [Next]_vars PROVE IInv'
  OBVIOUS
<1> USE DEF IInv
<1>1. CASE Register
  <2>1. LoadTypes'
    BY <1>1, SlotFacts DEF Register, LoadTypes, device, Label
  <2>2. DevicesInv'
    BY <1>1 DEF Register, DevicesInv, Slot, device
  <2>3. WideFansAreWide'
    BY <1>1 DEF Register, WideFansAreWide, Offering
  <2> QED BY <2>1, <2>2, <2>3
<1>2. CASE FindNone
  <2>1. DevicesInv' /\ pc' \in Label /\ i' \in Slot /\ found' \in BOOLEAN /\ ~Offering'
    BY <1>2, NextSlotDevices DEF FindNone, device, LoadTypes, DevicesInv
  <2>2. LoadTypes' /\ WideFansAreWide'
    BY <1>2, <2>1 DEF FindNone, LoadTypes, device, WideFansAreWide
  <2> QED BY <2>1, <2>2
<1>3. CASE Find
  <2>1. LoadTypes'
    BY <1>3 DEF Find, LoadTypes, Label
  <2>2. DevicesInv'
    BY <1>3 DEF Find, DevicesInv, chip
  <2>3. WideFansAreWide'
    BY <1>3 DEF Find, WideFansAreWide, Offering
  <2> QED BY <2>1, <2>2, <2>3
<1>4. CASE AddFails
  <2>1. pdev' = {}
    BY <1>4 DEF AddFails, KeptPdev, DevicesInv
  <2>2. LoadTypes'
    BY <1>4, <2>1 DEF AddFails, LoadTypes, device, Label
  <2>3. DevicesInv'
    BY <1>4, <2>1 DEF AddFails, DevicesInv
  <2>4. WideFansAreWide'
    BY <1>4 DEF AddFails, WideFansAreWide, Offering
  <2> QED BY <2>2, <2>3, <2>4
<1>5. CASE Add
  <2>1. LoadTypes'
    BY <1>5 DEF Add, LoadTypes, device, Label
  <2>2. DevicesInv'
    BY <1>5 DEF Add, DevicesInv, device, chip
  <2>3. WideFansAreWide'
    BY <1>5 DEF Add, WideFansAreWide, Offering
  <2> QED BY <2>1, <2>2, <2>3
<1>6. CASE ProbeFails
  <2>1. DevicesInv' /\ pc' \in Label /\ i' \in Slot /\ found' \in BOOLEAN /\ ~Offering'
    BY <1>6, NextSlotDevices DEF ProbeFails, device, LoadTypes, DevicesInv
  <2>2. LoadTypes' /\ WideFansAreWide'
    BY <1>6, <2>1 DEF ProbeFails, LoadTypes, device, WideFansAreWide
  <2> QED BY <2>1, <2>2
<1>7. CASE NullDereference
  <2>1. LoadTypes' /\ WideFansAreWide'
    BY <1>7 DEF NullDereference, LoadTypes, device, Label, WideFansAreWide, Offering
  <2>2. DevicesInv'
    BY <1>7 DEF NullDereference, DevicesInv, device, chip
  <2> QED BY <2>1, <2>2
<1>8. CASE Probe
  <2> DEFINE t == chip.type
             r == chip.rev
             c == ec[i]
             s == sio_data
  <2>1. /\ i \in Slot /\ c \in Ec
        /\ ec' = [ec EXCEPT ![i].tach = Tachometers(c, s), ![i].fan_16bit = Modes(t, r, c, s)]
        /\ data' = [data EXCEPT ![i] = Data(chip, c, s)]
    BY <1>8 DEF Probe, LoadTypes, DevicesInv, chip
  <2>2. Tachometers(c, s) \in SUBSET (0..2) /\ Modes(t, r, c, s) \in SUBSET (0..5)
    BY <2>1, ModesType
  <2>3. [[c EXCEPT !.tach = Tachometers(c, s)] EXCEPT !.fan_16bit = Modes(t, r, c, s)] \in Ec
    BY <2>1, <2>2 DEF Ec
  <2>4. ec' \in [Slot -> Ec \union {NoData}] /\ ec'[i] \in Ec /\ \A n \in Slot \ {i} : ec'[n] = ec[n]
    BY <2>1, <2>3 DEF LoadTypes
  <2>5. LoadTypes'
    BY <1>8, <2>1, <2>4 DEF Probe, LoadTypes, Label
  <2>6. DevicesInv'
    BY <1>8, <2>1 DEF Probe, DevicesInv, chip
  <2>7. WideFansAreWide'
    <3>1. ec'[i].fan_16bit = Modes(t, r, c, s)
      BY <2>1 DEF LoadTypes, Ec
    <3>2. data'[i] = Data(chip, c, s) /\ i' = i
      BY <1>8, <2>1 DEF Probe, LoadTypes
    <3>3. data'[i].type = t /\ data'[i].rev = r /\ data'[i].has_fan = HasFan(t, r, c, s)
      BY <3>2 DEF Data
    <3> QED BY <2>1, <3>1, <3>2, <3>3, WideFans DEF WideFansAreWide
  <2> QED BY <2>5, <2>6, <2>7
<1>9. CASE Offer \/ OfferFails
  <2>1. /\ NextSlot(TRUE) /\ pc = "hwmon" /\ UNCHANGED <<device, pdev>>
        /\ DOMAIN data' = Slot /\ \A n \in Slot : data'[n] # NoData => data[n] # NoData
    BY <1>9 DEF Offer, OfferFails, LoadTypes
  <2>2. DevicesInv' /\ pc' \in Label /\ i' \in Slot /\ found' \in BOOLEAN /\ ~Offering'
    BY <2>1, NextSlotDevices DEF device, LoadTypes, DevicesInv
  <2>3. LoadTypes' /\ WideFansAreWide'
    BY <2>1, <2>2 DEF LoadTypes, device, WideFansAreWide
  <2> QED BY <2>2, <2>3
<1>10. CASE Exit
  <2>1. LoadTypes' /\ WideFansAreWide'
    BY <1>10 DEF Exit, LoadTypes, device, Label, WideFansAreWide, Offering
  <2>2. DevicesInv'
    BY <1>10 DEF Exit, DevicesInv
  <2> QED BY <2>1, <2>2
<1>11. CASE UNCHANGED vars
  <2>1. LoadTypes'
    BY <1>11 DEF vars, device, LoadTypes
  <2>2. DevicesInv'
    BY <1>11 DEF vars, device, DevicesInv, chip
  <2>3. WideFansAreWide'
    BY <1>11 DEF vars, device, WideFansAreWide, Offering
  <2> QED BY <2>1, <2>2, <2>3
<1> QED BY <1>1, <1>2, <1>3, <1>4, <1>5, <1>6, <1>7, <1>8, <1>9, <1>10, <1>11 DEF Next
-----------------------------------------------------------------------------
(* What a chip offers depends on the chip and the options alone.           *)

\* What it87_find finds of chip c by itself
Found(c) ==
  [skip_fan |-> SkipFan(c), skip_pwm |-> SkipPwm(c), skip_in |-> SkipIn(c),
   skip_temp |-> When(Uart6(c), {2}), internal |-> Internal(c, Routes(c)),
   beep_pin |-> \E b \in 0..5 : PinSet(c, "BEEP", b)]

\* The same of the chip at slot n, with what the list of boards adds
SioOf(n) == [Found(sys.chips[n]) EXCEPT !.skip_pwm = @ \union sys.dmi_skip_pwm]

\* The EC contents c as it87_probe leaves them
Probed(t, r, c, s) ==
  [c EXCEPT !.tach = Tachometers(c, s), !.fan_16bit = Modes(t, r, c, s)]

ProbedEc(n) == Probed(sys.chips[n].type, sys.chips[n].rev, sys.chips[n].ec, SioOf(n))

\* What the chip would offer if it were the only one, found for the first time
DataOf(n) == Data(sys.chips[n], sys.chips[n].ec, SioOf(n))

SameInv ==
  /\ DOMAIN offered = Slot
  /\ \A n \in routed : Routes(sys.chips[n])
  /\ pc \in {"add", "probe", "hwmon"} => sio_data = SioOf(i)
  /\ \A n \in Slot : sys.chips[n] # NoChip => ec[n] \in {sys.chips[n].ec, ProbedEc(n)}
  /\ pc = "hwmon" => data[i] = DataOf(i)
  /\ \A n \in Slot : offered[n] # NoData => offered[n] = DataOf(n)

\* A voltage that is routed already counts as one that is.
LEMMA FoundAlone ==
  ASSUME NEW c, i \in routed => Routes(c)
  PROVE  FoundSio(c, BlankSio) = Found(c)
<1>1. Internal(c, i \in routed \/ Routes(c)) = Internal(c, Routes(c))
  BY DEF Internal
<1>2. \A X : {} \union X = X
  OBVIOUS
<1> QED BY <1>1, <1>2 DEF FoundSio, BlankSio, Found

\* A second probe finds what the first one left, and the same sensors.
LEMMA ProbedTwice ==
  ASSUME NEW c \in Ec, NEW t \in ChipType, NEW r, NEW s
  PROVE  /\ Probed(t, r, Probed(t, r, c, s), s) = Probed(t, r, c, s)
         /\ HasFan(t, r, Probed(t, r, c, s), s) = HasFan(t, r, c, s)
<1> DEFINE p == Probed(t, r, c, s)
<1>1. /\ DOMAIN c = {"tach", "fan_16bit", "div3", "temp456", "fan_ctl", "auto"}
      /\ c.tach \in SUBSET (0..2) /\ c.fan_16bit \in SUBSET (0..5)
  BY DEF Ec
<1>2. /\ p.tach = Tachometers(c, s) /\ p.fan_16bit = Modes(t, r, c, s)
      /\ p.div3 = c.div3 /\ DOMAIN p = DOMAIN c
  BY <1>1 DEF Probed, Ec
<1>3. Tachometers(p, s) = Tachometers(c, s)
  BY <1>1, <1>2 DEF Tachometers
<1>4. Tachometers(c, s) \in SUBSET (0..2)
  BY ModesType
<1>5. Modes(t, r, p, s) = Modes(t, r, c, s)
  BY <1>2, <1>3, <1>4 DEF Modes
<1>6. Probed(t, r, p, s) = p
  BY <1>2, <1>3, <1>5 DEF Probed, Ec
<1>7. \A f \in 3..4 : f + 1 \in Modes(t, r, c, s) <=> f + 1 \in c.fan_16bit
  BY <1>1 DEF Modes
<1>8. t \in SixTempType => Modes(t, r, c, s) = c.fan_16bit
  BY DEF Modes, NeedsFan16Config, Fan16Config, OldPwmType, MidType, SixTempType
<1>9. {f \in MoreFans(t, r) \intersect (3..4) : f + 1 \in p.fan_16bit}
        = {f \in MoreFans(t, r) \intersect (3..4) : f + 1 \in c.fan_16bit}
  BY <1>2, <1>7
<1>10. (t \in SixTempType /\ 2 \in p.fan_16bit) <=> (t \in SixTempType /\ 2 \in c.fan_16bit)
  BY <1>2, <1>8
<1>11. HasFan(t, r, p, s) = HasFan(t, r, c, s)
  BY <1>2, <1>3, <1>9, <1>10 DEF HasFan, When
<1> QED BY <1>6, <1>11

LEMMA SameData ==
  ASSUME NEW b \in Chip, NEW s
  PROVE  Data(b, Probed(b.type, b.rev, b.ec, s), s) = Data(b, b.ec, s)
<1> DEFINE p == Probed(b.type, b.rev, b.ec, s)
<1>1. b.ec \in Ec /\ b.type \in ChipType
  BY ChipFields
<1>2. p.temp456 = b.ec.temp456 /\ p.fan_ctl = b.ec.fan_ctl /\ p.div3 = b.ec.div3
  BY <1>1 DEF Probed, Ec
<1>3. HasFan(b.type, b.rev, p, s) = HasFan(b.type, b.rev, b.ec, s)
  BY <1>1, ProbedTwice
<1>4. HasTemp(b, p, s) = HasTemp(b, b.ec, s) /\ HasIn(b, p, s) = HasIn(b, b.ec, s)
  BY <1>2 DEF HasTemp, HasIn
<1>5. HasPwm(b, p, s) = HasPwm(b, b.ec, s)
  BY <1>2 DEF HasPwm
<1> HIDE DEF p
<1>6. Data(b, p, s) = Data(b, b.ec, s)
  BY <1>3, <1>4, <1>5 DEF Data
<1> QED BY <1>6 DEF p

LEMMA InitSame == Init => SameInv
BY DEF Init, SameInv

\* SameInv speaks of the system, which never changes.
LEMMA SystemStays == [Next]_vars => sys' = sys
BY DEF Next, vars, device, Register, FindNone, Find, AddFails, Add, ProbeFails,
   NullDereference, Probe, Offer, OfferFails, Exit

LEMMA SameStep == IInv /\ SameInv /\ [Next]_vars => SameInv'
<1> SUFFICES ASSUME IInv, SameInv, [Next]_vars PROVE SameInv'
  OBVIOUS
<1>0. sys' = sys
  BY SystemStays
<1>1. \A n : SioOf(n)' = SioOf(n) /\ ProbedEc(n)' = ProbedEc(n) /\ DataOf(n)' = DataOf(n)
  BY <1>0 DEF SioOf, ProbedEc, DataOf
<1>2. CASE Find
  <2>1. FoundSio(chip, ClearedSio) = Found(chip)
    BY FoundAlone DEF ClearedSio, chip, SameInv
  <2>2. sio_data' = SioOf(i) /\ i' = i
    <3>1. sio_data' = [FoundSio(chip, ClearedSio) EXCEPT !.skip_pwm = @ \union sys.dmi_skip_pwm]
          /\ i' = i
      BY <1>2 DEF Find
    <3> QED BY <2>1, <3>1 DEF SioOf, chip
  <2>3. \A n \in routed' : Routes(sys.chips[n])
    BY <1>2 DEF Find, SameInv, chip
  <2> QED BY <1>0, <1>1, <1>2, <2>2, <2>3 DEF Find, SameInv
<1>3. CASE Probe
  <2> DEFINE b == sys.chips[i]
             s == SioOf(i)
  <2>1. i \in Slot /\ b \in Chip /\ b # NoChip /\ sio_data = s /\ chip = b
    BY <1>3, SystemFields DEF Probe, IInv, LoadTypes, DevicesInv, SameInv, chip
  <2>2. ec[i] \in {b.ec, Probed(b.type, b.rev, b.ec, s)}
    BY <2>1 DEF SameInv, ProbedEc
  <2>3. b.ec \in Ec /\ b.type \in ChipType
    BY <2>1, ChipFields
  <2>4. Data(b, ec[i], s) = DataOf(i)
    BY <2>1, <2>2, SameData DEF DataOf
  <2>5. Probed(b.type, b.rev, ec[i], s) = ProbedEc(i)
    BY <2>2, <2>3, ProbedTwice DEF ProbedEc
  <2>6. ec'[i] = ProbedEc(i) /\ \A n \in Slot \ {i} : ec'[n] = ec[n]
    <3>1. ec' = [ec EXCEPT ![i] = Probed(b.type, b.rev, @, s)]
      BY <1>3, <2>1 DEF Probe, Probed
    <3> QED BY <2>1, <2>5, <3>1 DEF IInv, LoadTypes
  <2>7. data'[i] = DataOf(i)
    BY <1>3, <2>1, <2>4 DEF Probe, IInv, LoadTypes
  <2>8. \A n \in Slot : sys.chips[n] # NoChip => ec'[n] \in {sys.chips[n].ec, ProbedEc(n)}
    BY <2>6 DEF SameInv
  <2> QED BY <1>0, <1>1, <1>3, <2>7, <2>8 DEF Probe, SameInv
<1>4. CASE Offer
  <2>1. offered' = [offered EXCEPT ![i] = DataOf(i)] /\ UNCHANGED device /\ NextSlot(TRUE)
    BY <1>4 DEF Offer, SameInv
  <2> QED BY <1>0, <1>1, <2>1 DEF SameInv, device, NextSlot
<1>5. CASE FindNone \/ ProbeFails \/ OfferFails
  BY <1>0, <1>1, <1>5 DEF FindNone, ProbeFails, OfferFails, NextSlot, SameInv, device
<1>6. CASE Register \/ AddFails \/ Exit
  BY <1>0, <1>1, <1>6 DEF Register, AddFails, Exit, SameInv, device
<1>7. CASE Add \/ NullDereference
  BY <1>0, <1>1, <1>7 DEF Add, NullDereference, SameInv, device
<1>8. CASE UNCHANGED vars
  BY <1>0, <1>1, <1>8 DEF vars, SameInv, device
<1> QED BY <1>2, <1>3, <1>4, <1>5, <1>6, <1>7, <1>8 DEF Next
-----------------------------------------------------------------------------
(* The theorems.                                                           *)

THEOREM LoadInvariant == Spec => []IInv
  BY InitIInv, LoadStep, PTL DEF Spec

\* Whatever fails while the module is loaded, at the first chip or the second, what
\* was registered is gone again; and after a load that succeeded there is a device.
THEOREM LoadIsAllOrNothing == Spec => []LoadAllOrNothing
<1>1. IInv => LoadAllOrNothing
  BY DEF IInv, DevicesInv, LoadTypes, LoadAllOrNothing
<1> QED BY <1>1, LoadInvariant, PTL

\* it87_init_device switches every chip that needs it to 16-bit fans, whatever the
\* firmware left.
THEOREM WideFansMeasuredWide == Spec => []WideFansAreWide
<1>1. IInv => WideFansAreWide
  BY DEF IInv
<1> QED BY <1>1, LoadInvariant, PTL

\* Nothing is carried over from the other chip, or from an earlier load, into what a
\* chip offers: neither in the structure it87_find fills nor in its registers.
THEOREM NothingCarriedOver == Spec => []OffersTheSame
<1>1. IInv /\ SameInv => OffersTheSame
  BY DEF IInv, LoadTypes, SameInv, OffersTheSame, Offering
<1> QED BY <1>1, InitSame, SameStep, LoadInvariant, PTL DEF Spec

\* The handlers of the attributes, and the cache they share, leave the loading as it
\* is: It87Sensors implements It87Load.
THEOREM DriverLoads == DriverSpec => Spec
<1>1. DriverInit => Init
  BY DEF DriverInit
<1>2. [DriverNext]_allVars => [Next]_vars
  BY DEF DriverNext, Next, allVars
<1> QED BY <1>1, <1>2, PTL DEF DriverSpec, Spec

\* So what holds of the loading holds of the driver in use.
THEOREM DriverIsAllOrNothing == DriverSpec => [](LoadAllOrNothing /\ WideFansAreWide /\ OffersTheSame)
  BY DriverLoads, LoadIsAllOrNothing, WideFansMeasuredWide, NothingCarriedOver, PTL
-----------------------------------------------------------------------------
(* The types of the variables.                                             *)

\* The structures it87_find and it87_probe fill, and what else TypeOK bounds
SioType ==
  /\ sio_data.skip_fan \union sio_data.skip_pwm \subseteq 0..5
  /\ sio_data.skip_in \subseteq 0..9 /\ sio_data.internal \subseteq 0..3

SensorsOf(d) ==
  /\ d.has_fan \subseteq 0..5 /\ d.has_pwm \subseteq 0..5 /\ d.has_temp \subseteq 0..5
  /\ d.has_in \subseteq 0..12

RangeInv ==
  /\ driver \in BOOLEAN /\ routed \subseteq Slot /\ loads \in 0..MaxLoads(sys)
  /\ \A n \in Slot : sys.chips[n] = NoChip => ec[n] = NoData
  /\ SioType
  /\ \A n \in Slot : data[n] # NoData => SensorsOf(data[n])

LEMMA WhenWithin ==
  ASSUME NEW cond, NEW S, NEW T, S \subseteq T
  PROVE  When(cond, S) \subseteq T
  BY DEF When

\* The tables of pins name fans and channels 0 to 5 and voltages 0 to 9.
LEMMA FoundRanges ==
  ASSUME NEW c, NEW isRouted
  PROVE  /\ SkipFan(c) \subseteq 0..5 /\ SkipPwm(c) \subseteq 0..5
         /\ SkipIn(c) \subseteq 0..9 /\ Internal(c, isRouted) \subseteq 0..3
<1>1. UsualFan(c) \subseteq 0..5 /\ Gpio2Fan(c) \subseteq 0..5
  BY DEF UsualFan, Gpio2Fan, When
<1>2. SkipFan(c) \subseteq 0..5
  BY <1>1 DEF SkipFan, When
<1>3. UsualPwm(c) \subseteq 0..5
  BY DEF UsualPwm
<1>4. PwmPinsTaken(c) \subseteq 0..5
  BY <1>3 DEF PwmPinsTaken, When
<1>5. NoPwm(c.type) \subseteq 0..5
  BY DEF NoPwm
<1>6. SkipIn(c) \subseteq 0..9
  BY DEF SkipIn, InPinsTaken, When
<1>7. Internal(c, isRouted) \subseteq 0..3
  BY DEF Internal, When
<1> QED BY <1>2, <1>4, <1>5, <1>6, <1>7 DEF SkipPwm

LEMMA DataRanges ==
  ASSUME NEW b, NEW c \in Ec, NEW s
  PROVE  SensorsOf(Data(b, c, s))
<1> DEFINE d == Data(b, c, s)
<1>1. Tachometers(c, s) \in SUBSET (0..2)
  BY ModesType
<1>2. HasFan(b.type, b.rev, c, s) \subseteq 0..5
  BY <1>1 DEF HasFan, When
<1>3. HasPwm(b, c, s) \subseteq 0..5
  BY DEF HasPwm, When
<1>4. HasTemp(b, c, s) \subseteq 0..5
  BY DEF HasTemp, When
<1>5. HasIn(b, c, s) \subseteq 0..12
  BY DEF HasIn, When
<1>6. d.has_fan = HasFan(b.type, b.rev, c, s) /\ d.has_pwm = HasPwm(b, c, s)
      /\ d.has_temp = HasTemp(b, c, s) /\ d.has_in = HasIn(b, c, s)
  BY DEF Data
<1> QED BY <1>2, <1>3, <1>4, <1>5, <1>6 DEF SensorsOf

LEMMA InitRange == Init => RangeInv
<1> SUFFICES ASSUME Init PROVE RangeInv
  OBVIOUS
<1>1. MaxLoads(sys) \in Nat
  BY MaxLoadsAssumption DEF Init
<1>2. driver \in BOOLEAN /\ routed \subseteq Slot /\ loads \in 0..MaxLoads(sys)
  <2>1. driver = FALSE /\ routed = {} /\ loads = 0
    BY Zenon DEF Init
  <2>2. loads \in 0..MaxLoads(sys)
    BY <1>1, <2>1, SMT
  <2> QED BY <2>1, <2>2, Zenon
<1>3. SioType
  BY DEF Init, SioType, BlankSio
<1>4. \A n \in Slot : data[n] = NoData /\ (sys.chips[n] = NoChip => ec[n] = NoData)
  BY DEF Init
<1> QED BY <1>2, <1>3, <1>4 DEF RangeInv

LEMMA RangeStep == IInv /\ RangeInv /\ [Next]_vars => RangeInv'
<1> SUFFICES ASSUME IInv, RangeInv, [Next]_vars PROVE RangeInv'
  OBVIOUS
<1>0. sys' = sys /\ MaxLoads(sys) \in Nat /\ sys \in System
  BY SystemStays, MaxLoadsAssumption DEF IInv, LoadTypes
<1>1. CASE Register
  <2>1. loads' \in 0..MaxLoads(sys)
    BY <1>0, <1>1 DEF Register, RangeInv
  <2> QED BY <1>0, <1>1, <2>1 DEF Register, RangeInv, SioType, device
<1>2. CASE FindNone
  <2>1. SioType'
    BY <1>2 DEF FindNone, ClearedSio, BlankSio, SioType
  <2> QED BY <1>0, <1>2, <2>1 DEF FindNone, NextSlot, RangeInv, device
<1>3. CASE Find
  <2>1. sys.dmi_skip_pwm \subseteq 0..5
    BY <1>0, SystemAssumption
  <2>2. PICK s : s = FoundSio(chip, ClearedSio)
                 /\ sio_data' = [s EXCEPT !.skip_pwm = @ \union sys.dmi_skip_pwm]
    BY <1>3 DEF Find
  <2>3. /\ s.skip_fan = SkipFan(chip) /\ s.skip_pwm = SkipPwm(chip) /\ s.skip_in = SkipIn(chip)
        /\ s.internal = Internal(chip, i \in routed \/ Routes(chip))
        /\ DOMAIN s = {"skip_fan", "skip_pwm", "skip_in", "skip_temp", "internal", "beep_pin"}
    BY <2>2 DEF FoundSio, ClearedSio, BlankSio
  <2>4. SioType'
    BY <2>1, <2>2, <2>3, FoundRanges DEF SioType
  <2>5. routed' \subseteq Slot
    BY <1>3 DEF Find, RangeInv, IInv, LoadTypes
  <2> QED BY <1>0, <1>3, <2>4, <2>5 DEF Find, RangeInv
<1>4. CASE Probe
  <2>1. i \in Slot /\ ec[i] \in Ec /\ chip # NoChip
    BY <1>4 DEF Probe, IInv, LoadTypes, DevicesInv, chip
  <2>2. SensorsOf(data'[i]) /\ \A n \in Slot \ {i} : data'[n] = data[n]
    BY <1>4, <2>1, DataRanges DEF Probe, IInv, LoadTypes
  <2>3. \A n \in Slot \ {i} : ec'[n] = ec[n]
    BY <1>4, <2>1 DEF Probe, IInv, LoadTypes
  <2> QED BY <1>0, <1>4, <2>1, <2>2, <2>3 DEF Probe, RangeInv, SioType, chip
<1>5. CASE AddFails \/ Add \/ ProbeFails \/ NullDereference \/ Offer \/ OfferFails \/ Exit
  <2>1. /\ \A n \in Slot : data'[n] # NoData => data'[n] = data[n]
        /\ UNCHANGED <<ec, routed, loads, sio_data>> /\ driver' \in {driver, FALSE}
    BY <1>5 DEF AddFails, Add, ProbeFails, NullDereference, Offer, OfferFails, Exit, device,
       NextSlot, IInv, LoadTypes
  <2> QED BY <1>0, <2>1 DEF RangeInv, SioType
<1>6. CASE UNCHANGED vars
  BY <1>0, <1>6 DEF vars, device, RangeInv, SioType
<1> QED BY <1>1, <1>2, <1>3, <1>4, <1>5, <1>6 DEF Next

\* The variables of the loading have the types TypeOK gives them: no pin table names
\* a sensor outside the masks, and a slot without a chip keeps no registers.
THEOREM LoadTypeCorrect == Spec => []TypeOK
<1>1. ASSUME IInv, RangeInv PROVE TypeOK
  <2>1. /\ sys \in System /\ i \in Slot /\ found \in BOOLEAN /\ pc \in Label /\ pdev \subseteq Slot
    BY <1>1 DEF IInv, LoadTypes
  <2>2. \A n \in Slot : IF sys.chips[n] = NoChip THEN ec[n] = NoData ELSE ec[n] \in Ec
    BY <1>1 DEF IInv, LoadTypes, RangeInv
  <2>3. \A n \in Slot : data[n] # NoData => n \in pdev /\ SensorsOf(data[n])
    BY <1>1 DEF IInv, DevicesInv, RangeInv
  <2> QED BY <1>1, <2>1, <2>2, <2>3 DEF RangeInv, SioType, SensorsOf, Label, TypeOK
<1> QED BY <1>1, InitRange, RangeStep, LoadInvariant, PTL DEF Spec
-----------------------------------------------------------------------------
(* What the chips' tables of pins and features say of labels.              *)

\* The voltages 4, 8, 9 and 10, as users count them, have labels; of these only the
\* last can be skipped, and where it is skipped it is not internal either.
LEMMA InternalHasInput ==
  ASSUME NEW c, c.type \notin {"it8613", "it8622"}, NEW isRouted, NEW k \in Internal(c, isRouted)
  PROVE  k \in 0..3 /\ <<3, 7, 8, 9>>[k + 1] \notin SkipIn(c)
<1>1. k \in 0..3
  BY FoundRanges
<1>2. SkipIn(c) \subseteq {5, 6, 9}
  BY DEF SkipIn, InPinsTaken, When
<1>3. k \in 0..2 => <<3, 7, 8, 9>>[k + 1] \in {3, 7, 8}
  OBVIOUS
<1>4. k = 3 => c.type \in HasAvcc3 /\ ~(c.type \in SixTempType /\ ~PinSet(c, "PINX2", 0))
  BY DEF Internal, When
<1>5. k = 3 => 9 \notin SkipIn(c)
  BY <1>4 DEF SkipIn, InPinsTaken, When
<1> QED BY <1>1, <1>2, <1>3, <1>5

LEMMA LabelsOfData ==
  ASSUME NEW n \in Slot, sys.chips[n].type \notin {"it8613", "it8622"}
  PROVE  \A v \in LabelShown(DataOf(n)) : v \in DataOf(n).has_in
<1> DEFINE c == sys.chips[n]
           d == DataOf(n)
<1>1. /\ d.in_internal = Internal(c, Routes(c))
      /\ \A v \in 0..9 : v \notin SkipIn(c) => v \in d.has_in
  BY DEF DataOf, Data, SioOf, Found, HasIn
<1> HIDE DEF d
<1>2. ASSUME NEW v \in LabelShown(d) PROVE v \in d.has_in
  <2>1. PICK j \in 1..4 : j - 1 \in d.in_internal /\ v = <<3, 7, 8, 9>>[j]
    BY <1>2 DEF LabelShown, Visible, it87_attributes_label, it87_is_visible
  <2>2. v \notin SkipIn(c)
    BY <1>1, <2>1, InternalHasInput
  <2>3. v \in 0..9
    BY <2>1
  <2> QED BY <1>1, <2>2, <2>3
<1> QED BY <1>2 DEF d

\* Every voltage with a label has a value, of all types but the two the property names:
\* the masks of skipped and of internal voltages, computed apart, agree.
LEMMA LabelledVoltagesExist ==
  ASSUME IInv, SameInv
  PROVE  LabelsHaveInputs
<1>1. ASSUME Offering PROVE i \in Slot /\ data[i] = DataOf(i) /\ data[i].type = sys.chips[i].type
  BY <1>1 DEF IInv, LoadTypes, SameInv, Offering, DataOf, Data
<1> QED BY <1>1, LabelsOfData DEF LabelsHaveInputs
-----------------------------------------------------------------------------
(* The arrays of attributes, and what the is_visible functions leave of    *)
(* them: an array is laid out sensor by sensor (Tabulated), so that what   *)
(* is visible is found by sensor and kind instead of by position.          *)

Kind ==
  {"input", "min", "max", "alarm", "beep", "type", "offset", "div", "enable", "pwm", "freq",
   "auto_channels_temp", "point1_temp", "point1_temp_hyst", "point2_temp", "point3_temp",
   "point4_temp", "point1_pwm", "point2_pwm", "point3_pwm", "point4_pwm", "start", "slope"}

\* s holds the attributes of the first m sensors: those of sensor n, of the kinds
\* kinds[n], come after the first start[n].
Tabulated(s, m, start, kinds) ==
  /\ s \in Seq([nr : Nat, kind : Kind]) /\ Len(s) = start[m]
  /\ \A n \in 0..m - 1 : \A a \in DOMAIN kinds[n] :
       start[n] + a \in DOMAIN s /\ s[start[n] + a] = [nr |-> n, kind |-> kinds[n][a]]
  /\ \A k \in DOMAIN s : \E n \in 0..m - 1 : \E a \in DOMAIN kinds[n] : k = start[n] + a

\* The array grows by the attributes of one sensor.
LEMMA OneSensorMore ==
  ASSUME NEW s, NEW m \in Nat, NEW start, NEW kinds, Tabulated(s, m, start, kinds),
         kinds[m] \in Seq(Kind), start[m + 1] = start[m] + Len(kinds[m])
  PROVE  Tabulated(s \o Of(m, kinds[m]), m + 1, start, kinds)
<1> DEFINE t == Of(m, kinds[m])
           w == Len(kinds[m])
           u == s \o t
           l == Len(s)
           A == [nr : Nat, kind : Kind]
<1>1. /\ DOMAIN kinds[m] = 1..w /\ w \in Nat
      /\ \A a \in 1..w : kinds[m][a] \in Kind
  OBVIOUS
<1>2. t = [k \in 1..w |-> [nr |-> m, kind |-> kinds[m][k]]]
  BY <1>1 DEF Of
<1>3. t \in Seq(A) /\ Len(t) = w /\ s \in Seq(A)
  BY <1>1, <1>2 DEF Tabulated
<1>5. l = start[m]
  BY DEF Tabulated
<1> HIDE DEF t, w, A
<1>4. /\ u \in Seq(A) /\ l \in Nat /\ Len(u) = l + w
      /\ DOMAIN s = 1..l /\ DOMAIN u = 1..l + w
      /\ \A k \in 1..l : u[k] = s[k]
      /\ \A a \in 1..w : u[l + a] = t[a]
  BY <1>3
<1> HIDE DEF u, l
<1>9. 0..(m + 1) - 1 = 0..m
  OBVIOUS
<1>6. ASSUME NEW n \in 0..(m + 1) - 1, NEW a \in DOMAIN kinds[n]
      PROVE  start[n] + a \in DOMAIN u /\ u[start[n] + a] = [nr |-> n, kind |-> kinds[n][a]]
  <2>1. CASE n = m
    <3>1. a \in 1..w
      BY <1>1, <2>1
    <3>2. l + a \in DOMAIN u /\ u[l + a] = t[a]
      BY <1>3, <1>4, <3>1, SMTT(40) DEF w
    <3>3. t[a] = [nr |-> m, kind |-> kinds[m][a]]
      BY <1>2, <3>1
    <3> QED BY <1>5, <2>1, <3>2, <3>3, Zenon
  <2>2. CASE n \in 0..m - 1
    <3>1. start[n] + a \in DOMAIN s /\ s[start[n] + a] = [nr |-> n, kind |-> kinds[n][a]]
      BY <2>2, Zenon DEF Tabulated
    <3> DEFINE k == start[n] + a
    <3> HIDE DEF k
    <3>2. k \in DOMAIN s => k \in DOMAIN u /\ u[k] = s[k]
      BY <1>1, <1>3, <1>4 DEF w
    <3> QED BY <3>1, <3>2 DEF k
  <2> QED BY <1>9, <2>1, <2>2
<1>7. ASSUME NEW k \in DOMAIN u
      PROVE  \E n \in 0..(m + 1) - 1 : \E a \in DOMAIN kinds[n] : k = start[n] + a
  <2>1. CASE k \in DOMAIN s
    <3>1. \E n \in 0..m - 1 : \E a \in DOMAIN kinds[n] : k = start[n] + a
      BY <2>1, Zenon DEF Tabulated
    <3>2. \A n \in 0..m - 1 : n \in 0..(m + 1) - 1
      BY <1>9
    <3> QED BY <3>1, <3>2, Zenon
  <2>2. CASE k \notin DOMAIN s
    <3>1. k - l \in DOMAIN kinds[m] /\ k = start[m] + (k - l)
      BY <1>1, <1>4, <1>5, <2>2, SMTT(40)
    <3> QED BY <1>9, <3>1
  <2> QED BY <2>1, <2>2
<1>8. Len(u) = start[m + 1]
  BY <1>4, <1>5 DEF w
<1> QED BY <1>4, <1>6, <1>7, <1>8, Zenon DEF Tabulated, t, u, A

\* And it begins with those of the first.
LEMMA FirstSensor ==
  ASSUME NEW start, NEW kinds, kinds[0] \in Seq(Kind), start[0] = 0,
         start[1] = Len(kinds[0])
  PROVE  Tabulated(Of(0, kinds[0]), 1, start, kinds)
<1> DEFINE t == Of(0, kinds[0])
           w == Len(kinds[0])
           A == [nr : Nat, kind : Kind]
<1>1. /\ DOMAIN kinds[0] = 1..w /\ w \in Nat
      /\ \A a \in 1..w : kinds[0][a] \in Kind
  OBVIOUS
<1>2. t = [k \in 1..w |-> [nr |-> 0, kind |-> kinds[0][k]]]
  BY <1>1 DEF Of
<1>a. \A k \in 1..w : [nr |-> 0, kind |-> kinds[0][k]] \in A
  BY <1>1
<1> HIDE DEF A, w, t
<1>3. t \in Seq(A) /\ Len(t) = w /\ DOMAIN t = 1..w
  BY <1>1, <1>2, <1>a
<1>4. 0..1 - 1 = {0}
  OBVIOUS
<1>5. \A a \in DOMAIN kinds[0] : start[0] + a \in DOMAIN t
                                  /\ t[start[0] + a] = [nr |-> 0, kind |-> kinds[0][a]]
  BY <1>1, <1>2, <1>3
<1>6. \A k \in DOMAIN t : k \in DOMAIN kinds[0] /\ k = start[0] + k
  BY <1>1, <1>3
<1>7. Len(t) = start[1]
  BY <1>3 DEF w
<1>8. \A n \in 0..1 - 1 : n = 0
  BY <1>4
<1>9. \A k \in DOMAIN t : \E n \in 0..1 - 1 : \E a \in DOMAIN kinds[n] : k = start[n] + a
  BY <1>4, <1>6
<1>10. \A n \in 0..1 - 1 : \A a \in DOMAIN kinds[n] :
         start[n] + a \in DOMAIN t /\ t[start[n] + a] = [nr |-> n, kind |-> kinds[n][a]]
  BY <1>5, <1>8
<1> QED BY <1>3, <1>7, <1>9, <1>10, Zenon DEF Tabulated, t, A

\* What is_visible leaves of an array, given the positions it shows
Taken(s, shown) == {s[k] : k \in {j \in DOMAIN s : j - 1 \in shown}}

\* So what is visible is found by sensor and place among its attributes.
LEMMA VisibleByPlace ==
  ASSUME NEW s, NEW m, NEW start, NEW kinds, Tabulated(s, m, start, kinds),
         NEW shown
  PROVE  \A x : x \in Taken(s, shown) <=>
                  \E n \in 0..m - 1 : \E a \in DOMAIN kinds[n] :
                    x = [nr |-> n, kind |-> kinds[n][a]] /\ (start[n] + a) - 1 \in shown
<1>1. ASSUME NEW k \in DOMAIN s, k - 1 \in shown
      PROVE  \E n \in 0..m - 1 : \E a \in DOMAIN kinds[n] :
                s[k] = [nr |-> n, kind |-> kinds[n][a]] /\ (start[n] + a) - 1 \in shown
  <2>1. PICK n \in 0..m - 1 : \E a \in DOMAIN kinds[n] : k = start[n] + a
    BY DEF Tabulated
  <2>2. PICK a \in DOMAIN kinds[n] : k = start[n] + a
    BY <2>1
  <2>3. s[k] = [nr |-> n, kind |-> kinds[n][a]]
    BY <2>2 DEF Tabulated
  <2>4. (start[n] + a) - 1 \in shown
    BY <1>1, <2>2
  <2>5. \E b \in DOMAIN kinds[n] :
           s[k] = [nr |-> n, kind |-> kinds[n][b]] /\ (start[n] + b) - 1 \in shown
    BY <2>2, <2>3, <2>4
  <2> QED BY <2>1, <2>5, Zenon
<1>2. ASSUME NEW n \in 0..m - 1, NEW a \in DOMAIN kinds[n], (start[n] + a) - 1 \in shown
      PROVE  \E k \in DOMAIN s : k - 1 \in shown /\ s[k] = [nr |-> n, kind |-> kinds[n][a]]
  <2>1. start[n] + a \in DOMAIN s /\ s[start[n] + a] = [nr |-> n, kind |-> kinds[n][a]]
    BY DEF Tabulated
  <2> QED BY <1>2, <2>1
<1> DEFINE Seen(x) == \E n \in 0..m - 1 : \E a \in DOMAIN kinds[n] :
                        x = [nr |-> n, kind |-> kinds[n][a]] /\ (start[n] + a) - 1 \in shown
<1>3. ASSUME NEW x \in Taken(s, shown) PROVE Seen(x)
  <2>1. PICK k \in DOMAIN s : k - 1 \in shown /\ x = s[k]
    BY <1>3 DEF Taken
  <2> QED BY <1>1, <2>1, Zenon
<1>4. ASSUME NEW x, Seen(x) PROVE x \in Taken(s, shown)
  <2>1. PICK n \in 0..m - 1 : \E a \in DOMAIN kinds[n] :
          x = [nr |-> n, kind |-> kinds[n][a]] /\ (start[n] + a) - 1 \in shown
    BY <1>4
  <2>2. PICK a \in DOMAIN kinds[n] :
          x = [nr |-> n, kind |-> kinds[n][a]] /\ (start[n] + a) - 1 \in shown
    BY <2>1
  <2>3. PICK k \in DOMAIN s : k - 1 \in shown /\ s[k] = x
    BY <1>2, <2>2, Zenon
  <2> QED BY <2>3 DEF Taken
<1> QED BY <1>3, <1>4, Zenon

\* Five more sensors, of the arrays that list six
LEMMA SixSensors ==
  ASSUME NEW start, NEW kinds, start[0] = 0,
         \A n \in Nat : kinds[n] \in Seq(Kind) /\ start[n + 1] = start[n] + Len(kinds[n])
  PROVE  Tabulated(Of(0, kinds[0]) \o Of(1, kinds[1]) \o Of(2, kinds[2])
                   \o Of(3, kinds[3]) \o Of(4, kinds[4]) \o Of(5, kinds[5]), 6, start, kinds)
<1>1. ASSUME NEW n \in Nat, NEW s, Tabulated(s, n, start, kinds)
      PROVE  Tabulated(s \o Of(n, kinds[n]), n + 1, start, kinds)
  BY <1>1, OneSensorMore, Zenon
<1>2. /\ 0 \in Nat /\ 1 \in Nat /\ 2 \in Nat /\ 3 \in Nat /\ 4 \in Nat /\ 5 \in Nat
      /\ 0 + 1 = 1 /\ 1 + 1 = 2 /\ 2 + 1 = 3 /\ 3 + 1 = 4 /\ 4 + 1 = 5 /\ 5 + 1 = 6
  BY SMT
<1>3. Len(kinds[0]) \in Nat
  BY <1>2
<1>4. start[1] = Len(kinds[0])
  <2>1. start[0 + 1] = start[0] + Len(kinds[0])
    BY <1>2, Zenon
  <2> QED BY <1>2, <1>3, <2>1
<1>5. Tabulated(Of(0, kinds[0]), 1, start, kinds)
  BY <1>2, <1>4, FirstSensor, Zenon
<1>6. Tabulated(Of(0, kinds[0]) \o Of(1, kinds[1]), 2, start, kinds)
  BY <1>1, <1>2, <1>5, Zenon
<1>7. Tabulated(Of(0, kinds[0]) \o Of(1, kinds[1]) \o Of(2, kinds[2]), 3, start, kinds)
  BY <1>1, <1>2, <1>6, Zenon
<1>8. Tabulated(Of(0, kinds[0]) \o Of(1, kinds[1]) \o Of(2, kinds[2]) \o Of(3, kinds[3]),
                4, start, kinds)
  BY <1>1, <1>2, <1>7, Zenon
<1>9. Tabulated(Of(0, kinds[0]) \o Of(1, kinds[1]) \o Of(2, kinds[2]) \o Of(3, kinds[3])
                \o Of(4, kinds[4]), 5, start, kinds)
  BY <1>1, <1>2, <1>8, Zenon
<1> QED BY <1>1, <1>2, <1>9, Zenon

\* A join is the sequence with its elements.
LEMMA Joined ==
  ASSUME NEW s \in Seq(Kind), NEW t \in Seq(Kind), NEW u \in Seq(Kind),
         Len(u) = Len(s) + Len(t),
         \A k \in 1..Len(s) : u[k] = s[k], \A k \in 1..Len(t) : u[Len(s) + k] = t[k]
  PROVE  s \o t = u
<1>1. s \o t \in Seq(Kind) /\ Len(s \o t) = Len(s) + Len(t)
  OBVIOUS
<1>2. \A k \in 1..Len(u) : (s \o t)[k] = u[k]
  OBVIOUS
<1> QED BY <1>1, <1>2

FanDivKinds == <<"input", "min", "alarm", "beep", "div">>
LateKinds ==
  <<"point1_temp", "point1_temp_hyst", "point2_temp", "point3_temp", "start", "slope">>
AllAutoKinds ==
  <<"point1_pwm", "point2_pwm", "point3_pwm", "point4_pwm", "point1_temp", "point1_temp_hyst",
    "point2_temp", "point3_temp", "point4_temp", "start", "slope">>

\* The kinds that are joins, written out
LEMMA JoinedKinds ==
  /\ FanKinds \o <<"div">> = FanDivKinds
  /\ PointKinds \o StartKinds = LateKinds
  /\ AutoKinds = AllAutoKinds
<1>1. FanKinds \o <<"div">> = FanDivKinds
  <2> DEFINE s == FanKinds
             t == <<"div">>
  <2>1. /\ s \in Seq(Kind) /\ t \in Seq(Kind) /\ FanDivKinds \in Seq(Kind)
        /\ Len(FanDivKinds) = Len(s) + Len(t)
        /\ \A k \in 1..Len(s) : FanDivKinds[k] = s[k]
        /\ \A k \in 1..Len(t) : FanDivKinds[Len(s) + k] = t[k]
    BY DEF FanKinds, FanDivKinds, Kind
  <2> HIDE DEF s, t
  <2>2. s \o t = FanDivKinds
    BY <2>1, Joined
  <2> QED BY <2>2 DEF s, t
<1>2. PointKinds \o StartKinds = LateKinds
  <2> DEFINE s == PointKinds
             t == StartKinds
  <2>1. /\ s \in Seq(Kind) /\ t \in Seq(Kind) /\ LateKinds \in Seq(Kind)
        /\ Len(LateKinds) = Len(s) + Len(t)
        /\ \A k \in 1..Len(s) : LateKinds[k] = s[k]
        /\ \A k \in 1..Len(t) : LateKinds[Len(s) + k] = t[k]
    BY DEF PointKinds, StartKinds, LateKinds, Kind
  <2> HIDE DEF s, t
  <2>2. s \o t = LateKinds
    BY <2>1, Joined
  <2> QED BY <2>2 DEF s, t
<1>3. AutoKinds = AllAutoKinds
  <2> DEFINE p == <<"point1_pwm", "point2_pwm", "point3_pwm", "point4_pwm">>
             q == <<"point1_pwm", "point2_pwm", "point3_pwm", "point4_pwm", "point1_temp",
                    "point1_temp_hyst", "point2_temp", "point3_temp">>
             r == <<"point1_pwm", "point2_pwm", "point3_pwm", "point4_pwm", "point1_temp",
                    "point1_temp_hyst", "point2_temp", "point3_temp", "point4_temp">>
             t == <<"point4_temp">>
  <2>1. /\ p \in Seq(Kind) /\ q \in Seq(Kind) /\ r \in Seq(Kind) /\ t \in Seq(Kind)
        /\ PointKinds \in Seq(Kind) /\ StartKinds \in Seq(Kind) /\ AllAutoKinds \in Seq(Kind)
    BY DEF PointKinds, StartKinds, AllAutoKinds, Kind
  <2>2. /\ Len(q) = Len(p) + Len(PointKinds)
        /\ \A k \in 1..Len(p) : q[k] = p[k]
        /\ \A k \in 1..Len(PointKinds) : q[Len(p) + k] = PointKinds[k]
    BY DEF PointKinds
  <2>3. /\ Len(r) = Len(q) + Len(t)
        /\ \A k \in 1..Len(q) : r[k] = q[k]
        /\ \A k \in 1..Len(t) : r[Len(q) + k] = t[k]
    OBVIOUS
  <2>4. /\ Len(AllAutoKinds) = Len(r) + Len(StartKinds)
        /\ \A k \in 1..Len(r) : AllAutoKinds[k] = r[k]
        /\ \A k \in 1..Len(StartKinds) : AllAutoKinds[Len(r) + k] = StartKinds[k]
    BY DEF AllAutoKinds, StartKinds
  <2>5. AutoKinds = p \o PointKinds \o t \o StartKinds
    BY Zenon DEF AutoKinds
  <2> HIDE DEF p, q, r, t
  <2>6. p \o PointKinds = q
    BY <2>1, <2>2, Joined, ZenonT(40)
  <2>7. q \o t = r
    BY <2>1, <2>3, Joined, ZenonT(40)
  <2>8. r \o StartKinds = AllAutoKinds
    BY <2>1, <2>4, Joined, ZenonT(40)
  <2> QED BY <2>5, <2>6, <2>7, <2>8, Zenon
<1> QED BY <1>1, <1>2, <1>3

\* The kinds of the attributes of each sensor, and the position before them
InStart == [n \in Nat |-> IF n < 8 THEN 5 * n ELSE n + 32]
InKindsOf == [n \in Nat |-> IF n < 8 THEN InKinds ELSE <<"input">>]
TempStart == [n \in Nat |-> 7 * n]
TempKindsOf == [n \in Nat |-> TempKinds]
FanStart == [n \in Nat |-> IF n < 3 THEN 5 * n ELSE 4 * n + 3]
FanKindsOf == [n \in Nat |-> IF n < 3 THEN FanDivKinds ELSE FanKinds]
PwmStart == [n \in Nat |-> 4 * n]
PwmKindsOf == [n \in Nat |-> PwmKinds]
AutoStart == [n \in Nat |-> IF n < 3 THEN 11 * n ELSE 6 * n + 15]
AutoKindsOf == [n \in Nat |-> IF n < 3 THEN AllAutoKinds ELSE LateKinds]

\* How many attributes a sensor has
LEMMA KindTypes ==
  /\ InKinds \in Seq(Kind) /\ Len(InKinds) = 5 /\ <<"input">> \in Seq(Kind) /\ Len(<<"input">>) = 1
  /\ TempKinds \in Seq(Kind) /\ Len(TempKinds) = 7
  /\ FanDivKinds \in Seq(Kind) /\ Len(FanDivKinds) = 5
  /\ FanKinds \in Seq(Kind) /\ Len(FanKinds) = 4
  /\ PwmKinds \in Seq(Kind) /\ Len(PwmKinds) = 4
  /\ AllAutoKinds \in Seq(Kind) /\ Len(AllAutoKinds) = 11
  /\ LateKinds \in Seq(Kind) /\ Len(LateKinds) = 6
BY DEF InKinds, TempKinds, FanDivKinds, FanKinds, PwmKinds, AllAutoKinds, LateKinds, Kind

\* The layout of the four arrays that list six sensors
LEMMA Tables ==
  /\ Tabulated(it87_attributes_temp, 6, TempStart, TempKindsOf)
  /\ Tabulated(it87_attributes_fan, 6, FanStart, FanKindsOf)
  /\ Tabulated(it87_attributes_pwm, 6, PwmStart, PwmKindsOf)
  /\ Tabulated(it87_attributes_auto_pwm, 6, AutoStart, AutoKindsOf)
<1>1. Tabulated(it87_attributes_temp, 6, TempStart, TempKindsOf)
  <2>1. \A n \in Nat : /\ TempStart[n] = 7 * n
                     /\ TempKindsOf[n] = TempKinds
    BY DEF TempStart, TempKindsOf
  <2>2. TempStart[0] = 0
    BY <2>1
  <2>3. ASSUME NEW n \in Nat
        PROVE  TempKindsOf[n] \in Seq(Kind) /\ TempStart[n + 1] = TempStart[n] + Len(TempKindsOf[n])
    <3>1. n + 1 \in Nat
      OBVIOUS
    <3>2. /\ TempStart[n] = 7 * n
          /\ TempKindsOf[n] = TempKinds
      BY <2>1
    <3>3. TempStart[n + 1] = 7 * (n + 1)
      BY <2>1, <3>1
    <3> QED BY <3>2, <3>3, KindTypes
  <2>4. /\ TempKindsOf[0] = TempKinds
        /\ TempKindsOf[1] = TempKinds
        /\ TempKindsOf[2] = TempKinds
        /\ TempKindsOf[3] = TempKinds
        /\ TempKindsOf[4] = TempKinds
        /\ TempKindsOf[5] = TempKinds
    BY <2>1
  <2> QED BY <2>2, <2>3, <2>4, SixSensors, Zenon DEF it87_attributes_temp
<1>2. Tabulated(it87_attributes_fan, 6, FanStart, FanKindsOf)
  <2>1. \A n \in Nat : /\ FanStart[n] = (IF n < 3 THEN 5 * n ELSE 4 * n + 3)
                     /\ FanKindsOf[n] = (IF n < 3 THEN FanDivKinds ELSE FanKinds)
    BY DEF FanStart, FanKindsOf
  <2>2. FanStart[0] = 0
    BY <2>1
  <2>3. ASSUME NEW n \in Nat
        PROVE  FanKindsOf[n] \in Seq(Kind) /\ FanStart[n + 1] = FanStart[n] + Len(FanKindsOf[n])
    <3>1. n + 1 \in Nat
      OBVIOUS
    <3>2. /\ FanStart[n] = (IF n < 3 THEN 5 * n ELSE 4 * n + 3)
          /\ FanKindsOf[n] = (IF n < 3 THEN FanDivKinds ELSE FanKinds)
      BY <2>1
    <3>3. FanStart[n + 1] = (IF (n + 1) < 3 THEN 5 * (n + 1) ELSE 4 * (n + 1) + 3)
      BY <2>1, <3>1
    <3>4. CASE n < 3
      <4>1. FanKindsOf[n] = FanDivKinds /\ FanStart[n + 1] = FanStart[n] + 5
        BY <3>2, <3>3, <3>4
      <4> QED BY <4>1, KindTypes, Zenon
    <3>5. CASE n >= 3
      <4>1. FanKindsOf[n] = FanKinds /\ FanStart[n + 1] = FanStart[n] + 4
        BY <3>2, <3>3, <3>5
      <4> QED BY <4>1, KindTypes, Zenon
    <3> QED BY <3>4, <3>5
  <2>4. /\ FanKindsOf[0] = FanKinds \o <<"div">>
        /\ FanKindsOf[1] = FanKinds \o <<"div">>
        /\ FanKindsOf[2] = FanKinds \o <<"div">>
        /\ FanKindsOf[3] = FanKinds
        /\ FanKindsOf[4] = FanKinds
        /\ FanKindsOf[5] = FanKinds
    <3>1. /\ FanKindsOf[0] = FanDivKinds
          /\ FanKindsOf[1] = FanDivKinds
          /\ FanKindsOf[2] = FanDivKinds
          /\ FanKindsOf[3] = FanKinds
          /\ FanKindsOf[4] = FanKinds
          /\ FanKindsOf[5] = FanKinds
      BY <2>1
    <3> QED BY <3>1, JoinedKinds, Zenon
  <2> QED BY <2>2, <2>3, <2>4, SixSensors, Zenon DEF it87_attributes_fan
<1>3. Tabulated(it87_attributes_pwm, 6, PwmStart, PwmKindsOf)
  <2>1. \A n \in Nat : /\ PwmStart[n] = 4 * n
                     /\ PwmKindsOf[n] = PwmKinds
    BY DEF PwmStart, PwmKindsOf
  <2>2. PwmStart[0] = 0
    BY <2>1
  <2>3. ASSUME NEW n \in Nat
        PROVE  PwmKindsOf[n] \in Seq(Kind) /\ PwmStart[n + 1] = PwmStart[n] + Len(PwmKindsOf[n])
    <3>1. n + 1 \in Nat
      OBVIOUS
    <3>2. /\ PwmStart[n] = 4 * n
          /\ PwmKindsOf[n] = PwmKinds
      BY <2>1
    <3>3. PwmStart[n + 1] = 4 * (n + 1)
      BY <2>1, <3>1
    <3> QED BY <3>2, <3>3, KindTypes
  <2>4. /\ PwmKindsOf[0] = PwmKinds
        /\ PwmKindsOf[1] = PwmKinds
        /\ PwmKindsOf[2] = PwmKinds
        /\ PwmKindsOf[3] = PwmKinds
        /\ PwmKindsOf[4] = PwmKinds
        /\ PwmKindsOf[5] = PwmKinds
    BY <2>1
  <2> QED BY <2>2, <2>3, <2>4, SixSensors, Zenon DEF it87_attributes_pwm
<1>4. Tabulated(it87_attributes_auto_pwm, 6, AutoStart, AutoKindsOf)
  <2>1. \A n \in Nat : /\ AutoStart[n] = (IF n < 3 THEN 11 * n ELSE 6 * n + 15)
                     /\ AutoKindsOf[n] = (IF n < 3 THEN AllAutoKinds ELSE LateKinds)
    BY DEF AutoStart, AutoKindsOf
  <2>2. AutoStart[0] = 0
    BY <2>1
  <2>3. ASSUME NEW n \in Nat
        PROVE  AutoKindsOf[n] \in Seq(Kind) /\ AutoStart[n + 1] = AutoStart[n] + Len(AutoKindsOf[n])
    <3>1. n + 1 \in Nat
      OBVIOUS
    <3>2. /\ AutoStart[n] = (IF n < 3 THEN 11 * n ELSE 6 * n + 15)
          /\ AutoKindsOf[n] = (IF n < 3 THEN AllAutoKinds ELSE LateKinds)
      BY <2>1
    <3>3. AutoStart[n + 1] = (IF (n + 1) < 3 THEN 11 * (n + 1) ELSE 6 * (n + 1) + 15)
      BY <2>1, <3>1
    <3>4. CASE n < 3
      <4>1. AutoKindsOf[n] = AllAutoKinds /\ AutoStart[n + 1] = AutoStart[n] + 11
        BY <3>2, <3>3, <3>4
      <4> QED BY <4>1, KindTypes, Zenon
    <3>5. CASE n >= 3
      <4>1. AutoKindsOf[n] = LateKinds /\ AutoStart[n + 1] = AutoStart[n] + 6
        BY <3>2, <3>3, <3>5
      <4> QED BY <4>1, KindTypes, Zenon
    <3> QED BY <3>4, <3>5
  <2>4. /\ AutoKindsOf[0] = AutoKinds
        /\ AutoKindsOf[1] = AutoKinds
        /\ AutoKindsOf[2] = AutoKinds
        /\ AutoKindsOf[3] = PointKinds \o StartKinds
        /\ AutoKindsOf[4] = PointKinds \o StartKinds
        /\ AutoKindsOf[5] = PointKinds \o StartKinds
    <3>1. /\ AutoKindsOf[0] = AllAutoKinds
          /\ AutoKindsOf[1] = AllAutoKinds
          /\ AutoKindsOf[2] = AllAutoKinds
          /\ AutoKindsOf[3] = LateKinds
          /\ AutoKindsOf[4] = LateKinds
          /\ AutoKindsOf[5] = LateKinds
      BY <2>1
    <3> QED BY <3>1, JoinedKinds, Zenon
  <2> QED BY <2>2, <2>3, <2>4, SixSensors, Zenon DEF it87_attributes_auto_pwm
<1> QED BY <1>1, <1>2, <1>3, <1>4

\* That of the voltages: the last five have one attribute each.
LEMMA InTable == Tabulated(it87_attributes_in, 13, InStart, InKindsOf)
<1>1. \A n \in Nat : /\ InStart[n] = (IF n < 8 THEN 5 * n ELSE n + 32)
                     /\ InKindsOf[n] = (IF n < 8 THEN InKinds ELSE <<"input">>)
  BY DEF InStart, InKindsOf
<1>2. InStart[0] = 0 /\ InStart[8] = 40
  BY <1>1
<1>3. ASSUME NEW n \in Nat
      PROVE  InKindsOf[n] \in Seq(Kind) /\ InStart[n + 1] = InStart[n] + Len(InKindsOf[n])
  <2>1. n + 1 \in Nat
    OBVIOUS
  <2>2. CASE n < 8
    <3>1. InKindsOf[n] = InKinds /\ InStart[n + 1] = InStart[n] + 5
      BY <1>1, <2>1, <2>2
    <3> QED BY <3>1, KindTypes, Zenon
  <2>3. CASE n >= 8
    <3>1. InKindsOf[n] = <<"input">> /\ InStart[n + 1] = InStart[n] + 1
      BY <1>1, <2>1, <2>3
    <3> QED BY <3>1, KindTypes, Zenon
  <2> QED BY <2>2, <2>3
<1> DEFINE s == Of(0, InKinds) \o Of(1, InKinds) \o Of(2, InKinds) \o Of(3, InKinds)
                \o Of(4, InKinds) \o Of(5, InKinds) \o Of(6, InKinds) \o Of(7, InKinds)
           t == [k \in 1..5 |-> [nr |-> 7 + k, kind |-> "input"]]
           u == s \o t
           A == [nr : Nat, kind : Kind]
<1>4. Tabulated(s, 8, InStart, InKindsOf)
  <2>1. /\ InKindsOf[0] = InKinds /\ InKindsOf[1] = InKinds /\ InKindsOf[2] = InKinds
        /\ InKindsOf[3] = InKinds /\ InKindsOf[4] = InKinds /\ InKindsOf[5] = InKinds
        /\ InKindsOf[6] = InKinds /\ InKindsOf[7] = InKinds
    BY <1>1
  <2>2. Tabulated(Of(0, InKinds) \o Of(1, InKinds) \o Of(2, InKinds) \o Of(3, InKinds)
                  \o Of(4, InKinds) \o Of(5, InKinds), 6, InStart, InKindsOf)
    BY <1>2, <1>3, <2>1, SixSensors, Zenon
  <2>3. 6 \in Nat /\ 7 \in Nat /\ 6 + 1 = 7 /\ 7 + 1 = 8
    BY SMT
  <2>4. Tabulated(Of(0, InKinds) \o Of(1, InKinds) \o Of(2, InKinds) \o Of(3, InKinds)
                  \o Of(4, InKinds) \o Of(5, InKinds) \o Of(6, InKinds), 7, InStart, InKindsOf)
    BY <1>3, <2>1, <2>2, <2>3, OneSensorMore, Zenon
  <2> QED BY <1>3, <2>1, <2>3, <2>4, OneSensorMore, Zenon
<1>5. t \in Seq(A) /\ Len(t) = 5 /\ \A k \in 1..5 : t[k] = [nr |-> 7 + k, kind |-> "input"]
  BY DEF Kind
<1> HIDE DEF s, t, A
<1> DEFINE l == Len(s)
<1>6. s \in Seq(A) /\ l = 40
  BY <1>2, <1>4 DEF Tabulated, A
<1>7. /\ u \in Seq(A) /\ l \in Nat /\ Len(u) = l + 5
      /\ DOMAIN s = 1..l /\ DOMAIN u = 1..l + 5
      /\ \A k \in 1..l : u[k] = s[k]
      /\ \A k \in 1..5 : u[l + k] = t[k]
  <2>1. s \in Seq(A) /\ t \in Seq(A)
    BY <1>5, <1>6
  <2>2. PICK w \in Nat : w = Len(t)
    BY <2>1
  <2>3. /\ u \in Seq(A) /\ l \in Nat /\ Len(u) = l + w
        /\ DOMAIN s = 1..l /\ DOMAIN u = 1..l + w
        /\ \A k \in 1..l : u[k] = s[k]
        /\ \A k \in 1..w : u[l + k] = t[k]
    BY <2>1, <2>2
  <2>4. w = 5
    BY <1>5, <2>2
  <2> HIDE DEF u, l
  <2> QED BY <2>3, <2>4, Zenon
<1> HIDE DEF u, l
<1>8. ASSUME NEW n \in 0..13 - 1, NEW a \in DOMAIN InKindsOf[n]
      PROVE  /\ InStart[n] + a \in DOMAIN u
             /\ u[InStart[n] + a] = [nr |-> n, kind |-> InKindsOf[n][a]]
  <2>1. CASE n \in 0..8 - 1
    <3>1. InStart[n] + a \in DOMAIN s /\ s[InStart[n] + a] = [nr |-> n, kind |-> InKindsOf[n][a]]
      BY <1>4, <2>1, Zenon DEF Tabulated
    <3> DEFINE k == InStart[n] + a
    <3> HIDE DEF k
    <3>2. k \in DOMAIN s => k \in DOMAIN u /\ u[k] = s[k]
      BY <1>7
    <3> QED BY <3>1, <3>2 DEF k
  <2>2. CASE n \in 8..12
    <3>1. InKindsOf[n] = <<"input">> /\ InStart[n] = n + 32
      BY <1>1, <2>2
    <3>2. a = 1 /\ InKindsOf[n][a] = "input"
      BY <3>1
    <3>3. u[l + (n - 7)] = [nr |-> 7 + (n - 7), kind |-> "input"]
      BY <1>5, <1>7, <2>2, SMTT(40)
    <3>4. InStart[n] + a = l + (n - 7) /\ 7 + (n - 7) = n
      BY <1>6, <2>2, <3>1, <3>2
    <3>5. l + (n - 7) \in DOMAIN u
      BY <1>7, <2>2
    <3> QED BY <3>2, <3>3, <3>4, <3>5, Zenon
  <2> QED BY <2>1, <2>2
<1>9. ASSUME NEW k \in DOMAIN u
      PROVE  \E n \in 0..13 - 1 : \E a \in DOMAIN InKindsOf[n] : k = InStart[n] + a
  <2>1. CASE k \in DOMAIN s
    <3>1. \E n \in 0..8 - 1 : \E a \in DOMAIN InKindsOf[n] : k = InStart[n] + a
      BY <1>4, <2>1, Zenon DEF Tabulated
    <3>2. \A n \in 0..8 - 1 : n \in 0..13 - 1
      OBVIOUS
    <3> QED BY <3>1, <3>2, Zenon
  <2>2. CASE k \in l + 1..l + 5
    <3>3. k - 33 \in 8..12 /\ (k - 33) + 32 = k - 1
      BY <1>6, <2>2
    <3>1. k - 33 \in 0..13 - 1 /\ InKindsOf[k - 33] = <<"input">> /\ InStart[k - 33] = k - 1
      BY <1>1, <3>3
    <3>2. 1 \in DOMAIN InKindsOf[k - 33] /\ k = InStart[k - 33] + 1
      BY <1>6, <2>2, <3>1
    <3> QED BY <3>1, <3>2, Zenon
  <2> QED BY <1>6, <1>7, <2>1, <2>2
<1>10. Len(u) = InStart[13]
  <2>1. InStart[13] = 45
    BY <1>1
  <2> QED BY <1>6, <1>7, <2>1
<1>11. u = it87_attributes_in
  BY Zenon DEF u, s, t, it87_attributes_in
<1>12. Tabulated(u, 13, InStart, InKindsOf)
  BY <1>7, <1>8, <1>9, <1>10, Zenon DEF Tabulated, A
<1> QED BY <1>11, <1>12, Zenon

\* The positions shown are those of the attributes in D, and D has no others.
Shows(D, m, start, kinds, shown) ==
  /\ \A n \in 0..m - 1 : \A a \in DOMAIN kinds[n] :
       (start[n] + a) - 1 \in shown <=> [nr |-> n, kind |-> kinds[n][a]] \in D
  /\ \A x \in D : \E n \in 0..m - 1 : \E a \in DOMAIN kinds[n] :
       x = [nr |-> n, kind |-> kinds[n][a]]

\* Then they are what is visible.
LEMMA VisibleByName ==
  ASSUME NEW s, NEW m, NEW start, NEW kinds, Tabulated(s, m, start, kinds),
         NEW shown, NEW D, Shows(D, m, start, kinds, shown)
  PROVE  Taken(s, shown) = D
<1> DEFINE V == Taken(s, shown)
<1>1. \A x : x \in V <=> \E n \in 0..m - 1 : \E a \in DOMAIN kinds[n] :
                          x = [nr |-> n, kind |-> kinds[n][a]] /\ (start[n] + a) - 1 \in shown
  BY VisibleByPlace
<1> HIDE DEF V
<1>2. ASSUME NEW x \in V PROVE x \in D
  <2>1. PICK n \in 0..m - 1 : \E a \in DOMAIN kinds[n] :
          x = [nr |-> n, kind |-> kinds[n][a]] /\ (start[n] + a) - 1 \in shown
    BY <1>1
  <2>2. PICK a \in DOMAIN kinds[n] :
          x = [nr |-> n, kind |-> kinds[n][a]] /\ (start[n] + a) - 1 \in shown
    BY <2>1
  <2>3. [nr |-> n, kind |-> kinds[n][a]] \in D
    BY <2>2, Zenon DEF Shows
  <2> QED BY <2>2, <2>3, Zenon
<1>3. ASSUME NEW x \in D PROVE x \in V
  <2>1. PICK n \in 0..m - 1 : \E a \in DOMAIN kinds[n] : x = [nr |-> n, kind |-> kinds[n][a]]
    BY DEF Shows
  <2>2. PICK a \in DOMAIN kinds[n] : x = [nr |-> n, kind |-> kinds[n][a]]
    BY <2>1
  <2>3. [nr |-> n, kind |-> kinds[n][a]] \in D
    BY <2>2, Zenon
  <2>4. (start[n] + a) - 1 \in shown
    BY <2>3, Zenon DEF Shows
  <2> QED BY <1>1, <2>2, <2>4, Zenon
<1>4. V = D
  BY <1>2, <1>3
<1> QED BY <1>4 DEF V

\* Positions count from 0.
LEMMA VisiblePlaces ==
  ASSUME NEW s, NEW m, NEW start, NEW kinds, Tabulated(s, m, start, kinds)
  PROVE  \A j \in DOMAIN s : j - 1 \in Nat
  BY DEF Tabulated

\* The kinds of a voltage, one by one
LEMMA InNames ==
  /\ DOMAIN InKinds = 1..5
  /\ {InKinds[k] : k \in DOMAIN InKinds} = {"input", "min", "max", "alarm", "beep"}
  /\ InKinds[1] = "input" /\ InKinds[2] = "min" /\ InKinds[3] = "max" /\ InKinds[4] = "alarm"
  /\ InKinds[5] = "beep"
BY DEF InKinds

\* The five groups, each by the arithmetic of its is_visible function
LEMMA InVisible ==
  ASSUME NEW d, d.has_in \subseteq 0..12
  PROVE  InShown(d) = {a \in Named(d.has_in, InKinds) :
                         (a.kind = "beep" => d.has_beep) /\ (a.nr > 7 => a.kind = "input")}
<1> DEFINE s == it87_attributes_in
           D == {a \in Named(d.has_in, InKinds) :
                   (a.kind = "beep" => d.has_beep) /\ (a.nr > 7 => a.kind = "input")}
           shown == {p \in Nat : it87_in_is_visible(d, p)}
<1>1. InShown(d) = Taken(s, shown)
  BY InTable, VisiblePlaces DEF InShown, Visible, Taken
<1>2. D = {x \in [nr : d.has_in, kind : {"input", "min", "max", "alarm", "beep"}] :
             (x.kind = "beep" => d.has_beep) /\ (x.nr > 7 => x.kind = "input")}
  BY InNames DEF Named
<1> HIDE DEF D
<1>3. ASSUME NEW n \in 0..13 - 1, NEW a \in DOMAIN InKindsOf[n]
      PROVE  (InStart[n] + a) - 1 \in shown <=> [nr |-> n, kind |-> InKindsOf[n][a]] \in D
  <2>1. CASE n < 8
    <3>1. InKindsOf[n] = InKinds /\ InStart[n] = 5 * n /\ a \in 1..5
      BY <2>1, InNames DEF InStart, InKindsOf
    <3>2. PICK p \in Nat : p = (5 * n + a) - 1 /\ p < 40 /\ p \div 5 = n /\ p % 5 = a - 1
      BY <2>1, <3>1
    <3>3. p \in shown <=> n \in d.has_in /\ (a = 5 => d.has_beep)
      BY <3>1, <3>2 DEF it87_in_is_visible
    <3>4. [nr |-> n, kind |-> InKinds[a]] \in D <=> n \in d.has_in /\ (a = 5 => d.has_beep)
      BY <1>2, <2>1, <3>1, InNames
    <3> QED BY <3>1, <3>2, <3>3, <3>4
  <2>2. CASE n >= 8
    <3>1. InKindsOf[n] = <<"input">> /\ InStart[n] = n + 32 /\ a = 1
      BY <2>2 DEF InStart, InKindsOf
    <3>2. n + 32 \in shown <=> n \in d.has_in
      BY <2>2 DEF it87_in_is_visible
    <3>3. [nr |-> n, kind |-> "input"] \in D <=> n \in d.has_in
      BY <1>2
    <3> QED BY <3>1, <3>2, <3>3
  <2> QED BY <2>1, <2>2
<1>4. ASSUME NEW x \in D
      PROVE  \E n \in 0..13 - 1 : \E a \in DOMAIN InKindsOf[n] :
               x = [nr |-> n, kind |-> InKindsOf[n][a]]
  <2>1. PICK n \in d.has_in : x = [nr |-> n, kind |-> x.kind] /\ x.nr = n
    BY <1>2
  <2>2. n \in 0..13 - 1
    OBVIOUS
  <2>3. CASE n < 8
    <3>1. InKindsOf[n] = InKinds
      BY <2>2, <2>3 DEF InKindsOf
    <3>2. PICK a \in DOMAIN InKinds : x.kind = InKinds[a]
      BY <1>2, InNames
    <3> QED BY <2>1, <2>2, <3>1, <3>2, Zenon
  <2>4. CASE n >= 8
    <3>1. InKindsOf[n] = <<"input">> /\ x.kind = "input"
      BY <1>2, <2>1, <2>2, <2>4 DEF InKindsOf
    <3>2. 1 \in DOMAIN InKindsOf[n] /\ InKindsOf[n][1] = "input"
      BY <3>1
    <3> QED BY <2>1, <2>2, <3>1, <3>2, Zenon
  <2> QED BY <2>2, <2>3, <2>4
<1> HIDE DEF shown
<1>5. Shows(D, 13, InStart, InKindsOf, shown)
  BY <1>3, <1>4, Zenon DEF Shows
<1>6. Taken(s, shown) = D
  BY <1>5, InTable, VisibleByName, Zenon
<1> QED BY <1>1, <1>6 DEF D

LEMMA PwmVisible ==
  ASSUME NEW d, d.has_pwm \subseteq 0..5
  PROVE  PwmShown(d) = Named(d.has_pwm, PwmKinds)
<1> DEFINE s == it87_attributes_pwm
           D == Named(d.has_pwm, PwmKinds)
           shown == {p \in Nat : it87_pwm_is_visible(d, p)}
<1>1. PwmShown(d) = Taken(s, shown)
  BY Tables, VisiblePlaces DEF PwmShown, Visible, Taken
<1>2. DOMAIN PwmKinds = 1..4
  BY DEF PwmKinds
<1>3. ASSUME NEW n \in 0..6 - 1, NEW a \in DOMAIN PwmKindsOf[n]
      PROVE  (PwmStart[n] + a) - 1 \in shown <=> [nr |-> n, kind |-> PwmKindsOf[n][a]] \in D
  <2>1. PwmKindsOf[n] = PwmKinds /\ PwmStart[n] = 4 * n /\ a \in 1..4
    BY <1>2 DEF PwmStart, PwmKindsOf
  <2>2. PICK p \in Nat : p = (4 * n + a) - 1 /\ p \div 4 = n
    BY <2>1
  <2>3. p \in shown <=> n \in d.has_pwm
    BY <2>2 DEF it87_pwm_is_visible
  <2>4. [nr |-> n, kind |-> PwmKinds[a]] \in D <=> n \in d.has_pwm
    BY <1>2, <2>1 DEF Named
  <2> QED BY <2>1, <2>2, <2>3, <2>4
<1>4. ASSUME NEW x \in D
      PROVE  \E n \in 0..6 - 1 : \E a \in DOMAIN PwmKindsOf[n] :
               x = [nr |-> n, kind |-> PwmKindsOf[n][a]]
  <2>1. PICK n \in d.has_pwm, a \in DOMAIN PwmKinds : x = [nr |-> n, kind |-> PwmKinds[a]]
    BY DEF Named
  <2>2. n \in 0..6 - 1 /\ PwmKindsOf[n] = PwmKinds
    BY DEF PwmKindsOf
  <2> QED BY <2>1, <2>2, Zenon
<1> HIDE DEF D, shown
<1>5. Shows(D, 6, PwmStart, PwmKindsOf, shown)
  BY <1>3, <1>4, Zenon DEF Shows
<1>6. Taken(s, shown) = D
  BY <1>5, Tables, VisibleByName, Zenon
<1> QED BY <1>1, <1>6 DEF D

LEMMA TempVisible ==
  ASSUME NEW d, d.has_temp \subseteq 0..5, NEW types
  PROVE  TempShown(d, types) =
           {a \in Named(d.has_temp, TempKinds) :
              /\ a.kind = "beep" => d.has_beep
              /\ a.kind = "type" => a.nr \in types
              /\ a.kind # "input" => a.nr < NumTempLimit(d.type)
              /\ a.kind = "offset" => d.type \notin OldPwmType}
<1> DEFINE s == it87_attributes_temp
           D == {a \in Named(d.has_temp, TempKinds) :
                   /\ a.kind = "beep" => d.has_beep
                   /\ a.kind = "type" => a.nr \in types
                   /\ a.kind # "input" => a.nr < NumTempLimit(d.type)
                   /\ a.kind = "offset" => d.type \notin OldPwmType}
           shown == {p \in Nat : it87_temp_is_visible(d, types, p)}
<1>1. TempShown(d, types) = Taken(s, shown)
  BY Tables, VisiblePlaces DEF TempShown, Visible, Taken
<1>2. /\ DOMAIN TempKinds = 1..7
      /\ TempKinds[1] = "input" /\ TempKinds[2] = "max" /\ TempKinds[3] = "min"
      /\ TempKinds[4] = "type" /\ TempKinds[5] = "alarm" /\ TempKinds[6] = "offset"
      /\ TempKinds[7] = "beep"
  BY DEF TempKinds
<1>3. ASSUME NEW n \in 0..6 - 1, NEW a \in DOMAIN TempKindsOf[n]
      PROVE  (TempStart[n] + a) - 1 \in shown <=> [nr |-> n, kind |-> TempKindsOf[n][a]] \in D
  <2>1. TempKindsOf[n] = TempKinds /\ TempStart[n] = 7 * n /\ a \in 1..7
    BY <1>2 DEF TempStart, TempKindsOf
  <2>2. PICK p \in Nat : p = (7 * n + a) - 1 /\ p \div 7 = n /\ p % 7 = a - 1
    BY <2>1
  <2> DEFINE Seen == /\ n \in d.has_temp
                     /\ a # 1 => n < NumTempLimit(d.type)
                     /\ a = 4 => n \in types
                     /\ a = 6 => d.type \notin OldPwmType
                     /\ a = 7 => d.has_beep
  <2>3. p \in shown <=> Seen
    BY <2>1, <2>2 DEF it87_temp_is_visible
  <2>4. [nr |-> n, kind |-> TempKinds[a]] \in D <=> Seen
    <3>1. [nr |-> n, kind |-> TempKinds[a]] \in Named(d.has_temp, TempKinds) <=> n \in d.has_temp
      BY <1>2, <2>1 DEF Named
    <3> QED BY <1>2, <2>1, <3>1
  <2> HIDE DEF Seen, D, shown
  <2> QED BY <2>1, <2>2, <2>3, <2>4
<1>4. ASSUME NEW x \in D
      PROVE  \E n \in 0..6 - 1 : \E a \in DOMAIN TempKindsOf[n] :
               x = [nr |-> n, kind |-> TempKindsOf[n][a]]
  <2>1. PICK n \in d.has_temp, a \in DOMAIN TempKinds : x = [nr |-> n, kind |-> TempKinds[a]]
    BY DEF Named
  <2>2. n \in 0..6 - 1 /\ TempKindsOf[n] = TempKinds
    BY DEF TempKindsOf
  <2> QED BY <2>1, <2>2, Zenon
<1> HIDE DEF D, shown
<1>5. Shows(D, 6, TempStart, TempKindsOf, shown)
  BY <1>3, <1>4, Zenon DEF Shows
<1>6. Taken(s, shown) = D
  BY <1>5, Tables, VisibleByName, Zenon
<1> QED BY <1>1, <1>6 DEF D

LEMMA FanVisible ==
  ASSUME NEW d, d.has_fan \subseteq 0..5
  PROVE  FanShown(d) =
           {a \in Named(d.has_fan, FanKinds \o <<"div">>) :
              /\ a.kind = "beep" => d.has_beep
              /\ a.kind = "div" => a.nr < 3 /\ ~Is16Bit(d.type, d.rev)}
<1> DEFINE s == it87_attributes_fan
           D == {a \in Named(d.has_fan, FanDivKinds) :
                   /\ a.kind = "beep" => d.has_beep
                   /\ a.kind = "div" => a.nr < 3 /\ ~Is16Bit(d.type, d.rev)}
           shown == {p \in Nat : it87_fan_is_visible(d, p)}
<1>1. FanShown(d) = Taken(s, shown)
  BY Tables, VisiblePlaces DEF FanShown, Visible, Taken
<1>2. /\ DOMAIN FanDivKinds = 1..5 /\ DOMAIN FanKinds = 1..4
      /\ FanDivKinds[1] = "input" /\ FanDivKinds[2] = "min" /\ FanDivKinds[3] = "alarm"
      /\ FanDivKinds[4] = "beep" /\ FanDivKinds[5] = "div"
      /\ \A a \in 1..4 : FanKinds[a] = FanDivKinds[a]
  BY DEF FanDivKinds, FanKinds
<1>3. ASSUME NEW n \in 0..6 - 1, NEW a \in DOMAIN FanKindsOf[n]
      PROVE  (FanStart[n] + a) - 1 \in shown <=> [nr |-> n, kind |-> FanKindsOf[n][a]] \in D
  <2>1. /\ FanStart[n] = (IF n < 3 THEN 5 * n ELSE 4 * n + 3)
        /\ a \in 1..5 /\ (n >= 3 => a \in 1..4) /\ FanKindsOf[n][a] = FanDivKinds[a]
    BY <1>2 DEF FanStart, FanKindsOf
  <2> DEFINE Seen == n \in d.has_fan /\ (a = 4 => d.has_beep) /\ (a = 5 => ~Is16Bit(d.type, d.rev))
  <2>2. PICK p \in Nat : p = (FanStart[n] + a) - 1
    BY <2>1
  <2>3. p \in shown <=> Seen
    <3>1. CASE n < 3
      <4>1. p < 15 /\ p \div 5 = n /\ p % 5 = a - 1
        BY <2>1, <2>2, <3>1
      <4> QED BY <2>1, <4>1 DEF it87_fan_is_visible
    <3>2. CASE n >= 3
      <4>1. p >= 15 /\ (p - 15) \div 4 + 3 = n /\ (p - 15) % 4 = a - 1
        BY <2>1, <2>2, <3>2
      <4> QED BY <2>1, <3>2, <4>1 DEF it87_fan_is_visible
    <3> QED BY <3>1, <3>2
  <2>4. [nr |-> n, kind |-> FanDivKinds[a]] \in D <=> Seen
    <3>1. [nr |-> n, kind |-> FanDivKinds[a]] \in Named(d.has_fan, FanDivKinds) <=> n \in d.has_fan
      BY <1>2, <2>1 DEF Named
    <3>2. a = 5 => n < 3
      BY <2>1
    <3> QED BY <1>2, <2>1, <3>1, <3>2
  <2> HIDE DEF Seen, D, shown
  <2> QED BY <2>1, <2>2, <2>3, <2>4
<1>4. ASSUME NEW x \in D
      PROVE  \E n \in 0..6 - 1 : \E a \in DOMAIN FanKindsOf[n] :
               x = [nr |-> n, kind |-> FanKindsOf[n][a]]
  <2>1. PICK n \in d.has_fan, a \in DOMAIN FanDivKinds :
          x = [nr |-> n, kind |-> FanDivKinds[a]] /\ (a = 5 => n < 3)
    BY <1>2 DEF Named
  <2>2. n \in 0..6 - 1 /\ a \in DOMAIN FanKindsOf[n] /\ FanKindsOf[n][a] = FanDivKinds[a]
    BY <1>2, <2>1 DEF FanKindsOf
  <2> QED BY <2>1, <2>2, Zenon
<1> HIDE DEF D, shown
<1>5. Shows(D, 6, FanStart, FanKindsOf, shown)
  BY <1>3, <1>4, Zenon DEF Shows
<1>6. Taken(s, shown) = D
  BY <1>5, Tables, VisibleByName, Zenon
<1> QED BY <1>1, <1>6, JoinedKinds, Zenon DEF D

LEMMA AutoVisible ==
  ASSUME NEW d, d.has_pwm \subseteq 0..5,
         d.type \in OldPwmType => d.has_pwm \subseteq 0..2
  PROVE  AutoShown(d) =
           {a \in Named(d.has_pwm, AutoKinds) :
              \/ /\ HasNewerAutoPwm(d.type) /\ a \in Named(0..5, PointKinds \o StartKinds)
                 /\ ~(a.kind = "start" /\ a.nr > 2)
              \/ /\ HasOldAutoPwm(d.type, d.rev)
                 /\ a.nr < 3 /\ a \notin Named(0..5, StartKinds)}
<1> DEFINE s == it87_attributes_auto_pwm
           newer == HasNewerAutoPwm(d.type)
           old == HasOldAutoPwm(d.type, d.rev)
           D == {a \in Named(d.has_pwm, AllAutoKinds) :
                   \/ newer /\ a \in Named(0..5, LateKinds) /\ ~(a.kind = "start" /\ a.nr > 2)
                   \/ old /\ a.nr < 3 /\ a \notin Named(0..5, StartKinds)}
           shown == {p \in Nat : it87_auto_pwm_is_visible(d, p)}
<1>1. CASE ~newer /\ ~old
  <2>1. AutoShown(d) = {} /\ D = {}
    BY <1>1 DEF AutoShown
  <2> QED BY <2>1, JoinedKinds, Zenon
<1>2. CASE newer \/ old
  <2>1. AutoShown(d) = Taken(s, shown)
    BY <1>2, Tables, VisiblePlaces DEF AutoShown, Visible, Taken
  <2>2. ~(newer /\ old) /\ (old => d.has_pwm \subseteq 0..2)
    BY DEF HasNewerAutoPwm, HasOldAutoPwm, OldPwmType, NewerType, SixTempType, BankedType
  <2>3. /\ DOMAIN AllAutoKinds = 1..11 /\ DOMAIN LateKinds = 1..6 /\ DOMAIN StartKinds = 1..2
        /\ \A a \in 1..4 : LateKinds[a] = AllAutoKinds[a + 4]
        /\ \A a \in 5..6 : LateKinds[a] = AllAutoKinds[a + 5]
        /\ \A a \in 1..2 : StartKinds[a] = AllAutoKinds[a + 9]
        /\ AllAutoKinds[10] = "start"
        /\ \A a, b \in 1..11 : AllAutoKinds[a] = AllAutoKinds[b] => a = b
    BY DEF AllAutoKinds, LateKinds, StartKinds
  <2> DEFINE Seen(n, b) ==
        /\ n \in d.has_pwm
        /\ \/ newer /\ b \in {5, 6, 7, 8, 10, 11} /\ ~(b = 10 /\ n > 2)
           \/ old /\ n < 3 /\ b \in 1..9
  <2>4. ASSUME NEW n \in 0..5, NEW b \in 1..11
        PROVE  [nr |-> n, kind |-> AllAutoKinds[b]] \in D <=> Seen(n, b)
    <3> DEFINE x == [nr |-> n, kind |-> AllAutoKinds[b]]
    <3>1. x \in Named(d.has_pwm, AllAutoKinds) <=> n \in d.has_pwm
      BY <2>3 DEF Named
    <3>2. x \in Named(0..5, LateKinds) <=> b \in {5, 6, 7, 8, 10, 11}
      <4>1. x \in Named(0..5, LateKinds) <=> \E a \in 1..6 : LateKinds[a] = AllAutoKinds[b]
        BY <2>3 DEF Named
      <4>2. \A a \in 1..6 : LateKinds[a] = AllAutoKinds[IF a < 5 THEN a + 4 ELSE a + 5]
        BY <2>3
      <4>3. (\E a \in 1..6 : LateKinds[a] = AllAutoKinds[b])
              <=> \E a \in 1..6 : b = IF a < 5 THEN a + 4 ELSE a + 5
        <5>1. \A a \in 1..6 : (IF a < 5 THEN a + 4 ELSE a + 5) \in 1..11
          OBVIOUS
        <5> QED BY <2>3, <4>2, <5>1
      <4> QED BY <4>1, <4>3
    <3>3. x \in Named(0..5, StartKinds) <=> b \in {10, 11}
      <4>1. x \in Named(0..5, StartKinds) <=> \E a \in 1..2 : StartKinds[a] = AllAutoKinds[b]
        BY <2>3 DEF Named
      <4> QED BY <2>3, <4>1
    <3>4. x.kind = "start" <=> b = 10
      BY <2>3
    <3>5. x.nr = n
      OBVIOUS
    <3> HIDE DEF x
    <3> QED BY <3>1, <3>2, <3>3, <3>4, <3>5 DEF x
  <2>5. ASSUME NEW n \in 0..6 - 1, NEW a \in DOMAIN AutoKindsOf[n]
        PROVE  (AutoStart[n] + a) - 1 \in shown <=> [nr |-> n, kind |-> AutoKindsOf[n][a]] \in D
    <3>0. n \in 0..5
      OBVIOUS
    <3>1. CASE n < 3
      <4>1. AutoKindsOf[n] = AllAutoKinds /\ AutoStart[n] = 11 * n /\ a \in 1..11
        BY <2>3, <3>1 DEF AutoStart, AutoKindsOf
      <4>2. PICK p \in Nat : p = (11 * n + a) - 1 /\ p < 33 /\ p \div 11 = n /\ p % 11 = a - 1
        BY <3>1, <4>1
      <4>3. p \in shown <=> Seen(n, a)
        BY <1>2, <2>2, <3>1, <4>1, <4>2 DEF it87_auto_pwm_is_visible
      <4> HIDE DEF Seen, D, shown
      <4>4. [nr |-> n, kind |-> AllAutoKinds[a]] \in D <=> Seen(n, a)
        BY <2>4, <3>0, <4>1, Zenon
      <4> QED BY <4>1, <4>2, <4>3, <4>4
    <3>2. CASE n >= 3
      <4>1. AutoKindsOf[n] = LateKinds /\ AutoStart[n] = 6 * n + 15 /\ a \in 1..6
        BY <2>3, <3>2 DEF AutoStart, AutoKindsOf
      <4>2. PICK b \in 1..11 : b = (IF a < 5 THEN a + 4 ELSE a + 5)
        BY <4>1
      <4>3. PICK p \in Nat : /\ p = ((6 * n + 15) + a) - 1 /\ p >= 33
                             /\ (p - 33) \div 6 + 3 = n /\ (p - 33) % 6 = a - 1
        BY <3>2, <4>1
      <4>4. p \in shown <=> Seen(n, b)
        BY <1>2, <2>2, <3>2, <4>1, <4>2, <4>3 DEF it87_auto_pwm_is_visible
      <4>5. LateKinds[a] = AllAutoKinds[b]
        BY <2>3, <4>1, <4>2
      <4> HIDE DEF Seen, D, shown
      <4>6. [nr |-> n, kind |-> AllAutoKinds[b]] \in D <=> Seen(n, b)
        BY <2>4, <3>0, Zenon
      <4> QED BY <4>1, <4>3, <4>4, <4>5, <4>6
    <3> QED BY <3>1, <3>2
  <2>6. ASSUME NEW x \in D
        PROVE  \E n \in 0..6 - 1 : \E a \in DOMAIN AutoKindsOf[n] :
                 x = [nr |-> n, kind |-> AutoKindsOf[n][a]]
    <3>1. PICK n \in d.has_pwm, b \in 1..11 : x = [nr |-> n, kind |-> AllAutoKinds[b]]
      BY <2>3 DEF Named
    <3>2. Seen(n, b)
      BY <2>4, <3>1
    <3>3. CASE n < 3
      <4>1. AutoKindsOf[n] = AllAutoKinds /\ n \in 0..6 - 1
        BY <3>3 DEF AutoKindsOf
      <4> QED BY <2>3, <3>1, <4>1
    <3>4. CASE n >= 3
      <4>1. AutoKindsOf[n] = LateKinds /\ n \in 0..6 - 1
        BY <3>4 DEF AutoKindsOf
      <4>2. b \in {5, 6, 7, 8, 11}
        BY <3>2, <3>4
      <4>3. PICK a \in 1..6 : LateKinds[a] = AllAutoKinds[b]
        BY <2>3, <4>2
      <4> QED BY <2>3, <3>1, <4>1, <4>3
    <3> QED BY <3>3, <3>4
  <2> HIDE DEF D, shown
  <2>7. Shows(D, 6, AutoStart, AutoKindsOf, shown)
    BY <2>5, <2>6, Zenon DEF Shows
  <2>8. Taken(s, shown) = D
    BY <2>7, Tables, VisibleByName, Zenon
  <2> QED BY <2>1, <2>8, JoinedKinds, Zenon DEF D
<1> QED BY <1>1, <1>2

-----------------------------------------------------------------------------
(* The registers of the attributes: each group has its places, and each    *)
(* register is that of one attribute.                                      *)

\* Register r is one of those of attribute a of a group.
InPlace(d, a, r) ==
  \/ a.kind = "input" /\ a.nr \in 0..8 /\ r = a.nr + 32
  \/ a.kind = "input" /\ a.nr = 9 /\ r = 47
  \/ a.kind = "input" /\ a.nr \in d.has_in \intersect (10..12) /\ r = a.nr + 34
  \/ a.kind = "min" /\ a.nr \in 0..7 /\ r = 2 * a.nr + 49
  \/ a.kind = "max" /\ a.nr \in 0..7 /\ r = 2 * a.nr + 48

TempPlace(d, a, r) ==
  LET late == IF d.type = "it8686" THEN 174 ELSE 172
      \* from which sensor on the limits are up there
      first == IF d.type = "it8686" THEN 3 ELSE 4
  IN \/ a.kind = "input" /\ a.nr \in d.has_temp /\ r = a.nr + 41
     \/ a.kind = "max" /\ r = 2 * a.nr + (IF a.nr < first THEN 64 ELSE late)
     \/ a.kind = "min" /\ r = 2 * a.nr + (IF a.nr < first THEN 65 ELSE late + 1)
     \/ a.kind = "offset" /\ a.nr \in 0..1 /\ r = a.nr + 86
     \/ a.kind = "offset" /\ a.nr = 2 /\ r = 89
     \/ a.kind = "offset" /\ a.nr = 3 /\ first = 4 /\ r = 90
     \/ a.kind = "offset" /\ a.nr \in first..5 /\ r = a.nr + (IF first = 3 THEN 141 ELSE 140)

FanPlace(d, a, r) ==
  LET sixth == d.type \in {"it8655", "it8665"}
  IN \/ a.kind = "input" /\ a.nr \in 0..2 /\ (r = a.nr + 13 \/ r = a.nr + 24)
     \/ a.kind = "min" /\ a.nr \in 0..2 /\ (r = a.nr + 16 \/ r = a.nr + 27)
     \/ a.kind = "input" /\ a.nr \in 3..4 /\ (r = 2 * a.nr + 122 \/ r = 2 * a.nr + 123)
     \/ a.kind = "min" /\ a.nr \in 3..4 /\ (r = 2 * a.nr + 126 \/ r = 2 * a.nr + 127)
     \/ a.kind = "input" /\ a.nr = 5 /\ sixth /\ (r = 147 \/ r = 148)
     \/ a.kind = "input" /\ a.nr = 5 /\ ~sixth /\ (r = 76 \/ r = 77)
     \/ a.kind = "min" /\ a.nr = 5 /\ sixth /\ (r = 178 \/ r = 179)
     \/ a.kind = "min" /\ a.nr = 5 /\ ~sixth /\ (r = 78 \/ r = 79)

PwmPlace(d, a, r) ==
  LET early == d.type \in {"it8655", "it8665", "it8622", "it8613"}
  IN \/ a.kind = "enable" /\ a.nr \in 0..2 /\ r = a.nr + 21
     \/ a.kind = "enable" /\ a.nr = 3 /\ r = (IF early THEN 30 ELSE 127)
     \/ a.kind = "enable" /\ a.nr = 4 /\ r = (IF early THEN 31 ELSE 167)
     \/ a.kind = "enable" /\ a.nr = 5 /\ r = (IF early THEN 146 ELSE 175)
     \/ a.kind = "pwm" /\ d.type \notin OldPwmType /\ a.nr \in 0..3 /\ r = 8 * a.nr + 99
     \/ a.kind = "pwm" /\ d.type \notin OldPwmType /\ a.nr \in 4..5 /\ r = 8 * a.nr + 131

AutoPlace(d, a, r) ==
  \/ /\ d.type \notin OldPwmType
     /\ \/ a.kind = "point1_temp" /\ a.nr \in 0..2 /\ r = 8 * a.nr + 96
        \/ a.kind = "point2_temp" /\ a.nr \in 0..2 /\ r = 8 * a.nr + 97
        \/ a.kind = "point3_temp" /\ a.nr \in 0..2 /\ r = 8 * a.nr + 98
        \/ a.kind = "point1_temp_hyst" /\ a.nr \in 0..2 /\ r = 8 * a.nr + 101
        \/ a.kind = "slope" /\ a.nr \in 0..3 /\ r = 8 * a.nr + 100
        \/ a.kind = "slope" /\ a.nr \in 4..5 /\ r = 8 * a.nr + 132
  \/ /\ d.type \in OldPwmType /\ a.nr \in 0..2
     /\ \/ a.kind = "point1_temp_hyst" /\ r = 8 * a.nr + 96
        \/ a.kind = "point1_temp" /\ r = 8 * a.nr + 97
        \/ a.kind = "point2_temp" /\ r = 8 * a.nr + 98
        \/ a.kind = "point3_temp" /\ r = 8 * a.nr + 99
        \/ a.kind = "point4_temp" /\ r = 8 * a.nr + 100
        \/ a.kind = "point1_pwm" /\ r = 8 * a.nr + 101
        \/ a.kind = "point2_pwm" /\ r = 8 * a.nr + 102
        \/ a.kind = "point3_pwm" /\ r = 8 * a.nr + 103

\* The sensors a device can have
Sensible(d) ==
  /\ SensorsOf(d) /\ d.type \in ChipType
  /\ d.type \in OldPwmType => d.has_pwm \subseteq 0..2
  /\ \A n \in 3..5 : ~(n \in d.has_temp /\ n + 7 \in d.has_in)

\* An attribute of one of the sensors, of one of the kinds
LEMMA NamedFields ==
  ASSUME NEW nrs, NEW kinds, NEW a \in Named(nrs, kinds)
  PROVE  /\ a = [nr |-> a.nr, kind |-> a.kind] /\ a.nr \in nrs
         /\ \E k \in DOMAIN kinds : a.kind = kinds[k]
  BY DEF Named

\* What the tables of registers say of the attributes a device offers
LEMMA InPlaces ==
  ASSUME NEW d, Sensible(d), NEW a \in InShown(d), NEW r \in InRegs(a)
  PROVE  a = [nr |-> a.nr, kind |-> a.kind] /\ InPlace(d, a, r)
<1>1. /\ a \in Named(d.has_in, InKinds) /\ (a.nr > 7 => a.kind = "input")
      /\ d.has_in \subseteq 0..12
  BY InVisible DEF Sensible, SensorsOf
<1>2. /\ a = [nr |-> a.nr, kind |-> a.kind] /\ a.nr \in d.has_in /\ a.nr \in 0..12
  BY <1>1, NamedFields
<1>3. CASE a.kind = "input"
  <2>1. r = VIN[a.nr + 1]
    BY <1>3 DEF InRegs
  <2> QED BY <1>2, <1>3, <2>1 DEF VIN, InPlace
<1>4. CASE a.kind # "input"
  BY <1>1, <1>2, <1>4 DEF InRegs, InPlace
<1> QED BY <1>2, <1>3, <1>4

LEMMA TempPlaces ==
  ASSUME NEW d, Sensible(d), NEW a \in TempShown(d, 0..5), NEW r \in TempRegs(d, a)
  PROVE  a = [nr |-> a.nr, kind |-> a.kind] /\ TempPlace(d, a, r) /\ a.nr \in 0..5
<1>1. a \in Named(d.has_temp, TempKinds) /\ d.has_temp \subseteq 0..5
  BY TempVisible DEF Sensible, SensorsOf
<1>2. a = [nr |-> a.nr, kind |-> a.kind] /\ a.nr \in d.has_temp /\ a.nr \in 0..5
  BY <1>1, NamedFields
<1>3. CASE a.kind = "input"
  BY <1>2, <1>3 DEF TempRegs, TempPlace
<1>4. CASE a.kind = "max"
  <2>1. r = RegTempLimit(d.type).high[a.nr + 1]
    BY <1>4 DEF TempRegs
  <2> QED BY <1>2, <1>4, <2>1 DEF RegTempLimit, TempPlace
<1>5. CASE a.kind = "min"
  <2>1. r = RegTempLimit(d.type).low[a.nr + 1]
    BY <1>5 DEF TempRegs
  <2> QED BY <1>2, <1>5, <2>1 DEF RegTempLimit, TempPlace
<1>6. CASE a.kind = "offset"
  <2>1. r = RegTempLimit(d.type).offset[a.nr + 1]
    BY <1>6 DEF TempRegs
  <2> QED BY <1>2, <1>6, <2>1 DEF RegTempLimit, TempPlace
<1>7. a.kind \in {"input", "max", "min", "offset"}
  BY DEF TempRegs
<1> QED BY <1>2, <1>3, <1>4, <1>5, <1>6, <1>7

LEMMA FanPlaces ==
  ASSUME NEW d, Sensible(d), NEW a \in FanShown(d), NEW r \in FanAttrRegs(d, a)
  PROVE  a = [nr |-> a.nr, kind |-> a.kind] /\ FanPlace(d, a, r)
<1>1. a \in Named(d.has_fan, FanKinds \o <<"div">>) /\ d.has_fan \subseteq 0..5
  BY FanVisible DEF Sensible, SensorsOf
<1>2. a = [nr |-> a.nr, kind |-> a.kind] /\ a.nr \in 0..5
  BY <1>1, NamedFields
<1> DEFINE f == FanRegs(d.type, a.nr)
<1>3. \/ a.kind = "input" /\ r \in {f[1], f[2]}
      \/ a.kind = "min" /\ r \in {f[3], f[4]}
  BY DEF FanAttrRegs
<1>4. /\ a.nr \in 0..2 => /\ f[1] = a.nr + 13 /\ f[2] = a.nr + 24
                          /\ f[3] = a.nr + 16 /\ f[4] = a.nr + 27
      /\ a.nr = 3 => f[1] = 128 /\ f[2] = 129 /\ f[3] = 132 /\ f[4] = 133
      /\ a.nr = 4 => f[1] = 130 /\ f[2] = 131 /\ f[3] = 134 /\ f[4] = 135
  BY DEF FanRegs
<1>5. a.nr = 5 => IF d.type \in {"it8655", "it8665"}
                  THEN f[1] = 147 /\ f[2] = 148 /\ f[3] = 178 /\ f[4] = 179
                  ELSE f[1] = 76 /\ f[2] = 77 /\ f[3] = 78 /\ f[4] = 79
  BY DEF FanRegs
<1> HIDE DEF f
<1>9. r \in Int
  BY <1>2, <1>3, <1>4, <1>5
<1>6. CASE a.nr \in 0..2
  <2>1. CASE a.kind = "input"
    BY <1>2, <1>3, <1>4, <1>6, <1>9, <2>1 DEF FanPlace
  <2>2. CASE a.kind = "min"
    BY <1>2, <1>3, <1>4, <1>6, <1>9, <2>2 DEF FanPlace
  <2> QED BY <1>3, <2>1, <2>2
<1>7. CASE a.nr \in 3..4
  <2>1. CASE a.kind = "input"
    BY <1>2, <1>3, <1>4, <1>7, <1>9, <2>1 DEF FanPlace
  <2>2. CASE a.kind = "min"
    BY <1>2, <1>3, <1>4, <1>7, <1>9, <2>2 DEF FanPlace
  <2> QED BY <1>3, <2>1, <2>2
<1>8. CASE a.nr = 5
  <2>1. CASE a.kind = "input"
    BY <1>2, <1>3, <1>5, <1>8, <1>9, <2>1 DEF FanPlace
  <2>2. CASE a.kind = "min"
    BY <1>2, <1>3, <1>5, <1>8, <1>9, <2>2 DEF FanPlace
  <2> QED BY <1>3, <2>1, <2>2
<1> QED BY <1>2, <1>6, <1>7, <1>8

LEMMA PwmPlaces ==
  ASSUME NEW d, Sensible(d), NEW a \in PwmShown(d), NEW r \in PwmRegs(d, a)
  PROVE  a = [nr |-> a.nr, kind |-> a.kind] /\ PwmPlace(d, a, r)
<1>1. a \in Named(d.has_pwm, PwmKinds) /\ d.has_pwm \subseteq 0..5
  BY PwmVisible DEF Sensible, SensorsOf
<1>2. a = [nr |-> a.nr, kind |-> a.kind] /\ a.nr \in 0..5
  BY <1>1, NamedFields
<1>3. CASE a.kind = "enable"
  <2>1. r = RegPwm(d.type)[a.nr + 1]
    BY <1>3 DEF PwmRegs
  <2> QED BY <1>2, <1>3, <2>1 DEF RegPwm, PwmPlace
<1>4. CASE a.kind # "enable"
  <2>1. a.kind = "pwm" /\ HasNewerAutoPwm(d.type) /\ r = PWM_DUTY[a.nr + 1]
    BY <1>4 DEF PwmRegs
  <2>2. d.type \notin OldPwmType
    BY <2>1 DEF HasNewerAutoPwm, OldPwmType, NewerType, SixTempType, BankedType
  <2> QED BY <1>2, <2>1, <2>2 DEF PWM_DUTY, PwmPlace
<1> QED BY <1>2, <1>3, <1>4

LEMMA AutoPlaces ==
  ASSUME NEW d, Sensible(d), NEW a \in AutoShown(d), a.kind # "start", HandlerNr(a) = a.nr,
         NEW r \in AutoRegs(d, a)
  PROVE  a = [nr |-> a.nr, kind |-> a.kind] /\ AutoPlace(d, a, r)
<1> DEFINE newer == HasNewerAutoPwm(d.type)
           old == HasOldAutoPwm(d.type, d.rev)
<1>1. /\ a \in Named(d.has_pwm, AllAutoKinds)
      /\ \/ newer /\ a \in Named(0..5, LateKinds)
         \/ old /\ a.nr < 3 /\ a \notin Named(0..5, StartKinds)
  BY AutoVisible, JoinedKinds DEF Sensible, SensorsOf
<1>2. a = [nr |-> a.nr, kind |-> a.kind] /\ a.nr \in 0..5 /\ a.nr \in d.has_pwm
  BY <1>1, NamedFields DEF Sensible, SensorsOf
<1>3. newer => d.type \notin OldPwmType
  BY DEF HasNewerAutoPwm, OldPwmType, NewerType, SixTempType, BankedType
<1>4. old => d.type \in OldPwmType
  BY DEF HasOldAutoPwm
<1>5. PICK base : base = AUTO_BASE[a.nr + 1]
  OBVIOUS
<1>6. /\ a.nr \in 0..3 => base = 8 * a.nr + 96
      /\ a.nr \in 4..5 => base = 8 * a.nr + 128
  BY <1>2, <1>5 DEF AUTO_BASE
<1>7. CASE newer
  <2>1. a.kind \in {"point1_temp", "point1_temp_hyst", "point2_temp", "point3_temp", "slope"}
    <3>1. a \in Named(0..5, LateKinds)
      BY <1>1, <1>3, <1>4, <1>7
    <3>2. \E k \in DOMAIN LateKinds : a.kind = LateKinds[k]
      BY <3>1, NamedFields
    <3> QED BY <3>2 DEF LateKinds
  <2>2. a.nr \in 0..2 \/ a.kind = "slope"
    <3>1. CASE a.nr \in 3..5 /\ a.kind # "slope"
      <4>1. \E k \in DOMAIN PointKinds : PointKinds[k] = a.kind
        BY <2>1, <3>1 DEF PointKinds
      <4> QED BY <3>1, <4>1 DEF HandlerNr
    <3> QED BY <1>2, <3>1
  <2>3. \/ a.kind = "point1_temp" /\ r = base
        \/ a.kind = "point1_temp_hyst" /\ r = base + 5
        \/ a.kind = "point2_temp" /\ r = base + 1
        \/ a.kind = "point3_temp" /\ r = base + 2
        \/ a.kind = "slope" /\ r = base + 4
    BY <1>2, <1>5, <1>6, <1>7, <2>1 DEF AutoRegs
  <2> QED BY <1>2, <1>3, <1>6, <1>7, <2>2, <2>3 DEF AutoPlace
<1>8. CASE old
  <2>1. a.nr \in 0..2
    BY <1>2, <1>4, <1>8 DEF Sensible
  <2>2. ~newer /\ a \notin Named(0..5, StartKinds)
    BY <1>1, <1>3, <1>4, <1>8
  <2>3. \E k \in DOMAIN AllAutoKinds : a.kind = AllAutoKinds[k]
    BY <1>1, NamedFields
  <2>4. a.kind # "slope"
    <3>1. [nr |-> a.nr, kind |-> "slope"] \in Named(0..5, StartKinds)
      BY <1>2, SMTT(40) DEF Named, StartKinds
    <3> QED BY <1>2, <2>2, <3>1
  <2>5. \/ a.kind = "point1_temp_hyst" /\ r = base
        \/ a.kind = "point1_temp" /\ r = base + 1
        \/ a.kind = "point2_temp" /\ r = base + 2
        \/ a.kind = "point3_temp" /\ r = base + 3
        \/ a.kind = "point4_temp" /\ r = base + 4
        \/ a.kind = "point1_pwm" /\ r = base + 5
        \/ a.kind = "point2_pwm" /\ r = base + 6
        \/ a.kind = "point3_pwm" /\ r = base + 7
    <3>3. HandlerNr(a) = a.nr /\ base \in Int
      BY <1>2, <1>6
    <3>1. a.kind \in {"point1_temp_hyst", "point1_temp", "point2_temp", "point3_temp",
                      "point4_temp", "point1_pwm", "point2_pwm", "point3_pwm", "point4_pwm"}
      BY <2>3, <2>4 DEF AllAutoKinds
    <3>2. a.kind # "point4_pwm"
      BY DEF AutoRegs
    <3> QED BY <1>5, <2>1, <2>2, <3>1, <3>2, <3>3, SMTT(30) DEF AutoRegs
  <2> QED BY <1>2, <1>4, <1>6, <1>8, <2>1, <2>5 DEF AutoPlace
<1> QED BY <1>1, <1>2, <1>7, <1>8

\* Element o of Owned(d) is one of the five groups, and its register in its place.
Placed(d, o) ==
  LET g == o[1]
      a == o[2]
      r == o[3]
  IN /\ o = <<g, a, r>> /\ a = [nr |-> a.nr, kind |-> a.kind]
     /\ \/ g = "in" /\ InPlace(d, a, r)
        \/ g = "temp" /\ TempPlace(d, a, r) /\ a.nr \in 0..5
        \/ g = "fan" /\ FanPlace(d, a, r)
        \/ g = "pwm" /\ PwmPlace(d, a, r)
        \/ g = "auto" /\ AutoPlace(d, a, r)

LEMMA OwnedPlaced ==
  ASSUME NEW d, Sensible(d), NEW o \in Owned(d)
  PROVE  Placed(d, o)
<1> DEFINE I == UNION {{<<"in", a, r>> : r \in InRegs(a)} : a \in InShown(d)}
           F == UNION {{<<"fan", a, r>> : r \in FanAttrRegs(d, a)} : a \in FanShown(d)}
           T == UNION {{<<"temp", a, r>> : r \in TempRegs(d, a)} : a \in TempShown(d, 0..5)}
           P == UNION {{<<"pwm", a, r>> : r \in PwmRegs(d, a)} : a \in PwmShown(d)}
           A == UNION {{<<"auto", a, r>> : r \in AutoRegs(d, a)} :
                         a \in {b \in AutoShown(d) : b.kind # "start" /\ HandlerNr(b) = b.nr}}
<1>1. CASE o \in I
  <2>1. PICK a \in InShown(d) : \E r \in InRegs(a) : o = <<"in", a, r>>
    BY <1>1
  <2>2. PICK r \in InRegs(a) : o = <<"in", a, r>>
    BY <2>1
  <2> QED BY <2>2, InPlaces DEF Placed
<1>2. CASE o \in F
  <2>1. PICK a \in FanShown(d) : \E r \in FanAttrRegs(d, a) : o = <<"fan", a, r>>
    BY <1>2
  <2>2. PICK r \in FanAttrRegs(d, a) : o = <<"fan", a, r>>
    BY <2>1
  <2> QED BY <2>2, FanPlaces DEF Placed
<1>3. CASE o \in T
  <2>1. PICK a \in TempShown(d, 0..5) : \E r \in TempRegs(d, a) : o = <<"temp", a, r>>
    BY <1>3
  <2>2. PICK r \in TempRegs(d, a) : o = <<"temp", a, r>>
    BY <2>1
  <2> QED BY <2>2, TempPlaces DEF Placed
<1>4. CASE o \in P
  <2>1. PICK a \in PwmShown(d) : \E r \in PwmRegs(d, a) : o = <<"pwm", a, r>>
    BY <1>4
  <2>2. PICK r \in PwmRegs(d, a) : o = <<"pwm", a, r>>
    BY <2>1
  <2> QED BY <2>2, PwmPlaces DEF Placed
<1>5. CASE o \in A
  <2>1. PICK a \in AutoShown(d) : /\ \E r \in AutoRegs(d, a) : o = <<"auto", a, r>>
                                  /\ a.kind # "start" /\ HandlerNr(a) = a.nr
    BY <1>5
  <2>2. PICK r \in AutoRegs(d, a) : o = <<"auto", a, r>>
    BY <2>1
  <2> QED BY <2>1, <2>2, AutoPlaces DEF Placed
<1>6. Owned(d) = I \union F \union T \union P \union A
  BY Zenon DEF Owned
<1> HIDE DEF I, F, T, P, A
<1> QED BY <1>1, <1>2, <1>3, <1>4, <1>5, <1>6

\* Each register has one place in a group.
LEMMA PlacesApart ==
  ASSUME NEW d, Sensible(d), NEW a, NEW b, NEW r
  PROVE  /\ InPlace(d, a, r) /\ InPlace(d, b, r) => a.nr = b.nr /\ a.kind = b.kind
         /\ /\ TempPlace(d, a, r) /\ TempPlace(d, b, r) /\ a.nr \in 0..5 /\ b.nr \in 0..5
            => a.nr = b.nr /\ a.kind = b.kind
         /\ FanPlace(d, a, r) /\ FanPlace(d, b, r) => a.nr = b.nr /\ a.kind = b.kind
         /\ PwmPlace(d, a, r) /\ PwmPlace(d, b, r) => a.nr = b.nr /\ a.kind = b.kind
         /\ AutoPlace(d, a, r) /\ AutoPlace(d, b, r) => a.nr = b.nr /\ a.kind = b.kind
<1>1. InPlace(d, a, r) /\ InPlace(d, b, r) => a.nr = b.nr /\ a.kind = b.kind
  BY DEF InPlace
<1>2. TempPlace(d, a, r) /\ TempPlace(d, b, r) /\ a.nr \in 0..5 /\ b.nr \in 0..5
      => a.nr = b.nr /\ a.kind = b.kind
  BY DEF TempPlace
<1>3. FanPlace(d, a, r) /\ FanPlace(d, b, r) => a.nr = b.nr /\ a.kind = b.kind
  BY DEF FanPlace
<1>4. PwmPlace(d, a, r) /\ PwmPlace(d, b, r) => a.nr = b.nr /\ a.kind = b.kind
  BY DEF PwmPlace
<1>5. AutoPlace(d, a, r) /\ AutoPlace(d, b, r) => a.nr = b.nr /\ a.kind = b.kind
  BY DEF AutoPlace
<1> QED BY <1>1, <1>2, <1>3, <1>4, <1>5

\* The registers of each group
InRange(d) == 32..40 \union 47..63 \union {n + 34 : n \in d.has_in \intersect (10..12)}
TempRange(d) ==
  {n + 41 : n \in d.has_temp} \union 64..71 \union 86..87 \union 89..90 \union 144..145
  \union 180..185 \union (IF d.type = "it8686" THEN {146} ELSE {})
FanRange(d) ==
  13..18 \union 24..29 \union 128..135
  \union (IF d.type \in {"it8655", "it8665"} THEN {147, 148, 178, 179} ELSE 76..79)
PwmRange(d) ==
  21..23 \union (IF d.type \in {"it8655", "it8665", "it8622", "it8613"}
                 THEN {30, 31, 146} ELSE {127, 167, 175})
  \union (IF d.type \in OldPwmType THEN {} ELSE {99, 107, 115, 123, 163, 171})
AutoRange(d) ==
  IF d.type \in OldPwmType THEN 96..119
  ELSE {96, 97, 98, 100, 101, 104, 105, 106, 108, 109, 112, 113, 114, 116, 117, 124, 164, 172}

\* A place is within its group.
LEMMA PlaceRanges ==
  ASSUME NEW d, Sensible(d), NEW a, NEW r
  PROVE  /\ InPlace(d, a, r) => r \in InRange(d)
         /\ TempPlace(d, a, r) /\ a.nr \in 0..5 => r \in TempRange(d)
         /\ FanPlace(d, a, r) => r \in FanRange(d)
         /\ PwmPlace(d, a, r) => r \in PwmRange(d)
         /\ AutoPlace(d, a, r) => r \in AutoRange(d)
<1>1. InPlace(d, a, r) => r \in InRange(d)
  BY DEF InPlace, InRange
<1>2. TempPlace(d, a, r) /\ a.nr \in 0..5 => r \in TempRange(d)
  BY DEF TempPlace, TempRange
<1>3. FanPlace(d, a, r) => r \in FanRange(d)
  BY DEF FanPlace, FanRange
<1>4. PwmPlace(d, a, r) => r \in PwmRange(d)
  BY DEF PwmPlace, PwmRange
<1>5. AutoPlace(d, a, r) => r \in AutoRange(d)
  BY DEF AutoPlace, AutoRange
<1> QED BY <1>1, <1>2, <1>3, <1>4, <1>5

\* The groups share no register; the voltages 10 to 12 and the temperatures 4 to 6
\* have the same three, but not at the same time.
LEMMA RangesApart ==
  ASSUME NEW d, Sensible(d)
  PROVE  /\ InRange(d) \intersect TempRange(d) = {}
         /\ InRange(d) \intersect FanRange(d) = {} /\ InRange(d) \intersect PwmRange(d) = {}
         /\ InRange(d) \intersect AutoRange(d) = {}
         /\ TempRange(d) \intersect FanRange(d) = {} /\ TempRange(d) \intersect PwmRange(d) = {}
         /\ TempRange(d) \intersect AutoRange(d) = {}
         /\ FanRange(d) \intersect PwmRange(d) = {} /\ FanRange(d) \intersect AutoRange(d) = {}
         /\ PwmRange(d) \intersect AutoRange(d) = {}
<1>1. /\ \A r \in InRange(d) : /\ r \in 32..63 /\ r \notin 41..43
                               /\ r \in 44..46 => r - 34 \in d.has_in
      /\ \A r \in TempRange(d) : /\ r \in 41..46 \union 64..71 \union 180..185
                                      \union {86, 87, 89, 90, 144, 145, 146}
                                 /\ r \in 41..46 => r - 41 \in d.has_temp
                                 /\ r = 146 => d.type = "it8686"
  BY DEF InRange, TempRange, Sensible, SensorsOf
<1>2. InRange(d) \intersect TempRange(d) = {}
  <2>1. ASSUME NEW r \in InRange(d), r \in TempRange(d) PROVE FALSE
    <3>1. r \in 44..46 /\ r - 41 \in 3..5 /\ (r - 41) + 7 = r - 34
      BY <1>1, <2>1
    <3> QED BY <1>1, <2>1, <3>1 DEF Sensible
  <2> QED BY <2>1
<1>3. /\ InRange(d) \intersect FanRange(d) = {} /\ InRange(d) \intersect PwmRange(d) = {}
      /\ InRange(d) \intersect AutoRange(d) = {}
  BY <1>1 DEF FanRange, PwmRange, AutoRange
<1>4. /\ TempRange(d) \intersect FanRange(d) = {} /\ TempRange(d) \intersect PwmRange(d) = {}
      /\ TempRange(d) \intersect AutoRange(d) = {}
  BY <1>1 DEF FanRange, PwmRange, AutoRange
<1>5. FanRange(d) \intersect PwmRange(d) = {} /\ FanRange(d) \intersect AutoRange(d) = {}
  BY DEF FanRange, PwmRange, AutoRange
<1>6. PwmRange(d) \intersect AutoRange(d) = {}
  BY DEF PwmRange, AutoRange
<1> QED BY <1>2, <1>3, <1>4, <1>5, <1>6

\* All of them are bytes, and none is a register of the whole chip.
LEMMA RangesOwn ==
  ASSUME NEW d, Sensible(d), NEW r,
         r \in InRange(d) \union TempRange(d) \union FanRange(d) \union PwmRange(d)
                 \union AutoRange(d)
  PROVE  r \in 0..255 /\ r \notin GlobalRegs(d.type)
<1>1. ASSUME r \in InRange(d) \union TempRange(d) PROVE r \in 32..185 /\ r \notin GlobalRegs(d.type)
  BY <1>1 DEF InRange, TempRange, GlobalRegs, Sensible, SensorsOf
<1>2. ASSUME r \in FanRange(d) \union PwmRange(d) PROVE r \in 13..179 /\ r \notin GlobalRegs(d.type)
  BY <1>2 DEF FanRange, PwmRange, GlobalRegs
<1>3. ASSUME r \in AutoRange(d) PROVE r \in 96..172 /\ r \notin GlobalRegs(d.type)
  BY <1>3 DEF AutoRange, GlobalRegs, OldPwmType, SixTempType, BankedType
<1> QED BY <1>1, <1>2, <1>3

\* What the chip at slot n has, of the sensors its type can have
LEMMA SensibleData ==
  ASSUME NEW n \in Slot, sys.chips[n] \in Chip
  PROVE  Sensible(DataOf(n))
<1> DEFINE b == sys.chips[n]
           s == SioOf(n)
           d == DataOf(n)
<1>1. b.ec \in Ec /\ b.type \in ChipType
  BY ChipFields
<1>2. SensorsOf(d)
  BY <1>1, DataRanges DEF DataOf
<1>3. /\ d.type = b.type /\ d.has_pwm = HasPwm(b, b.ec, s)
      /\ d.has_temp = HasTemp(b, b.ec, s) /\ d.has_in = HasIn(b, b.ec, s)
  BY DEF DataOf, Data
<1>4. SkipPwm(b) \subseteq s.skip_pwm
  BY DEF SioOf, Found
<1> HIDE DEF b, s, d
<1>5. b.type \in OldPwmType => d.has_pwm \subseteq 0..2
  <2>1. b.type \in OldPwmType => 3..5 \subseteq s.skip_pwm
    BY <1>4 DEF SkipPwm, NoPwm, OldPwmType, FourPwm, FivePwm, SixPwm, SixFans, SixTempType
  <2> QED BY <1>3, <2>1 DEF HasPwm, When
<1>6. ASSUME NEW m \in 3..5, m \in d.has_temp, m + 7 \in d.has_in PROVE FALSE
  <2>1. b.type \in SixTempType /\ b.ec.temp456[m] >= 2
    BY <1>3, <1>6 DEF HasTemp, When
  <2>2. b.ec.temp456[m] = 1
    BY <1>3, <1>6 DEF HasIn, When
  <2> QED BY <2>1, <2>2
<1>7. Sensible(d)
  BY <1>1, <1>2, <1>3, <1>5, <1>6 DEF Sensible
<1> QED BY <1>7 DEF d

\* So it is with the device about to be offered.
LEMMA OfferingSensible ==
  ASSUME IInv, SameInv, Offering
  PROVE  Sensible(data[i])
<1>1. i \in Slot /\ data[i] = DataOf(i) /\ sys.chips[i] \in Chip
  BY SystemFields DEF IInv, LoadTypes, DevicesInv, SameInv, Offering, chip
<1> QED BY <1>1, SensibleData

\* On every chip, of every type and however it is strapped, the attributes of a sensor
\* are visible just when the chip has the sensor and what the attribute is about: the
\* positions the is_visible functions compute are those of the arrays.  A voltage with a
\* label has a value.
THEOREM AttributesAsNamed == Spec => []VisibleAsNamed
<1>1. ASSUME IInv, SameInv, Offering
      PROVE  VisibleAsNamed
  <2> DEFINE d == data[i]
  <2>1. Sensible(d)
    BY <1>1, OfferingSensible
  <2> HIDE DEF d
  <2>2. /\ d.has_fan \subseteq 0..5 /\ d.has_pwm \subseteq 0..5 /\ d.has_temp \subseteq 0..5
        /\ d.has_in \subseteq 0..12 /\ (d.type \in OldPwmType => d.has_pwm \subseteq 0..2)
    BY <2>1 DEF Sensible, SensorsOf
  <2>3. InShown(d) = {a \in Named(d.has_in, InKinds) :
                        (a.kind = "beep" => d.has_beep) /\ (a.nr > 7 => a.kind = "input")}
    BY <2>2, InVisible
  <2>4. FanShown(d) = {a \in Named(d.has_fan, FanKinds \o <<"div">>) :
                        /\ a.kind = "beep" => d.has_beep
                        /\ a.kind = "div" => a.nr < 3 /\ ~Is16Bit(d.type, d.rev)}
    BY <2>2, FanVisible
  <2>5. \A types : TempShown(d, types) =
          {a \in Named(d.has_temp, TempKinds) :
             /\ a.kind = "beep" => d.has_beep
             /\ a.kind = "type" => a.nr \in types
             /\ a.kind # "input" => a.nr < NumTempLimit(d.type)
             /\ a.kind = "offset" => d.type \notin OldPwmType}
    BY <2>2, TempVisible
  <2>6. PwmShown(d) = Named(d.has_pwm, PwmKinds)
    BY <2>2, PwmVisible
  <2>7. AutoShown(d) =
          {a \in Named(d.has_pwm, AutoKinds) :
             \/ /\ HasNewerAutoPwm(d.type) /\ a \in Named(0..5, PointKinds \o StartKinds)
                /\ ~(a.kind = "start" /\ a.nr > 2)
             \/ /\ HasOldAutoPwm(d.type, d.rev)
                /\ a.nr < 3 /\ a \notin Named(0..5, StartKinds)}
    BY <2>2, AutoVisible
  <2>8. \A types \in {{}, {0, 2}, 0..5} : TempShown(d, types) =
          {a \in Named(d.has_temp, TempKinds) :
             /\ a.kind = "beep" => d.has_beep
             /\ a.kind = "type" => a.nr \in types
             /\ a.kind # "input" => a.nr < NumTempLimit(d.type)
             /\ a.kind = "offset" => d.type \notin OldPwmType}
    BY <2>5, Zenon
  <2>9. LabelsHaveInputs
    BY <1>1, LabelledVoltagesExist
  <2> QED BY <2>3, <2>4, <2>8, <2>6, <2>7, <2>9 DEF VisibleAsNamed, d
<1>2. IInv /\ SameInv => VisibleAsNamed
  BY <1>1 DEF VisibleAsNamed
<1> QED BY <1>2, InitSame, SameStep, LoadInvariant, PTL DEF Spec

\* No two elements of Owned(d) have one register.
LEMMA OwnedApart ==
  ASSUME NEW d, Sensible(d), NEW o \in Owned(d), NEW p \in Owned(d), o[3] = p[3]
  PROVE  o = p
<1> DEFINE a == o[2]
           b == p[2]
           r == o[3]
<1>1. Placed(d, o) /\ Placed(d, p)
  BY OwnedPlaced
<1>2. /\ o = <<o[1], a, r>> /\ a = [nr |-> a.nr, kind |-> a.kind]
      /\ p = <<p[1], b, r>> /\ b = [nr |-> b.nr, kind |-> b.kind]
  BY <1>1 DEF Placed
<1>3. /\ \/ o[1] = "in" /\ InPlace(d, a, r)
         \/ o[1] = "temp" /\ TempPlace(d, a, r) /\ a.nr \in 0..5
         \/ o[1] = "fan" /\ FanPlace(d, a, r)
         \/ o[1] = "pwm" /\ PwmPlace(d, a, r)
         \/ o[1] = "auto" /\ AutoPlace(d, a, r)
      /\ \/ p[1] = "in" /\ InPlace(d, b, r)
         \/ p[1] = "temp" /\ TempPlace(d, b, r) /\ b.nr \in 0..5
         \/ p[1] = "fan" /\ FanPlace(d, b, r)
         \/ p[1] = "pwm" /\ PwmPlace(d, b, r)
         \/ p[1] = "auto" /\ AutoPlace(d, b, r)
  BY <1>1 DEF Placed
<1> HIDE DEF a, b, r
<1>4. o[1] = p[1]
  BY <1>3, PlaceRanges, RangesApart
<1>5. a.nr = b.nr /\ a.kind = b.kind
  BY <1>3, <1>4, PlacesApart
<1>6. a = b
  BY <1>2, <1>5
<1> QED BY <1>2, <1>4, <1>6

\* And none has one of the whole chip.
LEMMA OwnedBytes ==
  ASSUME NEW d, Sensible(d), NEW o \in Owned(d)
  PROVE  o[3] \in 0..255 /\ o[3] \notin GlobalRegs(d.type)
<1> DEFINE r == o[3]
<1>1. Placed(d, o)
  BY OwnedPlaced
<1>2. r \in InRange(d) \union TempRange(d) \union FanRange(d) \union PwmRange(d)
              \union AutoRange(d)
  BY <1>1, PlaceRanges DEF Placed
<1> QED BY <1>2, RangesOwn

\* Of any chip, no two attributes it offers act on one register, and none acts on a
\* register of the whole chip.
THEOREM OneRegisterEach == Spec => []RegistersApart
<1>1. ASSUME IInv, SameInv, Offering
      PROVE  RegistersApart
  <2> DEFINE d == data[i]
             owned == Owned(d)
             regs == {o[3] : o \in owned}
             register == [o \in owned |-> o[3]]
  <2>1. Sensible(d)
    BY <1>1, OfferingSensible
  <2> HIDE DEF d
  <2>2. regs \subseteq 0..255 /\ regs \intersect GlobalRegs(d.type) = {}
    BY <2>1, OwnedBytes
  <2>3. IsFiniteSet(regs)
    <3>1. PICK low, high \in Int : low = 0 /\ high = 255
      OBVIOUS
    <3>2. IsFiniteSet(low..high)
      BY FS_Interval, Zenon
    <3>3. regs \in SUBSET (low..high)
      BY <2>2, <3>1
    <3> QED BY <3>2, <3>3, FS_Subset, Zenon
  <2>4. register \in Injection(owned, regs) /\ register \in Surjection(owned, regs)
    <3>1. register \in [owned -> regs]
      OBVIOUS
    <3>2. \A o, p \in owned : register[o] = register[p] => o = p
      BY <2>1, OwnedApart
    <3>3. \A r \in regs : \E o \in owned : register[o] = r
      OBVIOUS
    <3> QED BY <3>1, <3>2, <3>3, Zenon DEF Injection, IsInjective, Surjection
  <2>5. Cardinality(regs) = Cardinality(owned)
    <3> HIDE DEF owned, regs, register
    <3> QED BY <2>3, <2>4, FS_Injection, Zenon
  <2> QED BY <2>2, <2>5, Zenon DEF RegistersApart, d
<1>2. IInv /\ SameInv => RegistersApart
  BY <1>1 DEF RegistersApart
<1> QED BY <1>2, InitSame, SameStep, LoadInvariant, PTL DEF Spec
=============================================================================
