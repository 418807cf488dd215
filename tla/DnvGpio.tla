------------------------------- MODULE DnvGpio -------------------------------
(***************************************************************************)
(* pinctrl-dnv.c, the GPIO driver of the Denverton boards: the tables of   *)
(* pads and registers, the gpio_chip and irq_chip operations, the handler  *)
(* of the interrupt all pins share, and suspend and resume.                *)
(*                                                                         *)
(* Each operation reads and writes its registers under vg->lock and is one *)
(* step.  The interrupt handler takes no lock: it looks at one pin in a    *)
(* step.  It is registered with handle_simple_irq, which does not call     *)
(* dnv_irq_ack, and nothing else does: that function is never reached.     *)
(***************************************************************************)
EXTENDS Integers, Sequences, FiniteSets

CONSTANTS Gpio,     \* the GPIOs considered, as numbers of the gpio_chip
          Type(_),  \* the trigger types asked for on a GPIO
          Use(_),   \* the directions its consumer sets it to
          Locked    \* the pads whose configuration the firmware has locked

npads == 13   \* the GPIOs below have registers for interrupts
ngpios == 153

ASSUME GpioAssumption == Gpio \subseteq 0..ngpios - 1 /\ Locked \subseteq Gpio

ASSUME UseAssumption == \A g \in Gpio : Use(g) \subseteq {"in", "out"}

Trigger == {"RISING", "FALLING", "BOTH", "HIGH", "LOW"}
ASSUME TypeAssumption ==
  \A g \in Gpio : Type(g) \subseteq Trigger \union {"NONE", "HIGH_AND_RISING"}
-----------------------------------------------------------------------------
(* The tables: offsets from the community's registers, C5 = 0x30000.       *)

C5 == 196608

padcfglock_map_dnv == <<0, 8, 8, 32, 8, 8, 8, 8, 16, 16, 24, 24, 8>>
gpi_gpe_map_dnv == <<0, 4, 4, 16, 4, 4, 4, 4, 8, 8, 12, 12, 4>>
gpe_bit == <<27, 1, 2, 9, 27, 28, 29, 30, 7, 8, 27, 28, 0>>

\* Mutant: the line of GPIO 9 is that of GPIO 8.
PadOwnMapRepeated == <<0, 4, 4, 48, 12, 12, 12, 12, 16, 16, 28, 28, 0>>

pad_own_map_dnv == <<0, 4, 4, 48, 12, 12, 12, 12, 16, 20, 28, 28, 0>>

pad_own_bit == <<12, 4, 8, 4, 12, 16, 20, 24, 28, 0, 12, 16, 12>>

\* The first of n successive entries, 8 apart
Run(first, n) == [k \in 1..n |-> first + 8 * (k - 1)]

\* pad_cfg_dw_map_dnv, with -1 where there is no pad
pad_cfg_dw_map_dnv ==
  <<216, 264, 272, 896, 360, 368, 376, 384, 456, 464, 784, 792, 144, 152>>
  \o Run(0, 27) \o Run(224, 5) \o <<-1>> \o Run(280, 6)
  \o Run(0, 11) \o Run(720, 8) \o Run(656, 7) \o Run(568, 11) \o Run(392, 8)
  \o Run(160, 25) \o Run(808, 11) \o Run(88, 7) \o <<-1, -1, -1, -1, -1>> \o Run(512, 7)

Base(g) == IF g \in 0..2 \union 14..45 \union 47..52 THEN 0 ELSE C5

\* reg_map_offset_dnv for the configuration of a pad: -1 where it fails
PadCfg(g) ==
  LET offset == pad_cfg_dw_map_dnv[g + 1]
  IN IF offset < 0 \/ g \in {46} \union 141..145 THEN -1 ELSE offset + Base(g)

\* A bit of the registers of interrupts, and a field of those of ownership
GpeWord(g) == gpi_gpe_map_dnv[g + 1] + Base(g)
GpeBit(g) == <<GpeWord(g), gpe_bit[g + 1]>>
LockWord(g) == padcfglock_map_dnv[g + 1] + Base(g)
OwnField(g) == <<pad_own_map_dnv[g + 1] + Base(g), pad_own_bit[g + 1]>>

Pins == 0..npads - 1
AllFields == {OwnField(g) : g \in Pins}

HasIrq(g) == g < npads
Checked == {g \in Gpio : HasIrq(g)} \union {npads}
-----------------------------------------------------------------------------

VARIABLES
  \* the chip
  dw0,      \* dw0[g]: PAD_CFG_DW0 of the pad of g
  en, sts,  \* GPI_GPE_EN and GPI_GPE_STS: the GPIOs whose bit is set
  foreign,  \* PAD_OWN: the fields that do not name the host
  hostsw,   \* HOSTSW_OWN: the GPIOs in the mode that ignores GPI_GPE
  \* struct dnv_gpio
  irq_type, saved_context,
  \* what goes on
  scan,     \* the pin the interrupt handler looks at next, or npads outside it
  asleep,   \* the system is suspended
  requested, \* the GPIOs that have a consumer
  \* history
  waiting,  \* the GPIOs with an event not yet handed to their consumer
  lastOut,  \* the level last asked for, or -1
  lost      \* the pads that lost their configuration in a sleep

chip == <<dw0, en, sts, foreign, hostsw>>
history == <<waiting, lastOut, lost>>
vars == <<chip, irq_type, saved_context, scan, asleep, requested, history>>

Pad == [pmode : BOOLEAN, \* PMODE0: another function than GPIO
        inputDis : BOOLEAN, outputDis : BOOLEAN, level : 0..1,
        sci : BOOLEAN,   \* GPIROUTSCI: events set the status bit
        edge : BOOLEAN, inv : BOOLEAN]

\* A pad as the firmware may leave it
PowerOn == [pmode |-> TRUE, inputDis |-> FALSE, outputDis |-> TRUE, level |-> 0,
            sci |-> TRUE, edge |-> FALSE, inv |-> FALSE]

Awake == ~asleep

\* The chip ignores a write to a locked pad (external).
Put(g, pad) == dw0' = [dw0 EXCEPT ![g] = IF g \in Locked THEN @ ELSE pad]
-----------------------------------------------------------------------------
(* The gpio_chip.                                                          *)

\* dnv_gpio_irq_init_hw at the end of dnv_gpio_probe: dnv_gpio_clear_triggering
\* on every pin with interrupts; its test for a negative entry in range.pins,
\* whose elements are unsigned, excludes none.
Init ==
  /\ dw0 = [g \in Gpio |-> [PowerOn EXCEPT !.sci = ~HasIrq(g) \/ g \in Locked]]
  /\ en = {} /\ sts = {}
  /\ foreign = AllFields
  /\ hostsw = {g \in Gpio : HasIrq(g)}
  /\ irq_type = [g \in Gpio |-> "NONE"]
  /\ saved_context = [g \in Gpio |-> PowerOn]
  /\ scan = npads /\ asleep = FALSE /\ requested = {}
  /\ waiting = {} /\ lastOut = [g \in Gpio |-> -1] /\ lost = {}

Request(g) ==
  /\ Awake /\ g \notin requested
  /\ requested' = requested \union {g}
  /\ Put(g, [dw0[g] EXCEPT !.pmode = FALSE])
  /\ UNCHANGED <<en, sts, foreign, hostsw, irq_type, saved_context, scan, asleep, history>>

\* Mutant: the status register is not written.
ClearedStsNot(g) == {}

\* The status bits dnv_gpio_clear_triggering clears: it writes back all that are
\* set in the word, and writing a 1 clears a bit.
ClearedSts(g) == {h \in sts : GpeWord(h) = GpeWord(g)}

\* dnv_gpio_clear_triggering does nothing to a pin without interrupts, and
\* leaves irq_type as it is.
Free(g) ==
  /\ Awake /\ g \in requested
  /\ requested' = requested \ {g}
  /\ IF HasIrq(g)
     THEN /\ Put(g, [dw0[g] EXCEPT !.sci = FALSE])
          /\ en' = en \ {g}
          /\ sts' = sts \ ClearedSts(g)
     ELSE UNCHANGED <<dw0, en, sts>>
  /\ waiting' = waiting \ {g}
  /\ lastOut' = [lastOut EXCEPT ![g] = -1]
  /\ lost' = lost \ {g}
  /\ UNCHANGED <<foreign, hostsw, irq_type, saved_context, scan, asleep>>

Set(g, val) ==
  /\ Awake /\ g \in requested
  /\ Put(g, [dw0[g] EXCEPT !.level = val])
  /\ lastOut' = [lastOut EXCEPT ![g] = val]
  /\ UNCHANGED <<en, sts, foreign, hostsw, irq_type, saved_context, scan, asleep, requested,
                 waiting, lost>>

DirectionInput(g) ==
  /\ Awake /\ g \in requested
  /\ Put(g, [dw0[g] EXCEPT !.inputDis = FALSE, !.outputDis = TRUE])
  /\ UNCHANGED <<en, sts, foreign, hostsw, irq_type, saved_context, scan, asleep, requested,
                 history>>

\* The level and the enable are in one write.
DirectionOutput(g, val) ==
  /\ Awake /\ g \in requested
  /\ Put(g, [dw0[g] EXCEPT !.inputDis = TRUE, !.outputDis = FALSE, !.level = val])
  /\ lastOut' = [lastOut EXCEPT ![g] = val]
  /\ UNCHANGED <<en, sts, foreign, hostsw, irq_type, saved_context, scan, asleep, requested,
                 waiting, lost>>
-----------------------------------------------------------------------------
(* The irq_chip.                                                           *)

\* Mutant: the inversion is left as it was.
ConfiguredKept(pad, type) ==
  [pad EXCEPT !.sci = type # "NONE", !.edge = type \in {"RISING", "FALLING", "BOTH"}]

\* What dnv_irq_set_type makes of PAD_CFG_DW0
Configured(pad, type) ==
  [pad EXCEPT !.sci = type # "NONE",
              !.edge = type \in {"RISING", "FALLING", "BOTH"},
              !.inv = CASE type \in {"FALLING", "LOW"} -> TRUE
                        [] type \in {"RISING", "HIGH"} -> FALSE
                        [] type = "BOTH" -> ~@
                        [] OTHER -> @]

\* Mutant: the default of the switch is missing.
SupportedAll(type) == TRUE

\* The types dnv_irq_set_type knows
Supported(type) == type \in Trigger \union {"NONE"}

\* A type that is refused is so after the pad was taken into ownership.  A pin
\* without interrupts is refused at once.
IrqSetType(g, type) ==
  /\ Awake /\ g \in requested /\ HasIrq(g)
  /\ foreign' = foreign \ {OwnField(g)}
  /\ hostsw' = hostsw \ {g}
  /\ IF Supported(type)
     THEN /\ Put(g, Configured(dw0[g], type))
          /\ en' = IF type = "NONE" THEN en \ {g} ELSE en \union {g}
          /\ irq_type' = [irq_type EXCEPT ![g] = type]
     ELSE UNCHANGED <<dw0, en, irq_type>>
  /\ UNCHANGED <<sts, saved_context, scan, asleep, requested, history>>

\* An event at a pad that is routed (external)
Event(g) ==
  /\ Awake /\ HasIrq(g) /\ dw0[g].sci
  /\ sts' = sts \union {g}
  /\ waiting' = IF g \in en THEN waiting \union {g} ELSE waiting
  /\ UNCHANGED <<dw0, en, foreign, hostsw, irq_type, saved_context, scan, asleep, requested,
                 lastOut, lost>>

\* The next pin the handler looks at: a round for a pin not considered does nothing.
From(first) == CHOOSE g \in Checked : g >= first /\ \A h \in Checked : h >= first => g <= h

\* The interrupt is raised: dnv_gpio_irq_handler starts.
Enter ==
  /\ Awake /\ scan = npads /\ sts \intersect en # {}
  /\ scan' = From(0)
  /\ UNCHANGED <<chip, irq_type, saved_context, asleep, requested, history>>

Due(g) == g \in Gpio /\ irq_type[g] # "NONE" /\ g \in sts

\* Mutant: the handler returns after the first pin it has handled.
NextPinOnly(g) == IF Due(g) THEN npads ELSE From(g + 1)

NextPin(g) == From(g + 1)

\* One round of its loop; generic_handle_irq calls the consumer's handler.  The
\* status bit stays set.  The test and the call are one step: a consumer gives back
\* its interrupt, with free_irq, before it frees the GPIO, and free_irq waits for a
\* call in progress.
Check ==
  /\ scan < npads
  /\ waiting' = IF Due(scan) THEN waiting \ {scan} ELSE waiting
  /\ scan' = NextPin(scan)
  /\ UNCHANGED <<chip, irq_type, saved_context, asleep, requested, lastOut, lost>>
-----------------------------------------------------------------------------
(* Suspend and resume, without vg->lock.                                   *)

\* GPIOs from npads on have no bit in PADCFGLOCK and are left out.
Saved == {g \in Gpio : HasIrq(g)} \ Locked

Suspend ==
  /\ Awake /\ scan = npads
  /\ asleep' = TRUE
  /\ saved_context' = [g \in Gpio |-> IF g \in Saved THEN dw0[g] ELSE saved_context[g]]
  /\ UNCHANGED <<chip, irq_type, scan, requested, history>>

\* The pad of g when the system wakes
Woken(g, power) == IF power THEN dw0[g] ELSE PowerOn

\* Mutant: the level is missing from DNV_CONF0_RESTORE_MASK.
RestoredLevelNot(g, power) == [saved_context[g] EXCEPT !.level = Woken(g, power).level]

\* Every field modelled is in DNV_CONF0_RESTORE_MASK.
Restored(g, power) == saved_context[g]

\* dnv_gpio_resume first tests reg, a variable declared in the loop and not yet
\* set: each pin may be skipped.  The registers of interrupts are not restored.
\* The chip may have lost its registers (external): power is FALSE.  The saved
\* contexts are not read again before the next suspend, and forgotten here.
Resume ==
  /\ asleep
  /\ asleep' = FALSE
  /\ \E skip \in SUBSET Saved, power \in BOOLEAN :
       /\ dw0' = [g \in Gpio |-> IF g \in Saved \ skip THEN Restored(g, power)
                                 ELSE Woken(g, power)]
       /\ saved_context' = [g \in Gpio |-> IF g \in Saved THEN PowerOn ELSE saved_context[g]]
       /\ lost' = IF power THEN lost ELSE lost \union (Gpio \ (Saved \ skip))
       /\ IF power
          THEN UNCHANGED <<en, sts, foreign, hostsw, waiting>>
          ELSE /\ en' = {} /\ sts' = {} /\ waiting' = {}
               /\ foreign' = AllFields
               /\ hostsw' = {g \in Gpio : HasIrq(g)}
  /\ UNCHANGED <<irq_type, scan, requested, lastOut>>
-----------------------------------------------------------------------------

Next ==
  \/ \E g \in Gpio :
       \/ Request(g) \/ Free(g)
       \/ "out" \in Use(g) /\ \E val \in 0..1 : Set(g, val) \/ DirectionOutput(g, val)
       \/ "in" \in Use(g) /\ DirectionInput(g)
       \/ \E type \in Type(g) : IrqSetType(g, type)
       \/ Event(g)
  \/ Enter \/ Check
  \/ Suspend \/ Resume

\* The processor takes a pending interrupt and finishes its handler.
Spec == Init /\ [][Next]_vars /\ WF_vars(Enter) /\ WF_vars(Check)
-----------------------------------------------------------------------------
(* Properties.                                                             *)

\* Every variable has its type: the pads, the bits of the shared registers, and
\* what dnv_gpio remembers.
TypeOK ==
  /\ dw0 \in [Gpio -> Pad] /\ saved_context \in [Gpio -> Pad]
  /\ en \subseteq Gpio /\ sts \subseteq Gpio /\ hostsw \subseteq Gpio
  /\ foreign \subseteq AllFields
  /\ irq_type \in [Gpio -> Trigger \union {"NONE"}]
  /\ scan \in 0..npads /\ asleep \in BOOLEAN /\ requested \subseteq Gpio
  /\ waiting \subseteq Gpio /\ lastOut \in [Gpio -> -1..1] /\ lost \subseteq Gpio

Distinct(S, F(_)) == Cardinality({F(g) : g \in S}) = Cardinality(S)

\* The groups of pads, and where the pads of a group start among the bits of the
\* GPE registers, the fields of PAD_OWN and the registers of the pads.
Group(g) == IF g \in 0..2 THEN "NORTH"
            ELSE IF gpi_gpe_map_dnv[g + 1] \in {4, 8} THEN "SOUTH0" ELSE "SOUTH1"
OwnStart == [NORTH |-> 24, SOUTH0 |-> 32, SOUTH1 |-> 40]
PadStart == [NORTH |-> 0, SOUTH0 |-> 14, SOUTH1 |-> 25]

\* The number of a pin as each of three tables has it
ByGpe(g) == 8 * gpi_gpe_map_dnv[g + 1] + gpe_bit[g + 1]
ByOwn(g) == 2 * pad_own_map_dnv[g + 1] + pad_own_bit[g + 1] \div 4 + OwnStart[Group(g)]
ByPad(g) == pad_cfg_dw_map_dnv[g + 1] \div 8 + PadStart[Group(g)]

\* The entries of PAD_OWN that name another pad: GPIO 12 has the bits of pad 3 of
\* its group, GPIOs 10 and 11 the register GROUP1_0 for GROUP1_3.
Misnamed == {10, 11, 12}

\* What the tables say of one another
PadTables ==
  /\ Distinct({g \in 0..ngpios - 1 : PadCfg(g) # -1}, PadCfg)
  /\ Distinct(Pins, GpeBit) /\ Distinct(Pins, OwnField)
  /\ \A g \in Pins :
       /\ LockWord(g) - Base(g) = 2 * (GpeWord(g) - Base(g))
       /\ ByPad(g) = ByGpe(g)
       /\ ByOwn(g) = ByGpe(g) <=> g \notin Misnamed

\* No two GPIOs share a pad's registers, a GPE bit or a field of ownership; and
\* for each pin with interrupts the tables of reg_map_offset_dnv and
\* reg_bit_shift_dnv agree on which pad of the community it is, save for the
\* ownership of three.  So taking a pin takes no pad from the firmware that belongs
\* to a pin nobody asked for.
TablesAgree == PadTables /\ \A g \in Pins \ Gpio : OwnField(g) \in foreign

\* While a pin's GPE bit is enabled its pad detects what dnv_irq_set_type was last
\* asked for, events are routed, and the pin is the host's: whatever was
\* requested, freed, refused, saved and restored in between.
EnableMatchesType ==
  \A g \in en \ Locked :
    /\ irq_type[g] # "NONE" /\ dw0[g].sci
    /\ dw0[g].edge <=> irq_type[g] \in {"RISING", "FALLING", "BOTH"}
    /\ irq_type[g] \in {"FALLING", "LOW"} => dw0[g].inv
    /\ irq_type[g] \in {"RISING", "HIGH"} => ~dw0[g].inv
    /\ OwnField(g) \notin foreign /\ g \notin hostsw

\* dnv_gpio_irq_handler hands nothing to a GPIO that was freed, though
\* dnv_gpio_free leaves its irq_type: no status bit is left set behind it.  Not so
\* for a pad that is locked or that lost its configuration in a sleep.
DeliversToRequested ==
  \A g \in Gpio \ (requested \union Locked \union lost) : ~Due(g)

\* An output holds the level last asked for, through a suspend that loses the
\* registers too: the pads that resume does restore get the level back.
LevelHolds ==
  Awake => \A g \in Gpio \ (Locked \union lost) : lastOut[g] # -1 => dw0[g].level = lastOut[g]

\* An event at a pin that stays enabled reaches its consumer, however many events
\* the other pins have: the handler looks at every pin.  The event is lost if the
\* system sleeps or a GPIO of the same word is freed before.
EventDelivered ==
  \A g \in Gpio : g \in waiting ~> g \notin waiting \/ g \notin sts \intersect en \/ asleep
=============================================================================
