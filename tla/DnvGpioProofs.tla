---------------------------- MODULE DnvGpioProofs ----------------------------
(***************************************************************************)
(* Proofs about DnvGpio, for any set of GPIOs, locked pads and uses: its   *)
(* types, EnableMatchesType, DeliversToRequested, LevelHolds and           *)
(* TablesAgree.                                                            *)
(*                                                                         *)
(* They rest on two facts the properties do not say: what suspend saved is *)
(* still on the pads when the system sleeps, so that a resume that restores *)
(* a pad, or finds it kept, leaves it as it was; and a pad that nobody has *)
(* requested routes no events and has no status bit.                       *)
(*                                                                         *)
(* The tables are proved to be what they are: the map of the pads, 153     *)
(* entries appended in runs, as one function of the pad's number, whose    *)
(* pieces do not overlap; and the rows of the pins with interrupts.        *)
(***************************************************************************)
EXTENDS DnvGpio, FiniteSetTheorems, TLAPS

SavedInv == asleep => \A g \in Saved : saved_context[g] = dw0[g]

UnusedInv ==
  \A g \in Gpio \ (requested \union Locked \union lost) :
    HasIrq(g) => ~dw0[g].sci /\ g \notin sts

\* A GPIO without interrupts takes no part in them.
IrqInv == \A g \in Gpio : ~HasIrq(g) => irq_type[g] = "NONE" /\ g \notin sts /\ g \notin en

LevelInv == \A g \in Gpio \ (Locked \union lost) : lastOut[g] # -1 => dw0[g].level = lastOut[g]

IInv == TypeOK /\ SavedInv /\ UnusedInv /\ IrqInv /\ EnableMatchesType /\ LevelInv

LEMMA CheckedFacts == \A g \in Checked : g \in Nat /\ g <= 13
<1> SUFFICES ASSUME NEW g \in Checked PROVE g \in Nat /\ g <= 13
  OBVIOUS
<1>1. CASE g \in Gpio /\ HasIrq(g)
  <2>1. g \in Nat
    BY <1>1, GpioAssumption DEF ngpios
  <2> QED BY <1>1, <2>1 DEF HasIrq, npads
<1>2. CASE g = npads
  BY <1>2 DEF npads
<1> QED BY <1>1, <1>2 DEF Checked

LEMMA GpioFacts == Gpio \subseteq Nat /\ Locked \subseteq Gpio
  BY GpioAssumption DEF ngpios

\* The pin the handler looks at next is one of those it considers.  That there is
\* one follows from the last pin downwards: it is the first one, or the next one of
\* its successor.
LEMMA FromType ==
  ASSUME NEW first \in 0..npads
  PROVE  From(first) \in Checked /\ From(first) \in 0..npads
<1> DEFINE HasNext(k) == \E g \in Checked : g >= k /\ \A h \in Checked : h >= k => g <= h
<1>1. \A g \in Checked : g \in Nat /\ g <= 13
  BY CheckedFacts
<1>2. HasNext(13)
  BY <1>1 DEF Checked, npads
<1>3. ASSUME NEW k \in 0..12, HasNext(k + 1)
      PROVE  HasNext(k)
  <2>1. CASE k \in Checked
    BY <1>1, <2>1
  <2>2. CASE k \notin Checked
    BY <1>1, <1>3, <2>2
  <2> QED BY <2>1, <2>2
<1>4. \A k \in 0..13 : HasNext(k)
  <2>1. HasNext(12)
    BY <1>2, <1>3
  <2>2. HasNext(11)
    BY <2>1, <1>3
  <2>3. HasNext(10)
    BY <2>2, <1>3
  <2>4. HasNext(9)
    BY <2>3, <1>3
  <2>5. HasNext(8)
    BY <2>4, <1>3
  <2>6. HasNext(7)
    BY <2>5, <1>3
  <2>7. HasNext(6)
    BY <2>6, <1>3
  <2>8. HasNext(5)
    BY <2>7, <1>3
  <2>9. HasNext(4)
    BY <2>8, <1>3
  <2>10. HasNext(3)
    BY <2>9, <1>3
  <2>11. HasNext(2)
    BY <2>10, <1>3
  <2>12. HasNext(1)
    BY <2>11, <1>3
  <2>13. HasNext(0)
    BY <2>12, <1>3
  <2> QED BY <1>2, <2>1, <2>2, <2>3, <2>4, <2>5, <2>6, <2>7, <2>8, <2>9, <2>10, <2>11, <2>12, <2>13
<1>5. HasNext(first)
  BY <1>4 DEF npads
<1>6. From(first) \in Checked
  BY <1>5 DEF From
<1>7. Checked \subseteq 0..npads
  BY <1>1 DEF npads
<1> QED BY <1>6, <1>7

\* A pad with one field changed is a pad.
LEMMA PadExcept ==
  ASSUME NEW pad \in Pad, NEW b \in BOOLEAN
  PROVE  /\ [pad EXCEPT !.sci = b] \in Pad /\ [pad EXCEPT !.pmode = b] \in Pad
         /\ [pad EXCEPT !.sci = b].sci = b
         /\ [pad EXCEPT !.sci = b].level = pad.level
         /\ [pad EXCEPT !.sci = b].edge = pad.edge /\ [pad EXCEPT !.sci = b].inv = pad.inv
  BY DEF Pad

LEMMA PowerOnPad == PowerOn \in Pad
  BY DEF PowerOn, Pad

LEMMA InitIInv == Init => IInv
<1> SUFFICES ASSUME Init PROVE IInv
  OBVIOUS
<1> USE DEF Init
<1>1. dw0 \in [Gpio -> Pad] /\ saved_context \in [Gpio -> Pad]
  <2>1. \A g \in Gpio : (~HasIrq(g) \/ g \in Locked) \in BOOLEAN
    BY DEF HasIrq
  <2> QED BY <2>1, PowerOnPad, PadExcept
<1>2. TypeOK
  <2>1. irq_type \in [Gpio -> Trigger \union {"NONE"}] /\ lastOut \in [Gpio -> -1..1]
    OBVIOUS
  <2>2. scan \in 0..npads
    BY DEF npads
  <2>3. foreign \subseteq AllFields /\ hostsw \subseteq Gpio
    OBVIOUS
  <2> HIDE DEF Init
  <2>4. /\ en = {} /\ sts = {} /\ waiting = {} /\ lost = {} /\ requested = {}
        /\ asleep = FALSE
    BY DEF Init
  <2> QED BY <1>1, <2>1, <2>2, <2>3, <2>4 DEF TypeOK
<1>3. UnusedInv
  BY DEF UnusedInv, PowerOn
<1>4. SavedInv /\ IrqInv /\ EnableMatchesType /\ LevelInv
  BY DEF SavedInv, IrqInv, EnableMatchesType, LevelInv
<1> QED BY <1>2, <1>3, <1>4 DEF IInv

\* A write to a pad changes this pad only, and not if it is locked.
LEMMA PutPad ==
  ASSUME TypeOK, NEW g \in Gpio, NEW pad \in Pad, Put(g, pad)
  PROVE  /\ dw0' \in [Gpio -> Pad]
         /\ dw0'[g] = IF g \in Locked THEN dw0[g] ELSE pad
         /\ \A h \in Gpio \ {g} : dw0'[h] = dw0[h]
  BY DEF TypeOK, Put

\* The operations that change a requested pad but not what it does with events
LEMMA UseStep ==
  ASSUME IInv, Awake, NEW g \in Gpio, NEW pad \in Pad, Put(g, pad),
         pad.sci = dw0[g].sci, pad.edge = dw0[g].edge, pad.inv = dw0[g].inv,
         UNCHANGED <<en, sts, foreign, hostsw, irq_type, saved_context, scan, asleep,
                     waiting, lost>>,
         requested \subseteq requested', requested' \subseteq Gpio,
         \/ lastOut' = lastOut /\ pad.level = dw0[g].level
         \/ lastOut' = [lastOut EXCEPT ![g] = pad.level]
  PROVE  IInv'
<1> USE DEF IInv
<1>1. /\ dw0' \in [Gpio -> Pad]
      /\ dw0'[g] = IF g \in Locked THEN dw0[g] ELSE pad
      /\ \A h \in Gpio \ {g} : dw0'[h] = dw0[h]
  BY PutPad
<1>2. \A h \in Gpio : /\ dw0'[h].sci = dw0[h].sci /\ dw0'[h].edge = dw0[h].edge
                      /\ dw0'[h].inv = dw0[h].inv
  BY <1>1
<1>3. TypeOK'
  <2>1. pad.level \in -1..1
    BY DEF Pad
  <2> QED BY <1>1, <2>1 DEF TypeOK
<1>4. SavedInv' /\ IrqInv'
  BY DEF SavedInv, IrqInv, Awake
<1>5. UnusedInv'
  BY <1>2 DEF UnusedInv
<1>6. EnableMatchesType'
  BY <1>2 DEF EnableMatchesType, TypeOK
<1>7. LevelInv'
  BY <1>1 DEF LevelInv, TypeOK
<1> QED BY <1>3, <1>4, <1>5, <1>6, <1>7

LEMMA FreeStep ==
  ASSUME IInv, NEW g \in Gpio, Free(g)
  PROVE  IInv'
<1> USE DEF IInv, Free
<1>1. /\ dw0' \in [Gpio -> Pad]
      /\ HasIrq(g) /\ g \notin Locked => ~dw0'[g].sci /\ g \notin sts' /\ g \notin en'
      /\ \A h \in Gpio : /\ dw0'[h].level = dw0[h].level
                         /\ dw0'[h].edge = dw0[h].edge /\ dw0'[h].inv = dw0[h].inv
                         /\ h # g => dw0'[h].sci = dw0[h].sci
  <2>1. CASE HasIrq(g)
    <3>1. [dw0[g] EXCEPT !.sci = FALSE] \in Pad
      BY PadExcept DEF TypeOK
    <3>2. /\ dw0' \in [Gpio -> Pad]
          /\ dw0'[g] = IF g \in Locked THEN dw0[g] ELSE [dw0[g] EXCEPT !.sci = FALSE]
          /\ \A h \in Gpio \ {g} : dw0'[h] = dw0[h]
      BY <2>1, <3>1, PutPad
    <3>3. dw0[g] \in Pad
      BY DEF TypeOK
    <3>4. g \notin sts' /\ g \notin en'
      BY <2>1 DEF ClearedSts
    <3>5. /\ dw0'[g].level = dw0[g].level /\ dw0'[g].edge = dw0[g].edge
          /\ dw0'[g].inv = dw0[g].inv /\ (g \notin Locked => dw0'[g].sci = FALSE)
      BY <3>2, <3>3, PadExcept
    <3> QED BY <3>2, <3>4, <3>5
  <2>2. CASE ~HasIrq(g)
    BY <2>2 DEF TypeOK
  <2> QED BY <2>1, <2>2
<1>2. en' \subseteq en /\ sts' \subseteq sts /\ (HasIrq(g) => g \notin en')
  OBVIOUS
<1>3. TypeOK'
  <2>1. waiting' \subseteq Gpio /\ lost' \subseteq Gpio /\ requested' \subseteq Gpio
    BY DEF TypeOK
  <2>2. lastOut' \in [Gpio -> -1..1]
    BY DEF TypeOK
  <2> QED BY <1>1, <1>2, <2>1, <2>2 DEF TypeOK
<1>4. SavedInv' /\ IrqInv'
  BY <1>2 DEF SavedInv, IrqInv, Awake
<1>5. UnusedInv'
  BY <1>1, <1>2 DEF UnusedInv
<1>6. EnableMatchesType'
  BY <1>1, <1>2 DEF EnableMatchesType, IrqInv, TypeOK
<1>7. LevelInv'
  BY <1>1 DEF LevelInv, TypeOK
<1> QED BY <1>3, <1>4, <1>5, <1>6, <1>7

\* What dnv_irq_set_type writes is what EnableMatchesType asks for.
LEMMA ConfiguredPad ==
  ASSUME NEW pad \in Pad, NEW type \in Trigger \union {"NONE"}
  PROVE  /\ Configured(pad, type) \in Pad
         /\ Configured(pad, type).level = pad.level
         /\ Configured(pad, type).sci <=> type # "NONE"
         /\ Configured(pad, type).edge <=> type \in {"RISING", "FALLING", "BOTH"}
         /\ type \in {"FALLING", "LOW"} => Configured(pad, type).inv
         /\ type \in {"RISING", "HIGH"} => ~Configured(pad, type).inv
<1> DEFINE e == type \in {"RISING", "FALLING", "BOTH"}
           v == CASE type \in {"FALLING", "LOW"} -> TRUE
                  [] type \in {"RISING", "HIGH"} -> FALSE
                  [] type = "BOTH" -> ~pad.inv
                  [] OTHER -> pad.inv
<1>1. v = TRUE \/ v = FALSE
  <2>1. pad.inv = TRUE \/ pad.inv = FALSE
    BY DEF Pad
  <2>2. CASE type \in {"BOTH", "NONE"}
    BY <2>1, <2>2
  <2>3. CASE type \in {"RISING", "FALLING", "HIGH", "LOW"}
    BY <2>3
  <2> QED BY <2>2, <2>3 DEF Trigger
<1>2. /\ type \in {"FALLING", "LOW"} => v
      /\ type \in {"RISING", "HIGH"} => ~v
  BY DEF Trigger
<1>3. Configured(pad, type) = [pad EXCEPT !.sci = type # "NONE", !.edge = e, !.inv = v]
  BY DEF Configured
<1> HIDE DEF e, v
<1>4. /\ Configured(pad, type) \in Pad
      /\ Configured(pad, type).level = pad.level
      /\ Configured(pad, type).sci = (type # "NONE")
      /\ Configured(pad, type).edge = e /\ Configured(pad, type).inv = v
  <2>1. v \in BOOLEAN
    BY <1>1, Zenon
  <2>2. e \in BOOLEAN
    BY DEF e
  <2> QED BY <1>3, <2>1, <2>2 DEF Pad
<1> QED BY <1>2, <1>4 DEF e

LEMMA IrqSetTypeStep ==
  ASSUME IInv, NEW g \in Gpio, NEW type \in Type(g), IrqSetType(g, type)
  PROVE  IInv'
<1> USE DEF IInv, IrqSetType, history
<1> foreign' \subseteq foreign /\ hostsw' \subseteq hostsw
        /\ OwnField(g) \notin foreign' /\ g \notin hostsw'
  OBVIOUS
<1>1. CASE Supported(type)
  <2>1. type \in Trigger \union {"NONE"} /\ dw0[g] \in Pad
    BY <1>1 DEF Supported, TypeOK
  <2>2. Configured(dw0[g], type) \in Pad
    BY <2>1, ConfiguredPad
  <2>3. /\ dw0' \in [Gpio -> Pad]
        /\ dw0'[g] = IF g \in Locked THEN dw0[g] ELSE Configured(dw0[g], type)
        /\ \A h \in Gpio \ {g} : dw0'[h] = dw0[h]
    BY <1>1, <2>2, PutPad
  <2>4. /\ irq_type' \in [Gpio -> Trigger \union {"NONE"}] /\ irq_type'[g] = type
        /\ \A h \in Gpio \ {g} : irq_type'[h] = irq_type[h]
        /\ en' = IF type = "NONE" THEN en \ {g} ELSE en \union {g}
    BY <1>1, <2>1 DEF TypeOK
  <2>5. TypeOK'
    BY <2>3, <2>4 DEF TypeOK
  <2>6. SavedInv' /\ IrqInv'
    BY <2>4 DEF SavedInv, IrqInv, Awake
  <2>7. UnusedInv'
    BY <2>3 DEF UnusedInv
  <2>8. EnableMatchesType'
    <3> SUFFICES ASSUME NEW h \in en' \ Locked
                 PROVE  /\ irq_type'[h] # "NONE" /\ dw0'[h].sci
                        /\ dw0'[h].edge <=> irq_type'[h] \in {"RISING", "FALLING", "BOTH"}
                        /\ irq_type'[h] \in {"FALLING", "LOW"} => dw0'[h].inv
                        /\ irq_type'[h] \in {"RISING", "HIGH"} => ~dw0'[h].inv
                        /\ OwnField(h) \notin foreign' /\ h \notin hostsw'
      BY DEF EnableMatchesType
    <3>1. CASE h = g
      BY <2>1, <2>3, <2>4, <3>1, ConfiguredPad
    <3>2. CASE h # g
      <4>1. h \in en /\ h \in Gpio
        BY <2>4, <3>2 DEF TypeOK
      <4> QED BY <2>3, <2>4, <3>2, <4>1 DEF EnableMatchesType
    <3> QED BY <3>1, <3>2
  <2>9. LevelInv'
    BY <2>1, <2>3, ConfiguredPad DEF LevelInv
  <2> QED BY <2>5, <2>6, <2>7, <2>8, <2>9
<1>2. CASE ~Supported(type)
  <2>1. TypeOK'
    BY <1>2 DEF TypeOK
  <2>2. SavedInv' /\ IrqInv' /\ UnusedInv' /\ LevelInv'
    BY <1>2 DEF SavedInv, IrqInv, UnusedInv, LevelInv
  <2>3. EnableMatchesType'
    BY <1>2 DEF EnableMatchesType
  <2> QED BY <2>1, <2>2, <2>3
<1> QED BY <1>1, <1>2

\* An event, and the handler: no pad and no enable is changed.
LEMMA EventStep ==
  ASSUME IInv, UNCHANGED <<dw0, en, foreign, hostsw, irq_type, saved_context, asleep,
                           requested, lastOut, lost>>,
         scan' \in 0..npads, sts' \subseteq Gpio, waiting' \subseteq Gpio,
         \A g \in Gpio : g \in sts' => g \in sts \/ (HasIrq(g) /\ dw0[g].sci)
  PROVE  IInv'
<1> USE DEF IInv
<1>1. TypeOK' /\ SavedInv' /\ IrqInv'
  BY DEF TypeOK, SavedInv, IrqInv
<1>2. UnusedInv'
  BY DEF UnusedInv
<1>3. EnableMatchesType' /\ LevelInv'
  BY DEF EnableMatchesType, LevelInv
<1> QED BY <1>1, <1>2, <1>3

\* A pad that is restored gets what it had when the system was suspended.
LEMMA ResumeStep ==
  ASSUME IInv, Resume
  PROVE  IInv'
<1> PICK skip \in SUBSET Saved, power \in BOOLEAN :
      /\ dw0' = [g \in Gpio |-> IF g \in Saved \ skip THEN Restored(g, power)
                                ELSE Woken(g, power)]
      /\ saved_context' = [g \in Gpio |-> IF g \in Saved THEN PowerOn ELSE saved_context[g]]
      /\ lost' = IF power THEN lost ELSE lost \union (Gpio \ (Saved \ skip))
      /\ IF power
         THEN UNCHANGED <<en, sts, foreign, hostsw, waiting>>
         ELSE /\ en' = {} /\ sts' = {} /\ waiting' = {}
              /\ foreign' = AllFields
              /\ hostsw' = {g \in Gpio : HasIrq(g)}
  BY DEF Resume
<1> USE DEF IInv
<1> asleep /\ asleep' = FALSE /\ UNCHANGED <<irq_type, scan, requested, lastOut>>
  BY DEF Resume
<1>1. \A g \in Gpio : power \/ g \in Saved \ skip => dw0'[g] = dw0[g]
  BY DEF Restored, Woken, SavedInv
<1>2. dw0' \in [Gpio -> Pad]
  <2>1. \A g \in Gpio : Restored(g, power) \in Pad /\ Woken(g, power) \in Pad
    BY PowerOnPad DEF Restored, Woken, TypeOK
  <2> QED BY <2>1
<1>3. power => dw0' = dw0
  BY <1>1, <1>2 DEF TypeOK
<1>4. TypeOK'
  <2>1. saved_context' \in [Gpio -> Pad] /\ lost' \subseteq Gpio
    BY PowerOnPad DEF TypeOK
  <2>2. foreign' \subseteq AllFields /\ hostsw' \subseteq Gpio
    BY DEF TypeOK
  <2>3. en' \subseteq Gpio /\ sts' \subseteq Gpio /\ waiting' \subseteq Gpio
    BY DEF TypeOK
  <2>4. /\ scan' \in 0..npads /\ asleep' \in BOOLEAN /\ requested' \subseteq Gpio
        /\ irq_type' \in [Gpio -> Trigger \union {"NONE"}] /\ lastOut' \in [Gpio -> -1..1]
    BY DEF TypeOK
  <2> QED BY <1>2, <2>1, <2>2, <2>3, <2>4 DEF TypeOK
<1>5. SavedInv' /\ IrqInv'
  BY DEF SavedInv, IrqInv
<1>6. \A g \in Gpio \ lost' : dw0'[g] = dw0[g] /\ g \notin lost
  BY <1>1
<1>7. UnusedInv'
  BY <1>6 DEF UnusedInv
<1>8. LevelInv'
  BY <1>6 DEF LevelInv
<1>9. EnableMatchesType'
  BY <1>3 DEF EnableMatchesType
<1> QED BY <1>4, <1>5, <1>7, <1>8, <1>9

LEMMA Step == IInv /\ [Next]_vars => IInv'
<1> SUFFICES ASSUME IInv, [Next]_vars PROVE IInv'
  OBVIOUS
<1>1. ASSUME NEW g \in Gpio, Request(g)
      PROVE  IInv'
  <2> DEFINE pad == [dw0[g] EXCEPT !.pmode = FALSE]
  <2>1. dw0[g] \in Pad
    BY DEF IInv, TypeOK
  <2>2. /\ pad \in Pad /\ pad.sci = dw0[g].sci /\ pad.edge = dw0[g].edge
        /\ pad.inv = dw0[g].inv /\ pad.level = dw0[g].level
    BY <2>1 DEF Pad
  <2>3. requested' \subseteq Gpio
    BY <1>1 DEF Request, IInv, TypeOK
  <2> HIDE DEF pad
  <2>4. Put(g, pad)
    BY <1>1 DEF Request, pad
  <2> QED BY <1>1, <2>2, <2>3, <2>4, UseStep DEF Request, history
<1>2. ASSUME NEW g \in Gpio, NEW val \in 0..1, Set(g, val) \/ DirectionOutput(g, val)
      PROVE  IInv'
  <2> DEFINE a == [dw0[g] EXCEPT !.level = val]
             b == [dw0[g] EXCEPT !.inputDis = TRUE, !.outputDis = FALSE, !.level = val]
  <2>1. dw0[g] \in Pad
    BY DEF IInv, TypeOK
  <2>2. /\ a \in Pad /\ a.sci = dw0[g].sci /\ a.edge = dw0[g].edge /\ a.inv = dw0[g].inv
        /\ a.level = val
    BY <2>1 DEF Pad
  <2>3. /\ b \in Pad /\ b.sci = dw0[g].sci /\ b.edge = dw0[g].edge /\ b.inv = dw0[g].inv
        /\ b.level = val
    BY <2>1 DEF Pad
  <2>4. PICK pad \in {a, b} : Put(g, pad)
    BY <1>2 DEF Set, DirectionOutput
  <2> HIDE DEF a, b
  <2>5. requested \subseteq Gpio
    BY DEF IInv, TypeOK
  <2> QED BY <1>2, <2>2, <2>3, <2>4, <2>5, UseStep DEF Set, DirectionOutput
<1>3. ASSUME NEW g \in Gpio, DirectionInput(g)
      PROVE  IInv'
  <2> DEFINE pad == [dw0[g] EXCEPT !.inputDis = FALSE, !.outputDis = TRUE]
  <2>1. dw0[g] \in Pad /\ requested \subseteq Gpio
    BY DEF IInv, TypeOK
  <2>2. /\ pad \in Pad /\ pad.sci = dw0[g].sci /\ pad.edge = dw0[g].edge
        /\ pad.inv = dw0[g].inv /\ pad.level = dw0[g].level
    BY <2>1 DEF Pad
  <2> HIDE DEF pad
  <2>3. Put(g, pad)
    BY <1>3 DEF DirectionInput, pad
  <2> QED BY <1>3, <2>1, <2>2, <2>3, UseStep DEF DirectionInput, history
<1>4. ASSUME NEW g \in Gpio, Event(g)
      PROVE  IInv'
  BY <1>4, EventStep DEF Event, IInv, TypeOK
<1>5. CASE Enter
  <2>1. scan' \in 0..npads
    BY <1>5, FromType DEF Enter, npads
  <2> QED BY <1>5, <2>1, EventStep DEF Enter, chip, history, IInv, TypeOK
<1>6. CASE Check
  <2>1. scan + 1 \in 0..npads
    BY <1>6 DEF Check, IInv, TypeOK, npads
  <2>2. scan' \in 0..npads
    BY <1>6, <2>1, FromType DEF Check, NextPin
  <2> QED BY <1>6, <2>2, EventStep DEF Check, chip, IInv, TypeOK
<1>7. CASE Suspend
  <2>1. saved_context' \in [Gpio -> Pad] /\ \A g \in Saved : saved_context'[g] = dw0[g]
    BY <1>7 DEF Suspend, IInv, TypeOK, Saved
  <2>2. TypeOK'
    BY <1>7, <2>1 DEF Suspend, chip, history, IInv, TypeOK
  <2>3. SavedInv' /\ IrqInv'
    BY <1>7, <2>1 DEF Suspend, chip, IInv, SavedInv, IrqInv
  <2>4. UnusedInv' /\ LevelInv'
    BY <1>7 DEF Suspend, chip, history, IInv, UnusedInv, LevelInv
  <2>5. EnableMatchesType'
    BY <1>7 DEF Suspend, chip, IInv, EnableMatchesType
  <2> QED BY <2>2, <2>3, <2>4, <2>5 DEF IInv
<1>8. CASE UNCHANGED vars
  BY <1>8 DEF vars, chip, history, IInv, TypeOK, SavedInv, UnusedInv, IrqInv,
              EnableMatchesType, LevelInv
<1> QED BY <1>1, <1>2, <1>3, <1>4, <1>5, <1>6, <1>7, <1>8,
           FreeStep, IrqSetTypeStep, ResumeStep DEF Next
-----------------------------------------------------------------------------
(* The theorems.                                                           *)

THEOREM Invariant == Spec => []IInv
  BY InitIInv, Step, PTL DEF Spec

\* The variables keep their types, in particular the handler never leaves the range
\* of the pins.
THEOREM TypeCorrect == Spec => []TypeOK
<1>1. IInv => TypeOK
  BY DEF IInv
<1> QED BY <1>1, Invariant, PTL

\* An enabled pin detects what it was last asked for and belongs to the host, through
\* refused types, frees of other pins, and a sleep that lost the registers.
THEOREM EnabledAsAsked == Spec => []EnableMatchesType
<1>1. IInv => EnableMatchesType
  BY DEF IInv
<1> QED BY <1>1, Invariant, PTL

\* A freed GPIO gets no event, whatever type its last consumer left behind: its pad
\* routes none, so no status bit is set again.
THEOREM NothingToFreed == Spec => []DeliversToRequested
<1>1. IInv => DeliversToRequested
  BY DEF IInv, UnusedInv, IrqInv, DeliversToRequested, Due
<1> QED BY <1>1, Invariant, PTL

\* An output keeps its level through whatever is done to other pins, and through a
\* sleep unless its pad was locked or was not restored.
THEOREM OutputsHold == Spec => []LevelHolds
<1>1. IInv => LevelHolds
  BY DEF IInv, LevelInv, LevelHolds
<1> QED BY <1>1, Invariant, PTL
-----------------------------------------------------------------------------
(* The tables.                                                             *)

\* The registers of the pads, from the first on: in each group of successive pads
\* they are 8 apart.
PadOffset(g) ==
  IF g < 14 THEN <<216, 264, 272, 896, 360, 368, 376, 384, 456, 464, 784, 792, 144, 152>>[g + 1]
  ELSE IF g < 41 THEN 8 * g - 112
  ELSE IF g < 46 THEN 8 * g - 104
  ELSE IF g < 47 THEN -1
  ELSE IF g < 53 THEN 8 * g - 96
  ELSE IF g < 64 THEN 8 * g - 424
  ELSE IF g < 72 THEN 8 * g + 208
  ELSE IF g < 79 THEN 8 * g + 80
  ELSE IF g < 90 THEN 8 * g - 64
  ELSE IF g < 98 THEN 8 * g - 328
  ELSE IF g < 123 THEN 8 * g - 624
  ELSE IF g < 134 THEN 8 * g - 176
  ELSE IF g < 141 THEN 8 * g - 984
  ELSE IF g < 146 THEN -1
  ELSE 8 * g - 656

LEMMA PadPieces ==
  /\ \A g \in 14..40 : PadOffset(g) = 8 * g - 112
  /\ \A g \in 41..45 : PadOffset(g) = 8 * g - 104
  /\ \A g \in 46..46 : PadOffset(g) = -1
  /\ \A g \in 47..52 : PadOffset(g) = 8 * g - 96
  /\ \A g \in 53..63 : PadOffset(g) = 8 * g - 424
  /\ \A g \in 64..71 : PadOffset(g) = 8 * g + 208
  /\ \A g \in 72..78 : PadOffset(g) = 8 * g + 80
  /\ \A g \in 79..89 : PadOffset(g) = 8 * g - 64
  /\ \A g \in 90..97 : PadOffset(g) = 8 * g - 328
  /\ \A g \in 98..122 : PadOffset(g) = 8 * g - 624
  /\ \A g \in 123..133 : PadOffset(g) = 8 * g - 176
  /\ \A g \in 134..140 : PadOffset(g) = 8 * g - 984
  /\ \A g \in 141..145 : PadOffset(g) = -1
  /\ \A g \in 146..152 : PadOffset(g) = 8 * g - 656
  BY DEF PadOffset

\* s is the first entries of the map, and l of them.
Maps(s) == s \in Seq(Int) /\ \A g \in 0..Len(s) - 1 : s[g + 1] = PadOffset(g)
Mapped(s, l) == l \in Nat /\ Maps(s) /\ Len(s) = l

\* The n entries from that of l on are a run from first, or no pads.
Follows(l, first, n) ==
  first \in Int /\ n \in Nat /\ \A k \in 0..n - 1 : PadOffset(l + k) = first + 8 * k
Blank(t, n) == t \in Seq({-1}) /\ Len(t) = n
None(l, n) == n \in Nat /\ \A k \in 0..n - 1 : PadOffset(l + k) = -1

LEMMA Appended ==
  ASSUME NEW s \in Seq(Int), NEW t \in Seq(Int)
  PROVE  /\ s \o t \in Seq(Int) /\ Len(s \o t) = Len(s) + Len(t)
         /\ Len(s) \in Nat /\ Len(t) \in Nat
         /\ \A k \in 1..Len(s) : (s \o t)[k] = s[k]
         /\ \A k \in 1..Len(t) : (s \o t)[Len(s) + k] = t[k]
  OBVIOUS

\* And so it is when t, the next ones, are appended.
LEMMA MapsMore ==
  ASSUME NEW s, Maps(s), NEW t \in Seq(Int),
         \A k \in 0..Len(t) - 1 : t[k + 1] = PadOffset(Len(s) + k)
  PROVE  Maps(s \o t) /\ Len(s \o t) = Len(s) + Len(t)
<1> DEFINE l == Len(s)
           n == Len(t)
           u == s \o t
<1>1. s \in Seq(Int) /\ \A g \in 0..l - 1 : s[g + 1] = PadOffset(g)
  BY DEF Maps
<1>2. /\ u \in Seq(Int) /\ Len(u) = l + n /\ l \in Nat /\ n \in Nat
      /\ \A k \in 1..l : u[k] = s[k]
      /\ \A k \in 1..n : u[l + k] = t[k]
  BY <1>1, Appended
<1> HIDE DEF u, l, n
<1>3. ASSUME NEW g \in 0..l + n - 1 PROVE u[g + 1] = PadOffset(g)
  <2>1. CASE g < l
    <3>1. g \in 0..l - 1 /\ g + 1 \in 1..l
      BY <1>2, <2>1
    <3> QED BY <1>1, <1>2, <3>1, Zenon
  <2>2. CASE g >= l
    <3>1. PICK k \in 0..n - 1 : g = l + k
      BY <1>2, <2>2
    <3>2. k + 1 \in 1..n /\ l + (k + 1) = g + 1
      BY <1>2, <3>1
    <3>3. u[l + (k + 1)] = t[k + 1]
      BY <1>2, <3>2, Zenon
    <3>4. t[k + 1] = PadOffset(l + k)
      BY Zenon DEF l, n
    <3> QED BY <3>1, <3>2, <3>3, <3>4, Zenon
  <2> QED BY <1>2, <2>1, <2>2
<1> QED BY <1>2, <1>3 DEF Maps, u, l, n

LEMMA RunType ==
  ASSUME NEW first \in Int, NEW n \in Nat
  PROVE  /\ Run(first, n) \in Seq(Int) /\ Len(Run(first, n)) = n
         /\ \A k \in 0..n - 1 : Run(first, n)[k + 1] = first + 8 * k
<1>1. /\ Run(first, n) \in Seq(Int) /\ Len(Run(first, n)) = n
      /\ \A k \in 1..n : Run(first, n)[k] = first + 8 * (k - 1)
  BY DEF Run
<1>2. \A k \in 0..n - 1 : k + 1 \in 1..n /\ (k + 1) - 1 = k
  OBVIOUS
<1> QED BY <1>1, <1>2, Zenon

\* A run appended where the map goes on with it
LEMMA MapsRun ==
  ASSUME NEW s, NEW l, Mapped(s, l), NEW first, NEW n, Follows(l, first, n)
  PROVE  Mapped(s \o Run(first, n), l + n)
<1> DEFINE t == Run(first, n)
<1>1. /\ l \in Nat /\ Maps(s) /\ Len(s) = l /\ first \in Int /\ n \in Nat
      /\ \A k \in 0..n - 1 : PadOffset(l + k) = first + 8 * k
  BY Zenon DEF Mapped, Follows
<1>2. t \in Seq(Int) /\ Len(t) = n /\ \A k \in 0..n - 1 : t[k + 1] = first + 8 * k
  BY <1>1, RunType, Zenon
<1> HIDE DEF t
<1>3. \A k \in 0..Len(t) - 1 : t[k + 1] = PadOffset(Len(s) + k)
  BY <1>1, <1>2, Zenon
<1>4. Maps(s \o t) /\ Len(s \o t) = Len(s) + Len(t)
  BY <1>1, <1>2, <1>3, MapsMore, Zenon
<1>5. l + n \in Nat
  BY <1>1
<1> QED BY <1>1, <1>2, <1>4, <1>5, Zenon DEF t, Mapped

\* And so with entries that are no pads
LEMMA MapsNone ==
  ASSUME NEW s, NEW l, Mapped(s, l), NEW n, None(l, n), NEW t, Blank(t, n)
  PROVE  Mapped(s \o t, l + n)
<1>1. /\ l \in Nat /\ Maps(s) /\ Len(s) = l /\ n \in Nat
      /\ \A k \in 0..n - 1 : PadOffset(l + k) = -1
  BY Zenon DEF Mapped, None
<1>2. t \in Seq(Int) /\ Len(t) = n /\ \A k \in 0..Len(t) - 1 : t[k + 1] = -1
  BY DEF Blank
<1>3. \A k \in 0..Len(t) - 1 : t[k + 1] = PadOffset(Len(s) + k)
  BY <1>1, <1>2, Zenon
<1>4. Maps(s \o t) /\ Len(s \o t) = Len(s) + Len(t)
  BY <1>1, <1>2, <1>3, MapsMore, Zenon
<1>5. l + n \in Nat
  BY <1>1
<1> QED BY <1>1, <1>2, <1>4, <1>5, Zenon DEF Mapped

\* Where each run of pad_cfg_dw_map_dnv starts
LEMMA RunsFollow ==
  /\ Follows(14, 0, 27)
  /\ Follows(41, 224, 5)
  /\ None(46, 1)
  /\ Follows(47, 280, 6)
  /\ Follows(53, 0, 11)
  /\ Follows(64, 720, 8)
  /\ Follows(72, 656, 7)
  /\ Follows(79, 568, 11)
  /\ Follows(90, 392, 8)
  /\ Follows(98, 160, 25)
  /\ Follows(123, 808, 11)
  /\ Follows(134, 88, 7)
  /\ None(141, 5)
  /\ Follows(146, 512, 7)
  BY SMT DEF Follows, None, PadOffset

\* The map has 153 entries, each that of its pad.
LEMMA PadRegisters == Mapped(pad_cfg_dw_map_dnv, 153)
<1> DEFINE m0 == <<216, 264, 272, 896, 360, 368, 376, 384, 456, 464, 784, 792, 144, 152>>
           m1 == m0 \o Run(0, 27)
           m2 == m1 \o Run(224, 5)
           m3 == m2 \o <<-1>>
           m4 == m3 \o Run(280, 6)
           m5 == m4 \o Run(0, 11)
           m6 == m5 \o Run(720, 8)
           m7 == m6 \o Run(656, 7)
           m8 == m7 \o Run(568, 11)
           m9 == m8 \o Run(392, 8)
           m10 == m9 \o Run(160, 25)
           m11 == m10 \o Run(808, 11)
           m12 == m11 \o Run(88, 7)
           m13 == m12 \o <<-1, -1, -1, -1, -1>>
           m14 == m13 \o Run(512, 7)
<1>0. pad_cfg_dw_map_dnv = m14
  BY Zenon DEF pad_cfg_dw_map_dnv
<1>1. Mapped(m0, 14)
  BY DEF Mapped, Maps, PadOffset
<1> HIDE DEF m0, m1, m2, m3, m4, m5, m6, m7, m8, m9, m10, m11, m12, m13, m14
<1>2. Mapped(m1, 41)
  BY <1>1, RunsFollow, MapsRun, SMT DEF m1
<1>3. Mapped(m2, 46)
  BY <1>2, RunsFollow, MapsRun, SMT DEF m2
<1>4. Mapped(m3, 47)
  <2> DEFINE t == <<-1>>
  <2>1. Blank(t, 1)
    BY DEF Blank
  <2>2. m3 = m2 \o t
    BY Zenon DEF m3
  <2> HIDE DEF t
  <2>3. None(46, 1) /\ Mapped(m2, 46)
    BY <1>3, RunsFollow
  <2>4. Mapped(m2 \o t, 46 + 1)
    BY <2>1, <2>3, MapsNone, SMT
  <2> QED BY <2>2, <2>4, SMT
<1>5. Mapped(m4, 53)
  BY <1>4, RunsFollow, MapsRun, SMT DEF m4
<1>6. Mapped(m5, 64)
  BY <1>5, RunsFollow, MapsRun, SMT DEF m5
<1>7. Mapped(m6, 72)
  BY <1>6, RunsFollow, MapsRun, SMT DEF m6
<1>8. Mapped(m7, 79)
  BY <1>7, RunsFollow, MapsRun, SMT DEF m7
<1>9. Mapped(m8, 90)
  BY <1>8, RunsFollow, MapsRun, SMT DEF m8
<1>10. Mapped(m9, 98)
  BY <1>9, RunsFollow, MapsRun, SMT DEF m9
<1>11. Mapped(m10, 123)
  BY <1>10, RunsFollow, MapsRun, SMT DEF m10
<1>12. Mapped(m11, 134)
  BY <1>11, RunsFollow, MapsRun, SMT DEF m11
<1>13. Mapped(m12, 141)
  BY <1>12, RunsFollow, MapsRun, SMT DEF m12
<1>14. Mapped(m13, 146)
  <2> DEFINE t == <<-1, -1, -1, -1, -1>>
  <2>1. Blank(t, 5)
    BY DEF Blank
  <2>2. m13 = m12 \o t
    BY Zenon DEF m13
  <2> HIDE DEF t
  <2>3. None(141, 5) /\ Mapped(m12, 141)
    BY <1>13, RunsFollow
  <2>4. Mapped(m12 \o t, 141 + 5)
    BY <2>1, <2>3, MapsNone, SMT
  <2> QED BY <2>2, <2>4, SMT
<1>15. Mapped(m14, 153)
  BY <1>14, RunsFollow, MapsRun, SMT DEF m14
<1> QED BY <1>0, <1>15, Zenon

\* The pads of the north and of the south, and their registers
NorthPlace(g, r) ==
  \/ g = 0 /\ r = 216
  \/ g = 1 /\ r = 264
  \/ g = 2 /\ r = 272
  \/ g \in 14..40 /\ r = 8 * g - 112
  \/ g \in 41..45 /\ r = 8 * g - 104
  \/ g \in 47..52 /\ r = 8 * g - 96
SouthPlace(g, r) ==
  \/ g = 3 /\ r = 896
  \/ g \in 4..7 /\ r = 8 * g + 328
  \/ g \in 8..9 /\ r = 8 * g + 392
  \/ g \in 10..11 /\ r = 8 * g + 704
  \/ g \in 12..13 /\ r = 8 * g + 48
  \/ g \in 53..63 /\ r = 8 * g - 424
  \/ g \in 64..71 /\ r = 8 * g + 208
  \/ g \in 72..78 /\ r = 8 * g + 80
  \/ g \in 79..89 /\ r = 8 * g - 64
  \/ g \in 90..97 /\ r = 8 * g - 328
  \/ g \in 98..122 /\ r = 8 * g - 624
  \/ g \in 123..133 /\ r = 8 * g - 176
  \/ g \in 134..140 /\ r = 8 * g - 984
  \/ g \in 146..152 /\ r = 8 * g - 656

\* Register r is that of the pad of g.
PadPlace(g, r) == NorthPlace(g, r) \/ SouthPlace(g, r - C5)

LEMMA C5Fact == C5 \in Nat /\ C5 > 1000
  BY SMT DEF C5

LEMMA PadMap == \A g \in 0..152 : pad_cfg_dw_map_dnv[g + 1] = PadOffset(g)
<1>1. Maps(pad_cfg_dw_map_dnv) /\ Len(pad_cfg_dw_map_dnv) = 153
  BY PadRegisters, Zenon DEF Mapped
<1>2. 0..Len(pad_cfg_dw_map_dnv) - 1 = 0..152
  BY <1>1
<1> QED BY <1>1, <1>2, ZenonT(60) DEF Maps

\* A pad that reg_map_offset_dnv finds is where its group is,
LEMMA PadPlaced ==
  ASSUME NEW g \in 0..152, PadCfg(g) # -1
  PROVE  PadPlace(g, PadCfg(g))
<1>1. pad_cfg_dw_map_dnv[g + 1] = PadOffset(g)
  BY PadMap
<1>2. g \notin {46} \union 141..145 /\ PadCfg(g) = PadOffset(g) + Base(g)
  BY <1>1 DEF PadCfg
<1>3. Base(g) = IF g \in 0..2 \union 14..45 \union 47..52 THEN 0 ELSE C5
  BY DEF Base
<1>4. CASE g \in 0..13
  <2>1. PadOffset(g) =
          <<216, 264, 272, 896, 360, 368, 376, 384, 456, 464, 784, 792, 144, 152>>[g + 1]
    BY <1>4 DEF PadOffset
  <2> QED BY <1>2, <1>3, <1>4, <2>1, C5Fact DEF PadPlace, NorthPlace, SouthPlace
<1>5. CASE g \in 14..52
  BY <1>2, <1>3, <1>5, PadPieces DEF PadPlace, NorthPlace
<1>6. CASE g \in 53..152
  BY <1>2, <1>3, <1>6, PadPieces, C5Fact DEF PadPlace, SouthPlace
<1> QED BY <1>4, <1>5, <1>6

\* and no two are in one place: the south starts above the last of the north.
LEMMA PadsApart ==
  ASSUME NEW g, NEW h, NEW r \in Int, PadPlace(g, r), PadPlace(h, r)
  PROVE  g = h
<1> DEFINE s == r - C5
<1>1. /\ NorthPlace(g, r) => r < 1000
      /\ NorthPlace(h, r) => r < 1000
      /\ SouthPlace(g, s) => s >= 0
      /\ SouthPlace(h, s) => s >= 0
  <2> HIDE DEF s
  <2> QED BY DEF NorthPlace, SouthPlace
<1>2. s \in Int /\ (r < 1000 => s < 0)
  BY C5Fact
<1>3. NorthPlace(g, r) /\ NorthPlace(h, r) => g = h
  BY DEF NorthPlace
<1> HIDE DEF s
<1>4. SouthPlace(g, s) /\ SouthPlace(h, s) => g = h
  BY <1>2 DEF SouthPlace
<1>5. NorthPlace(g, r) \/ SouthPlace(g, s)
  BY SMT DEF PadPlace, s
<1>6. NorthPlace(h, r) \/ SouthPlace(h, s)
  BY SMT DEF PadPlace, s
<1> QED BY <1>1, <1>2, <1>3, <1>4, <1>5, <1>6, SMT

\* What each pin with interrupts has in the tables of interrupts and ownership
Row(g, base, gpe, gbit, own, obit, lock, pad) ==
  /\ gpi_gpe_map_dnv[g + 1] = gpe /\ gpe_bit[g + 1] = gbit
  /\ pad_own_map_dnv[g + 1] = own /\ pad_own_bit[g + 1] = obit
  /\ padcfglock_map_dnv[g + 1] = lock /\ pad_cfg_dw_map_dnv[g + 1] = pad
  /\ Base(g) = base

LEMMA Rows ==
  /\ Row(0, 0, 0, 27, 0, 12, 0, 216)
  /\ Row(1, 0, 4, 1, 4, 4, 8, 264)
  /\ Row(2, 0, 4, 2, 4, 8, 8, 272)
  /\ Row(3, C5, 16, 9, 48, 4, 32, 896)
  /\ Row(4, C5, 4, 27, 12, 12, 8, 360)
  /\ Row(5, C5, 4, 28, 12, 16, 8, 368)
  /\ Row(6, C5, 4, 29, 12, 20, 8, 376)
  /\ Row(7, C5, 4, 30, 12, 24, 8, 384)
  /\ Row(8, C5, 8, 7, 16, 28, 16, 456)
  /\ Row(9, C5, 8, 8, 20, 0, 16, 464)
  /\ Row(10, C5, 12, 27, 28, 12, 24, 784)
  /\ Row(11, C5, 12, 28, 28, 16, 24, 792)
  /\ Row(12, C5, 4, 0, 0, 12, 8, 144)
<1>1. \A g \in 0..12 :
        pad_cfg_dw_map_dnv[g + 1] =
          <<216, 264, 272, 896, 360, 368, 376, 384, 456, 464, 784, 792, 144, 152>>[g + 1]
  BY PadMap DEF PadOffset
<1> QED BY <1>1 DEF Row, gpi_gpe_map_dnv, gpe_bit, pad_own_map_dnv, pad_own_bit,
   padcfglock_map_dnv, Base

\* One value for each, and there are as many.
LEMMA AsMany ==
  ASSUME NEW S, IsFiniteSet(S), NEW f, f \in [S -> {f[g] : g \in S}],
         \A g, h \in S : f[g] = f[h] => g = h
  PROVE  Cardinality({f[g] : g \in S}) = Cardinality(S)
<1> DEFINE T == {f[g] : g \in S}
<1>1. f \in Surjection(S, T)
  BY DEF Surjection
<1>2. f \in Injection(S, T)
  BY DEF Injection, IsInjective
<1>3. IsFiniteSet(T) /\ Cardinality(T) <= Cardinality(S)
  BY <1>1, FS_Surjection, Zenon
<1>4. Cardinality(S) <= Cardinality(T)
  BY <1>2, <1>3, FS_Injection, Zenon
<1>5. Cardinality(S) \in Nat /\ Cardinality(T) \in Nat
  BY <1>3, FS_CardinalityType, Zenon
<1> HIDE DEF T
<1>6. Cardinality(T) = Cardinality(S)
  BY <1>3, <1>4, <1>5
<1> QED BY <1>6 DEF T

LEMMA PinsFinite == IsFiniteSet(Pins) /\ IsFiniteSet(0..ngpios - 1)
<1>1. PICK low, high \in Int : low = 0 /\ high = npads - 1
  BY SMT DEF npads
<1>2. PICK first, last \in Int : first = 0 /\ last = ngpios - 1
  BY SMT DEF ngpios
<1>3. IsFiniteSet(low..high) /\ IsFiniteSet(first..last)
  BY FS_Interval, Zenon
<1> QED BY <1>1, <1>2, <1>3, Zenon DEF Pins

LEMMA PadCfgType == \A g \in 0..152 : PadCfg(g) \in Int
<1>1. \A g \in 0..152 : PadOffset(g) \in Int
  <2>1. \A g \in 0..13 : PadOffset(g) \in Int
    BY DEF PadOffset
  <2>2. \A g \in 14..152 : PadOffset(g) \in Int
    BY DEF PadOffset
  <2> QED BY <2>1, <2>2
<1>2. \A g : Base(g) \in Int
  BY C5Fact, SMT DEF Base
<1> QED BY <1>1, <1>2, PadMap, SMT DEF PadCfg

LEMMA PadsDistinct == Distinct({g \in 0..ngpios - 1 : PadCfg(g) # -1}, PadCfg)
<1> DEFINE S == {g \in 0..ngpios - 1 : PadCfg(g) # -1}
           f == [g \in S |-> PadCfg(g)]
<1>1. IsFiniteSet(S)
  BY PinsFinite, FS_Subset, Zenon
<1>2. ASSUME NEW g \in S, NEW h \in S, PadCfg(g) = PadCfg(h) PROVE g = h
  <2>1. g \in 0..152 /\ h \in 0..152 /\ PadCfg(g) # -1 /\ PadCfg(h) # -1
    BY SMT DEF ngpios
  <2>2. PadPlace(g, PadCfg(g)) /\ PadPlace(h, PadCfg(h))
    BY <2>1, PadPlaced
  <2>3. PadCfg(g) \in Int
    BY <2>1, PadCfgType, Zenon
  <2> QED BY <1>2, <2>2, <2>3, PadsApart, Zenon
<1>3. \A g, h \in S : f[g] = f[h] => g = h
  BY <1>2, Zenon
<1>4. f \in [S -> {f[g] : g \in S}]
  BY Zenon
<1>5. {f[g] : g \in S} = {PadCfg(g) : g \in S}
  BY Zenon
<1> HIDE DEF f, S
<1>6. Cardinality({f[g] : g \in S}) = Cardinality(S)
  BY <1>1, <1>3, <1>4, AsMany, ZenonT(60)
<1> QED BY <1>5, <1>6, Zenon DEF Distinct, S

\* No two pins have the same bit or field.
LEMMA RowsApart == \A g, h \in Pins : (GpeBit(g) = GpeBit(h) \/ OwnField(g) = OwnField(h)) => g = h
<1> SUFFICES ASSUME NEW g \in Pins, NEW h \in Pins,
                    GpeBit(g) = GpeBit(h) \/ OwnField(g) = OwnField(h)
             PROVE  g = h
  OBVIOUS
<1>1. g \in 0..12 /\ h \in 0..12
  BY DEF Pins, npads
<1> QED BY <1>1, C5Fact, Rows DEF GpeBit, GpeWord, OwnField, Row

LEMMA BitsDistinct == Distinct(Pins, GpeBit)
<1> DEFINE f == [g \in Pins |-> GpeBit(g)]
<1>1. \A g, h \in Pins : f[g] = f[h] => g = h
  BY RowsApart, Zenon
<1>2. f \in [Pins -> {f[g] : g \in Pins}]
  BY Zenon
<1>3. {f[g] : g \in Pins} = {GpeBit(g) : g \in Pins}
  BY Zenon
<1>4. IsFiniteSet(Pins)
  BY PinsFinite, Zenon
<1> HIDE DEF f
<1>5. Cardinality({f[g] : g \in Pins}) = Cardinality(Pins)
  BY <1>1, <1>2, <1>4, AsMany, ZenonT(60)
<1> QED BY <1>3, <1>5, Zenon DEF Distinct

LEMMA FieldsDistinct == Distinct(Pins, OwnField)
<1> DEFINE f == [g \in Pins |-> OwnField(g)]
<1>1. \A g, h \in Pins : f[g] = f[h] => g = h
  BY RowsApart, Zenon
<1>2. f \in [Pins -> {f[g] : g \in Pins}]
  BY Zenon
<1>3. {f[g] : g \in Pins} = {OwnField(g) : g \in Pins}
  BY Zenon
<1>4. IsFiniteSet(Pins)
  BY PinsFinite, Zenon
<1> HIDE DEF f
<1>5. Cardinality({f[g] : g \in Pins}) = Cardinality(Pins)
  BY <1>1, <1>2, <1>4, AsMany, ZenonT(60)
<1> QED BY <1>3, <1>5, Zenon DEF Distinct

\* What the tables say of each pin's place in its community
LEMMA RowsAgree ==
  \A g \in Pins :
    /\ LockWord(g) - Base(g) = 2 * (GpeWord(g) - Base(g))
    /\ ByPad(g) = ByGpe(g)
    /\ ByOwn(g) = ByGpe(g) <=> g \notin Misnamed
<1> SUFFICES ASSUME NEW g \in Pins
             PROVE  /\ LockWord(g) - Base(g) = 2 * (GpeWord(g) - Base(g))
                    /\ ByPad(g) = ByGpe(g)
                    /\ ByOwn(g) = ByGpe(g) <=> g \notin Misnamed
  OBVIOUS
<1>1. g \in 0..12
  BY DEF Pins, npads
<1>2. LockWord(g) - Base(g) = 2 * (GpeWord(g) - Base(g))
  BY <1>1, C5Fact, Rows DEF Row, LockWord, GpeWord
<1>3. ByPad(g) = ByGpe(g)
  BY <1>1, Rows DEF Row, ByPad, ByGpe, Group, PadStart
<1>4. ByOwn(g) = ByGpe(g) <=> g \notin Misnamed
  BY <1>1, Rows DEF Row, ByOwn, ByGpe, Group, OwnStart, Misnamed
<1> QED BY <1>2, <1>3, <1>4

LEMMA TablesHold == PadTables
  BY PadsDistinct, BitsDistinct, FieldsDistinct, RowsAgree, Zenon DEF PadTables

\* Nobody takes the pad of a GPIO that has no consumer.
ForeignInv == \A g \in Pins \ Gpio : OwnField(g) \in foreign

\* Only dnv_irq_set_type takes a field, that of its own pin, which is a GPIO
\* considered; no pin outside has the same.
LEMMA ForeignStep == ForeignInv /\ [Next]_vars => ForeignInv'
<1> SUFFICES ASSUME ForeignInv, [Next]_vars PROVE ForeignInv'
  OBVIOUS
<1>1. CASE UNCHANGED vars
  BY <1>1 DEF ForeignInv, vars, chip
<1>2. CASE \E g \in Gpio : \E type \in Type(g) : IrqSetType(g, type)
  <2>1. PICK g \in Gpio : HasIrq(g) /\ foreign' = foreign \ {OwnField(g)}
    BY <1>2, Zenon DEF IrqSetType
  <2>2. g \in Pins
    BY <2>1, GpioFacts DEF HasIrq, Pins, npads
  <2>3. ASSUME NEW h \in Pins \ Gpio PROVE OwnField(h) \in foreign'
    <3>1. OwnField(h) # OwnField(g)
      BY <2>1, <2>2, <2>3, RowsApart, Zenon
    <3> QED BY <2>1, <3>1, Zenon DEF ForeignInv
  <2> QED BY <2>3, Zenon DEF ForeignInv
<1>3. CASE Resume
  <2>1. foreign' = foreign \/ foreign' = AllFields
    BY <1>3, Zenon DEF Resume
  <2> QED BY <2>1, Zenon DEF ForeignInv, AllFields
<1>4. CASE Enter \/ Check \/ Suspend
  BY <1>4, Zenon DEF Enter, Check, Suspend, ForeignInv, chip
<1>5. ASSUME NEW g \in Gpio,
             \/ Request(g) \/ Free(g) \/ DirectionInput(g) \/ Event(g)
             \/ \E val \in 0..1 : Set(g, val) \/ DirectionOutput(g, val)
      PROVE  ForeignInv'
  BY <1>5, Zenon DEF Request, Free, DirectionInput, Event, Set, DirectionOutput, ForeignInv
<1> QED BY <1>1, <1>2, <1>3, <1>4, <1>5, Zenon DEF Next

\* No two GPIOs share a pad, a bit or a field of ownership, the tables agree on
\* where each pin is but for three, and taking a pin takes no other: for any GPIOs,
\* uses and sleeps (reg_map_offset_dnv, reg_bit_shift_dnv, dnv_irq_set_type).
THEOREM TablesFit == Spec => []TablesAgree
<1>1. Init => ForeignInv
  BY Zenon DEF Init, ForeignInv, AllFields
<1>2. ForeignInv => TablesAgree
  BY TablesHold, Zenon DEF ForeignInv, TablesAgree
<1> QED BY <1>1, <1>2, ForeignStep, PTL DEF Spec
=============================================================================
