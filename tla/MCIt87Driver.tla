---------------------------- MODULE MCIt87Driver ----------------------------
(* Instance of It87Sensors for TLC.  Loaded are: each of the 25 types      *)
(* alone, with no pin bit set, with one, with all but one and with all,    *)
(* pairs of chips, and one chip whose user asks for fix_pwm_polarity.      *)
(* Used is one chip of each way to measure fans and to tell of PECI        *)
(* sensors.                                                                *)
EXTENDS It87Sensors, TLC

Pins == {<<"GPIO1", 4>>, <<"GPIO1", 5>>, <<"GPIO1", 6>>, <<"GPIO2", 4>>, <<"GPIO2", 5>>,
         <<"GPIO3", 0>>, <<"GPIO3", 1>>, <<"GPIO3", 2>>, <<"GPIO3", 3>>, <<"GPIO3", 5>>,
         <<"GPIO3", 6>>, <<"GPIO3", 7>>, <<"GPIO4", 2>>, <<"GPIO5", 1>>, <<"GPIO5", 2>>,
         <<"GPIO5", 7>>, <<"GPIO9", 0>>, <<"GPIO9", 1>>, <<"GPIO9", 2>>, <<"GPIO9", 3>>,
         <<"PINX1", 1>>, <<"PINX2", 0>>, <<"PINX2", 1>>, <<"PINX2", 2>>, <<"PINX4", 4>>,
         <<"SPI", 0>>, <<"BEEP", 3>>}

\* What the firmware left: nothing enabled; everything; fans 1 and 3 only.
Bare == [tach |-> {}, fan_16bit |-> {}, div3 |-> FALSE, temp456 |-> [n \in 3..5 |-> 1],
         fan_ctl |-> FALSE, auto |-> FALSE]
Full == [tach |-> 0..2, fan_16bit |-> 0..5, div3 |-> TRUE, temp456 |-> [n \in 3..5 |-> 2],
         fan_ctl |-> TRUE, auto |-> TRUE]
Some == [tach |-> {0, 2}, fan_16bit |-> {2, 4}, div3 |-> TRUE,
         temp456 |-> (3 :> 0 @@ 4 :> 1 @@ 5 :> 3), fan_ctl |-> TRUE, auto |-> FALSE]

\* Revision 8 is the first with 16-bit fans on the IT8712F, 3 on the IT8705F.
Revs(type) == IF type \in OldPwmType THEN {2, 3, 8} ELSE {1}

A(type, rev, pins, e) ==
  [type |-> type, rev |-> rev, active |-> TRUE, alive |-> TRUE, pins |-> pins,
   extra7 |-> FALSE, ec |-> e]

Alone ==
  UNION {{A(t, r, p, e) : r \in Revs(t), p \in {{}, Pins}, e \in {Bare, Full, Some}} : t \in ChipType}
  \union {A(t, 3, p, Some) : t \in ChipType,
                             p \in {{b} : b \in Pins} \union {Pins \ {b} : b \in Pins}}
  \union {[A("it8782", 1, {<<"PINX2", 2>>}, Full) EXCEPT !.extra7 = TRUE],
          [A("it8728", 1, {}, Full) EXCEPT !.alive = FALSE],
          [A("it8728", 1, {}, Full) EXCEPT !.active = FALSE]}

Both == {<<A("it8728", 1, {}, Bare), A("it8613", 1, {<<"BEEP", 3>>}, Some)>>,
         <<A("it8686", 1, Pins, Full), A("it8792", 1, {}, Bare)>>,
         <<A("it8782", 1, Pins, Bare), A("it8720", 1, {}, Full)>>}

MCSystem ==
  {[chips |-> <<c, NoChip>>, fix_pwm_polarity |-> FALSE, dmi_skip_pwm |-> {}] : c \in Alone}
  \union {[chips |-> <<NoChip, A("it8665", 1, {}, e)>>, fix_pwm_polarity |-> TRUE, dmi_skip_pwm |-> {}] :
            e \in {Bare, Full, Some}}
  \union {[chips |-> b, fix_pwm_polarity |-> FALSE, dmi_skip_pwm |-> {1}] : b \in Both}

\* Two fans, each in the fields of FAN_DIV that are encoded in their own way
MCFan == {0, 2}
MCIn == {3}
MCTemp == {0, 1}

Ask(attr, n, vals) == [attr : {attr}, nr : {n}, val : vals]

\* Each setting also beyond what its register can hold
Used ==
  [it87 |-> Ask("show", 0, {0}) \union Ask("fan", 0, {0, 3000}) \union Ask("div", 0, {300})
            \union Ask("show", 2, {0}) \union Ask("div", 2, {8}),
   it8712 |-> Ask("show", 0, {0}) \union Ask("fan", 0, {0, 40, 3100, 1000001})
              \union Ask("div", 0, {2, 8, 128}),
   it8613 |-> Ask("show", 0, {0}) \union Ask("fan", 0, {0, 1000001}) \union Ask("fan", 2, {-2000000, 0, 40}),
   it8720 |-> Ask("show", 0, {0}) \union Ask("freq", 0, {0, 400000})
              \union Ask("freq", 1, {0, 23000, 400000}),
   it8721 |-> Ask("show", 0, {0}) \union Ask("type", 0, {6}) \union Ask("type", 1, {2, 6})
              \union Ask("freq", 1, {23000}),
   it8732 |-> Ask("type", 0, {2, 5, 6}) \union Ask("type", 1, {0, 6}),
   it8728 |-> Ask("in", 3, {0, 1234, 7000})
              \union Ask("temp", 0, {-200000, -1500, -499, 501, 127600})]
MCUse(c) ==
  IF c # NoChip /\ c.type \in DOMAIN Used /\ c.pins = {} /\ c.ec = Full /\ c.rev < 3
  THEN Used[c.type] ELSE {}

\* Those whose handlers have the most states are loaded once.
MCMaxLoads(s) == IF MCUse(s.chips[1]) # {} /\ s.chips[1].type \in {"it8712", "it8721"} THEN 1 ELSE 2

Reg0 == [div |-> (0 :> 2 @@ 1 :> 2 @@ 2 :> 3), low |-> [n \in MCFan |-> 225],
         high |-> [n \in MCFan |-> 1], vin |-> [n \in MCIn |-> 255],
         temp |-> [n \in MCTemp |-> -1], diode |-> {}, thermistor |-> {0, 1}, peci |-> 0,
         oldPeci |-> FALSE, freq2 |-> 5, freq |-> 0]
MCPower(c) ==
  {Reg0} \union
    (IF MCUse(c) = {} THEN {}
     ELSE {[Reg0 EXCEPT !.low = [n \in MCFan |-> 0], !.diode = {1}, !.thermistor = {}, !.peci = 1]})

\* No handler depends on which thread runs it.
MCSymmetry == Permutations(Thread)
=============================================================================
