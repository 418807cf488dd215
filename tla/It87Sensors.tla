----------------------------- MODULE It87Sensors -----------------------------
(***************************************************************************)
(* it87ts in use: the chip It87Load found first, the handlers of its fan,  *)
(* voltage, temperature, temperature-type and PWM-frequency attributes, and *)
(* the cache of its registers in struct it87_data, which every load starts *)
(* empty while the chip keeps its registers.                               *)
(*                                                                         *)
(* Handlers compute under data->update_lock, but the show functions read   *)
(* the cache without it, and set_temp_type reads its registers before it.  *)
(* Of a voltage the lower limit is modelled and of a temperature the upper *)
(* one; the code treats the others the same.  PWM channels are in It87Pwm. *)
(***************************************************************************)
EXTENDS It87Load

CONSTANTS Thread, NoThread, \* user processes inside a handler; nobody
          Use(_),   \* what users write or read on a chip: a set of requests
          Power(_), \* the registers' contents a chip can have at power on
          Fan, In, Temp \* the fans, voltages and temperatures tried

Byte == 0..255         \* u8
SignedByte == -128..127 \* s8

Registers ==
  [div : {d \in [0..2 -> 0..7] : d[2] \in {1, 3}}, \* FAN_DIV, as exponents
   low : [Fan -> Byte], high : [Fan -> Byte],       \* FAN_MIN, FANX_MIN
   vin : [In -> Byte], temp : [Temp -> SignedByte], \* VIN_MIN, TEMP_HIGH
   diode : SUBSET (0..2), thermistor : SUBSET (0..2), peci : 0..3, \* TEMP_ENABLE
   oldPeci : BOOLEAN, freq2 : 0..7, \* TEMP_EXTRA
   freq : 0..7]                     \* FAN_CTL, bits 6-4

\* val is a speed, a divisor, a voltage, a temperature, a frequency or a type.
Request == [attr : {"show", "fan", "div", "in", "temp", "freq", "type"}, nr : 0..7, val : Int]

ASSUME UseAssumption ==
  \A s \in System : \A r \in Use(s.chips[1]) :
    r \in Request /\ r.nr \in (CASE r.attr \in {"show", "fan", "div"} -> Fan [] r.attr = "in" -> In
                                 [] r.attr = "freq" -> 0..1 [] OTHER -> Temp)
ASSUME PowerAssumption ==
  \A s \in System : Power(s.chips[1]) \subseteq Registers
ASSUME NoThreadAssumption == NoThread \notin Thread
ASSUME SensorsAssumption == Fan \subseteq 0..2 /\ In \subseteq 0..7 /\ Temp \subseteq 0..2

VARIABLES
  reg,         \* the chip's registers
  fan, cache,  \* the cache: fan limits, and the other registers
  valid, recent, \* data->valid; fewer than 1.5 s since last_updated
  seen,        \* the cache was filled since the module was loaded
  typed,       \* the temperatures that have a temp*_type attribute
  update_lock,
  th           \* the handler each thread is in

sensors == <<reg, fan, cache, valid, recent, seen, typed, update_lock, th>>
allVars == <<vars, sensors>>

d1 == data[1]
Wide == Is16Bit(d1.type, d1.rev)
Idle == [op |-> "idle"]

\* The attributes are there from the registration of the hwmon device on.
Online == d1 # NoData /\ ~(pc = "hwmon" /\ i = 1)
May(t, r, attr) == Online /\ th[t] = Idle /\ r.attr = attr
Quiet == \A t \in Thread : th[t] = Idle

Clamp(v, lo, hi) == IF v < lo THEN lo ELSE IF v > hi THEN hi ELSE v
Abs(x) == IF x < 0 THEN -x ELSE x
\* C's division, which truncates
Quotient(a, b) ==
  LET q == Abs(a) \div Abs(b) IN IF (a < 0) = (b < 0) THEN q ELSE -q
-----------------------------------------------------------------------------
(* Conversions.                                                            *)

\* Mutant: the speed is not rounded.
FanToRegDown(rpm, div) ==
  IF rpm = 0 THEN 255 ELSE Clamp(1350000 \div (Clamp(rpm, 1, 1000000) * div), 1, 254)

FAN_TO_REG(rpm, div) ==
  IF rpm = 0 THEN 255
  ELSE LET r == Clamp(rpm, 1, 1000000)
       IN Clamp((1350000 + (r * div) \div 2) \div (r * div), 1, 254)

FAN16_TO_REG(rpm) ==
  IF rpm = 0 THEN 65535 ELSE Clamp(Quotient(1350000 + rpm, rpm * 2), 1, 65534)

\* FAN_FROM_REG and FAN16_FROM_REG, where the divisor is 2
FromReg(val, none, div) ==
  IF val = 0 THEN -1 ELSE IF val = none THEN 0 ELSE 1350000 \div (val * div)

Speed(val, exponent) ==
  IF Wide THEN FromReg(val, 65535, 2) ELSE FromReg(val, 255, 2 ^ exponent)

\* Mutant: the loop is not stopped at 7.
DivToRegEndless(val) == CHOOSE e \in 0..15 : 2 ^ e <= val /\ val < 2 ^ (e + 1)

DIV_TO_REG(val) ==
  LET v == Clamp(val, 1, 128) IN CHOOSE e \in 0..7 : 2 ^ e <= v /\ v < 2 ^ (e + 1)

Lsb(n) == AdcLsb(d1.type) * (IF n \in d1.in_scaled THEN 2 ELSE 1)
in_to_reg(n, mv) == Clamp((mv * 10 + Lsb(n) \div 2) \div Lsb(n), 0, 255)

TEMP_TO_REG(val) == Clamp(Quotient(IF val < 0 THEN val - 500 ELSE val + 500, 1000), -128, 127)

pwm_freq == <<48000000, 24000000, 12000000, 8000000, 6000000, 3000000, 1500000, 750000>>
Clock(hz) == Clamp(hz, 0, 1000000) * (IF HasNewerAutoPwm(d1.type) THEN 256 ELSE 128)
FreqIndex(hz) ==
  LET below == {k \in 0..6 : Clock(hz) > (pwm_freq[k + 1] + pwm_freq[k + 2]) \div 2}
  IN IF below = {} THEN 7 ELSE CHOOSE k \in below : \A j \in below : k <= j
-----------------------------------------------------------------------------
(* Loading.                                                                *)

Blank == [div |-> [n \in 0..2 |-> 0], vin |-> [n \in In |-> 0], temp |-> [n \in Temp |-> 0],
          freq2 |-> 0, freq |-> 0]

DriverInit ==
  /\ Init
  /\ reg \in Power(sys.chips[1])
  /\ fan = [n \in Fan |-> 0] /\ cache = Blank
  /\ valid = FALSE /\ recent = FALSE /\ seen = FALSE
  /\ typed = {} /\ update_lock = NoThread
  /\ th = [t \in Thread |-> Idle]

\* get_temp_type, of the chips without banks
get_temp_type(type, r, n) ==
  IF n \in r.diode THEN 3
  ELSE IF n \in r.thermistor THEN 4
  ELSE IF \/ n \in PeciMask(type) /\ r.peci = n + 1
          \/ n \in OldPeciMask(type) /\ r.oldPeci THEN 6
  ELSE 0

\* struct it87_data is new, and it87_init_device replaces limits of 255.
InitDevice ==
  /\ IF i = 1
     THEN /\ reg' = [reg EXCEPT !.vin = [n \in In |-> IF @[n] = 255 THEN 0 ELSE @[n]],
                                !.temp = [n \in Temp |-> IF @[n] = -1 THEN 127 ELSE @[n]]]
          /\ fan' = [n \in Fan |-> 0] /\ cache' = Blank
          /\ valid' = FALSE /\ recent' = FALSE /\ seen' = FALSE /\ typed' = {}
     ELSE UNCHANGED <<reg, fan, cache, valid, recent, seen, typed>>
  /\ UNCHANGED <<update_lock, th>>

\* it87_temp_is_visible: a sensor of type 0 gets no temp*_type attribute, and
\* that of a chip with banks cannot be written.
MakeTypes ==
  /\ typed' = IF i = 1 /\ d1.type \notin BankedType
              THEN {n \in d1.has_temp \intersect Temp : get_temp_type(d1.type, reg, n) # 0}
              ELSE typed
  /\ UNCHANGED <<reg, fan, cache, valid, recent, seen, update_lock, th>>
-----------------------------------------------------------------------------
(* it87_update_device, called by every show function.                      *)

\* Whoever reads the cache or the registers without the lock while another
\* thread works under it is raced.
Racing(t) == [u \in Thread |-> IF u # t /\ th[u].op \in {"show", "convert", "type", "types"}
                               THEN [th[u] EXCEPT !.raced = TRUE] ELSE th[u]]
Goto(t, state) == th' = [Racing(t) EXCEPT ![t] = state]

UpdateFresh(t, r) ==
  /\ May(t, r, "show") /\ update_lock = NoThread
  /\ valid /\ recent
  /\ th' = [th EXCEPT ![t] = [op |-> "show", nr |-> r.nr, raced |-> FALSE]]
  /\ UNCHANGED <<reg, fan, cache, valid, recent, seen, typed, update_lock>>

\* The first half: the low bytes of the fans' limits.  The code goes fan by fan;
\* who reads the cache meanwhile reads one fan's limit, whole, half or not yet read,
\* and nobody writes the registers.
UpdateStale(t, r) ==
  /\ May(t, r, "show") /\ update_lock = NoThread
  /\ ~(valid /\ recent)
  /\ update_lock' = t
  /\ fan' = [f \in Fan |-> IF f \in d1.has_fan THEN reg.low[f] ELSE fan[f]]
  /\ Goto(t, [op |-> "update", nr |-> r.nr])
  /\ UNCHANGED <<reg, cache, valid, recent, seen, typed>>

\* Mutant: the third divisor is decoded as the others.
RefreshedDivThree(old) == [reg.div EXCEPT ![2] = IF @ = 3 THEN 1 ELSE 0]

\* FAN_DIV is read only if the chip has clock dividers.
RefreshedDiv(old) == IF d1.has_fan \intersect (0..2) # {} /\ ~Wide THEN reg.div ELSE old

UpdateEnd(t) ==
  /\ th[t].op = "update"
  /\ fan' = [f \in Fan |-> IF Wide /\ f \in d1.has_fan THEN fan[f] + 256 * reg.high[f] ELSE fan[f]]
  /\ cache' = [div |-> RefreshedDiv(cache.div),
               vin |-> [n \in In |-> IF n \in d1.has_in THEN reg.vin[n] ELSE cache.vin[n]],
               temp |-> [n \in Temp |-> IF n \in d1.has_temp THEN reg.temp[n] ELSE cache.temp[n]],
               freq2 |-> reg.freq2, freq |-> reg.freq]
  /\ valid' = TRUE /\ recent' = TRUE /\ seen' = TRUE
  /\ update_lock' = NoThread
  /\ Goto(t, [op |-> "show", nr |-> th[t].nr, raced |-> FALSE])
  /\ UNCHANGED <<reg, typed>>

Age ==
  /\ recent /\ recent' = FALSE
  /\ UNCHANGED <<reg, fan, cache, valid, seen, typed, update_lock, th>>

\* show_fan reads the limit and then the divisor, neither under the lock.
ReadLimit(t) ==
  /\ th[t].op = "show"
  /\ th' = [th EXCEPT ![t] = [op |-> "convert", nr |-> th[t].nr, raced |-> th[t].raced,
                              limit |-> fan[th[t].nr]]]
  /\ UNCHANGED <<reg, fan, cache, valid, recent, seen, typed, update_lock>>

Shown(t) == Speed(th[t].limit, cache.div[th[t].nr])

ShowReturns(t) ==
  /\ th[t].op = "convert"
  /\ th' = [th EXCEPT ![t] = Idle]
  /\ UNCHANGED <<reg, fan, cache, valid, recent, seen, typed, update_lock>>
-----------------------------------------------------------------------------
(* set_fan and set_fan_div, each up to its first register write and the    *)
(* rest.                                                                   *)

\* The exponent is read from FAN_DIV.
SetFan(t, r) ==
  /\ May(t, r, "fan") /\ r.nr \in d1.has_fan /\ update_lock = NoThread
  /\ update_lock' = t
  /\ LET val == IF Wide THEN FAN16_TO_REG(r.val) ELSE FAN_TO_REG(r.val, 2 ^ reg.div[r.nr])
     IN /\ fan' = [fan EXCEPT ![r.nr] = val]
        /\ reg' = [reg EXCEPT !.low[r.nr] = val % 256]
  /\ cache' = IF Wide THEN cache ELSE [cache EXCEPT !.div[r.nr] = reg.div[r.nr]]
  /\ Goto(t, [op |-> "fan", nr |-> r.nr, rpm |-> r.val])
  /\ UNCHANGED <<valid, recent, seen, typed>>

SetFanEnd(t) ==
  /\ th[t].op = "fan"
  /\ reg' = IF Wide THEN [reg EXCEPT !.high[th[t].nr] = fan[th[t].nr] \div 256] ELSE reg
  /\ update_lock' = NoThread
  /\ Goto(t, Idle)
  /\ UNCHANGED <<fan, cache, valid, recent, seen, typed>>

DivOf(n, val) == IF n = 2 THEN (IF val < 8 THEN 1 ELSE 3) ELSE DIV_TO_REG(val)

\* Mutant: the third fan's bit is not set.
WrittenDivTwo(div) == [div EXCEPT ![2] = 1]

\* FAN_DIV is composed of the exponents of all three fans.
WrittenDiv(div) == [div EXCEPT ![2] = IF @ = 3 THEN 3 ELSE 1]

\* Those of the other two are the cached ones.
SetFanDiv(t, r) ==
  /\ May(t, r, "div") /\ r.nr \in d1.has_fan /\ ~Wide /\ update_lock = NoThread
  /\ update_lock' = t
  /\ cache' = [cache EXCEPT !.div[r.nr] = DivOf(r.nr, r.val)]
  /\ reg' = [reg EXCEPT !.div = WrittenDiv(cache'.div)]
  /\ Goto(t, [op |-> "div", nr |-> r.nr, min |-> Speed(fan[r.nr], cache.div[r.nr]),
              was |-> Speed(reg.low[r.nr], reg.div[r.nr])])
  /\ UNCHANGED <<fan, valid, recent, seen, typed>>

\* Mutant: the limit is restored for the old divisor.
RestoredStale(n, min) == fan[n]

Restored(n, min) == FAN_TO_REG(min, 2 ^ cache.div[n])

SetFanDivEnd(t) ==
  /\ th[t].op = "div"
  /\ LET n == th[t].nr
         val == Restored(n, th[t].min)
     IN fan' = [fan EXCEPT ![n] = val] /\ reg' = [reg EXCEPT !.low[n] = val]
  /\ update_lock' = NoThread
  /\ Goto(t, Idle)
  /\ UNCHANGED <<cache, valid, recent, seen, typed>>
-----------------------------------------------------------------------------
(* The limits of voltages and temperatures, and the PWM frequencies.       *)

SetIn(t, r) ==
  /\ May(t, r, "in") /\ r.nr \in d1.has_in /\ update_lock = NoThread
  /\ reg' = [reg EXCEPT !.vin[r.nr] = in_to_reg(r.nr, r.val)]
  /\ cache' = [cache EXCEPT !.vin[r.nr] = in_to_reg(r.nr, r.val)]
  /\ th' = Racing(t)
  /\ UNCHANGED <<fan, valid, recent, seen, typed, update_lock>>

SetTemp(t, r) ==
  /\ May(t, r, "temp") /\ r.nr \in d1.has_temp /\ update_lock = NoThread
  /\ reg' = [reg EXCEPT !.temp[r.nr] = TEMP_TO_REG(r.val)]
  /\ cache' = [cache EXCEPT !.temp[r.nr] = TEMP_TO_REG(r.val)]
  /\ th' = Racing(t)
  /\ UNCHANGED <<fan, valid, recent, seen, typed, update_lock>>

\* set_pwm_freq of pwm1 and, on chips with a frequency of its own, of pwm2
SetPwmFreq(t, r) ==
  /\ May(t, r, "freq") /\ r.nr \in d1.has_pwm /\ update_lock = NoThread
  /\ IF r.nr = 0
     THEN /\ reg' = [reg EXCEPT !.freq = FreqIndex(r.val)]
          /\ cache' = [cache EXCEPT !.freq = FreqIndex(r.val)]
     ELSE /\ d1.type \in HasPwmFreq2
          /\ reg' = [reg EXCEPT !.freq2 = FreqIndex(r.val)]
          /\ cache' = [cache EXCEPT !.freq2 = FreqIndex(r.val)]
  /\ th' = Racing(t)
  /\ UNCHANGED <<fan, valid, recent, seen, typed, update_lock>>
-----------------------------------------------------------------------------
(* set_temp_type.                                                          *)

Enables(r) == [diode |-> r.diode, thermistor |-> r.thermistor, peci |-> r.peci]

\* TEMP_ENABLE is read, without the lock.
SetTempType(t, r) ==
  /\ May(t, r, "type") /\ r.nr \in typed
  /\ th' = [th EXCEPT ![t] = [op |-> "type", nr |-> r.nr, val |-> r.val, sensor |-> Enables(reg),
                              raced |-> update_lock # NoThread]]
  /\ UNCHANGED <<reg, fan, cache, valid, recent, seen, typed, update_lock>>

\* Mutant: the other kind of sensor stays enabled.
SensorKept(s, n, val) ==
  [diode |-> IF val = 3 THEN s.diode \union {n} ELSE s.diode,
   thermistor |-> IF val = 4 THEN s.thermistor \union {n} ELSE s.thermistor \ {n},
   peci |-> IF n \in PeciMask(d1.type) /\ val = 6 THEN n + 1 ELSE s.peci]

\* What set_temp_type makes of TEMP_ENABLE
Sensor(s, n, val) ==
  [diode |-> IF val = 3 THEN s.diode \union {n} ELSE s.diode \ {n},
   thermistor |-> IF val = 4 THEN s.thermistor \union {n} ELSE s.thermistor \ {n},
   peci |-> IF n \notin PeciMask(d1.type) THEN s.peci
            ELSE IF val = 6 THEN n + 1
            ELSE IF s.peci = n + 1 THEN 0 ELSE s.peci]

\* Bit 7 of TEMP_EXTRA
OldPeci(bit, n, val) ==
  IF n \notin OldPeciMask(d1.type) THEN bit ELSE val = 6 /\ n \notin PeciMask(d1.type)

\* 2 is taken for 4.  6 is refused of a sensor that cannot be a PECI.
Meant(val) == IF val = 2 THEN 4 ELSE val
Accepted(n, val) ==
  val \in {0, 3, 4} \/ (val = 6 /\ n \in PeciMask(d1.type) \union OldPeciMask(d1.type))

\* TEMP_EXTRA is read, still without the lock.
ReadExtra(t) ==
  /\ th[t].op = "type"
  /\ LET n == th[t].nr
         val == Meant(th[t].val)
     IN th' = [th EXCEPT ![t] =
                 IF Accepted(n, val)
                 THEN [op |-> "types", nr |-> n, val |-> val, raced |-> th[t].raced,
                       sensor |-> Sensor(th[t].sensor, n, val),
                       oldPeci |-> OldPeci(reg.oldPeci, n, val), freq2 |-> reg.freq2]
                 ELSE Idle]
  /\ UNCHANGED <<reg, fan, cache, valid, recent, seen, typed, update_lock>>

\* Mutant: the cache stays valid.
ForcedRefreshNot == valid

ForcedRefresh == FALSE

\* Both are written; nobody who reads them without the lock is told.
SetTempTypeEnd(t) ==
  /\ th[t].op = "types" /\ update_lock = NoThread
  /\ LET w == th[t]
         written == [reg EXCEPT !.diode = w.sensor.diode, !.thermistor = w.sensor.thermistor,
                                !.peci = w.sensor.peci]
     IN /\ reg' = IF w.nr \in OldPeciMask(d1.type)
                  THEN [written EXCEPT !.oldPeci = w.oldPeci, !.freq2 = w.freq2]
                  ELSE written
        /\ cache' = [cache EXCEPT !.freq2 = w.freq2]
  /\ valid' = ForcedRefresh
  /\ Goto(t, Idle)
  /\ UNCHANGED <<fan, recent, seen, typed, update_lock>>
-----------------------------------------------------------------------------

Call(t, r) ==
  \/ UpdateFresh(t, r) \/ UpdateStale(t, r)
  \/ SetFan(t, r) \/ SetFanDiv(t, r)
  \/ SetIn(t, r) \/ SetTemp(t, r) \/ SetPwmFreq(t, r)
  \/ SetTempType(t, r)

Handler(t) ==
  \/ \E r \in Use(sys.chips[1]) : Call(t, r)
  \/ UpdateEnd(t) \/ ReadLimit(t) \/ ShowReturns(t)
  \/ SetFanEnd(t) \/ SetFanDivEnd(t)
  \/ ReadExtra(t) \/ SetTempTypeEnd(t)

\* A device is removed only when nobody is in a handler of its attributes.
DriverNext ==
  \/ Register /\ UNCHANGED sensors
  \/ FindNone /\ UNCHANGED sensors
  \/ Find /\ UNCHANGED sensors
  \/ AddFails /\ Quiet /\ UNCHANGED sensors
  \/ Add /\ UNCHANGED sensors
  \/ ProbeFails /\ UNCHANGED sensors
  \/ NullDereference /\ UNCHANGED sensors
  \/ Probe /\ InitDevice
  \/ Offer /\ MakeTypes
  \/ OfferFails /\ UNCHANGED sensors
  \/ Exit /\ Quiet /\ UNCHANGED sensors
  \/ Age /\ UNCHANGED vars
  \/ \E t \in Thread : Handler(t) /\ UNCHANGED vars

DriverSpec == DriverInit /\ [][DriverNext]_allVars
-----------------------------------------------------------------------------

DriverTypeOK ==
  /\ TypeOK
  /\ reg \in Registers
  /\ \A n \in Fan : fan[n] \in Nat /\ fan[n] <= 65535
  /\ cache.div \in [0..2 -> 0..7] /\ {cache.freq, cache.freq2} \subseteq 0..7
  /\ {valid, recent, seen} \subseteq BOOLEAN
  /\ typed \subseteq Temp
  /\ update_lock \in Thread \union {NoThread}
  /\ \A t \in Thread : update_lock = t <=> th[t].op \in {"update", "fan", "div"}

LimitReg(r, n) == IF Wide THEN r.low[n] + 256 * r.high[n] ELSE r.low[n]

(***************************************************************************)
(* While data->valid, and nobody at work under the lock, what the cache    *)
(* has of a sensor the chip has is what the chip's registers have, however *)
(* the setters, some of which started from stale values, interleave.       *)
(***************************************************************************)
CacheCoherent ==
  Online /\ valid /\ update_lock = NoThread =>
    /\ \A n \in Fan \intersect d1.has_fan : fan[n] = LimitReg(reg, n)
    /\ ~Wide /\ d1.has_fan # {} => cache.div = reg.div
    /\ \A n \in In \intersect d1.has_in : cache.vin[n] = reg.vin[n]
    /\ \A n \in Temp \intersect d1.has_temp : cache.temp[n] = reg.temp[n]
    /\ cache.freq = reg.freq /\ cache.freq2 = reg.freq2

Finishes(t, op) == th[t].op = op /\ th'[t] = Idle

(***************************************************************************)
(* A show_fan during which no other thread worked under the lock returns   *)
(* the speed the chip's limit stands for with the chip's divisor, although *)
(* it reads neither of them under the lock nor from the chip.              *)
(***************************************************************************)
ShowsChip ==
  [][\A t \in Thread :
       Finishes(t, "convert") /\ ~th[t].raced /\ th[t].nr \in d1.has_fan =>
         Shown(t) = Speed(LimitReg(reg, th[t].nr), reg.div[th[t].nr])]_allVars

(***************************************************************************)
(* A fan's divisor is changed by its own fan*_div only, although the three *)
(* share FAN_DIV, which is composed from the cache.  Before the cache is   *)
(* filled, after each load, this does not hold: the other fans' divisors   *)
(* become 1 or 2 (it87ts.c:1553).                                          *)
(***************************************************************************)
DivisorsApart ==
  [][\A n \in 0..2 :
       seen /\ reg'.div[n] # reg.div[n] =>
         \E t \in Thread : th[t] = Idle /\ th'[t].op = "div" /\ th'[t].nr = n]_allVars

\* Of the counts from 1 to top, r is nearest to rpm's; top + 1 stands for none.
NearestSpeed(r, rpm, div, top) ==
  LET Error(q) == Abs(1350000 - q * rpm * div)
  IN IF rpm = 0 THEN r = top + 1
     ELSE r \in 1..top /\ \A q \in {r - 1, r + 1} \intersect (1..top) : Error(r) <= Error(q)

(***************************************************************************)
(* set_fan_div keeps the fan's limit, as near as the new divisor can tell  *)
(* it, and keeps a disabled limit disabled and an enabled one enabled.     *)
(* Exempt are a limit of 0, no speed at all, and a cache not yet filled.   *)
(***************************************************************************)
LimitSurvivesDivisor ==
  [][\A t \in Thread :
       Finishes(t, "div") /\ seen /\ th[t].was >= 0 =>
         NearestSpeed(reg'.low[th[t].nr], th[t].was, 2 ^ reg.div[th[t].nr], 254)]_allVars

(***************************************************************************)
(* What a setter leaves in the register is, of all it could hold, nearest  *)
(* to what was asked, over the whole range and beyond its ends: the fan    *)
(* limit with the divisor the chip has, the voltage with the chip's own    *)
(* resolution and scaling, the temperature, and the frequency.  Exempt is  *)
(* a negative speed, which FAN_TO_REG takes for the slowest there is and   *)
(* FAN16_TO_REG for the fastest (it87ts.c:792).                            *)
(***************************************************************************)
NearestSetting ==
  [][\A t \in Thread :
       /\ Finishes(t, "fan") /\ th[t].rpm >= 0 =>
            LET n == th[t].nr
            IN IF Wide THEN NearestSpeed(LimitReg(reg', n), th[t].rpm, 2, 65534)
               ELSE NearestSpeed(reg'.low[n], th[t].rpm, 2 ^ reg.div[n], 254)
       /\ \A r \in Use(sys.chips[1]) :
            /\ SetIn(t, r) =>
                 \A q \in 0..255 :
                   Abs(reg'.vin[r.nr] * Lsb(r.nr) - r.val * 10) <= Abs(q * Lsb(r.nr) - r.val * 10)
            /\ SetTemp(t, r) =>
                 \A q \in -128..127 : Abs(reg'.temp[r.nr] * 1000 - r.val) <= Abs(q * 1000 - r.val)
            /\ SetPwmFreq(t, r) =>
                 LET Error(q) == Abs(pwm_freq[q + 1] - Clock(r.val))
                 IN \A q \in 0..7 : Error(IF r.nr = 0 THEN reg'.freq ELSE reg'.freq2) <= Error(q)
    ]_allVars

(***************************************************************************)
(* A temperature's type is what was last written to it, the other types    *)
(* and pwm2's frequency, in the same registers, are left alone, and a      *)
(* sensor made a PECI at most takes the place of another.  Exempt is a     *)
(* set_temp_type between whose unlocked reads and its writes another       *)
(* thread wrote: that thread's change is lost.                             *)
(***************************************************************************)
TypeSticks ==
  [][\A t \in Thread :
       Finishes(t, "types") /\ ~th[t].raced =>
         LET Type(r, n) == get_temp_type(d1.type, r, n)
         IN /\ Type(reg', th[t].nr) = th[t].val
            /\ \A n \in (0..2) \ {th[t].nr} :
                 Type(reg', n) = Type(reg, n) \/ (th[t].val = 6 /\ Type(reg, n) = 6)
            /\ reg'.freq2 = reg.freq2]_allVars
=============================================================================
