------------------------- MODULE It87SensorsProofs -------------------------
(***************************************************************************)
(* Proofs about It87Sensors, for any systems, registers at power on and    *)
(* requests, and for any number of threads and of loads: what the cache    *)
(* has is what the chip has, a fan shown without a race is the chip's, no  *)
(* fan's divisor is changed but by its own attribute, which keeps its      *)
(* limit, a temperature's type is what was written to it, and a setting is *)
(* the nearest its register can hold.  The invariant says of each thread   *)
(* what the handler it is in still relies on.                              *)
(***************************************************************************)
EXTENDS It87LoadProofs

Enable == [diode : SUBSET (0..2), thermistor : SUBSET (0..2), peci : 0..3]

Word == {v \in Nat : v <= 65535} \* u16

\* The handlers a thread can be in, and what they remember
HandlerState ==
  {Idle}
  \union [op : {"update"}, nr : Fan]
  \union [op : {"show"}, nr : Fan, raced : BOOLEAN]
  \union [op : {"convert"}, nr : Fan, raced : BOOLEAN, limit : Word]
  \union [op : {"fan"}, nr : Fan, rpm : Int]
  \union [op : {"div"}, nr : Fan, min : Int, was : Int]
  \union [op : {"type"}, nr : Temp, val : Int, sensor : Enable, raced : BOOLEAN]
  \union [op : {"types"}, nr : Temp, val : {0, 3, 4, 6}, raced : BOOLEAN, sensor : Enable,
          oldPeci : BOOLEAN, freq2 : 0..7]

Cached == [div : [0..2 -> 0..7], vin : [In -> Byte], temp : [Temp -> SignedByte],
           freq2 : 0..7, freq : 0..7]

SensorTypes ==
  /\ reg \in Registers /\ fan \in [Fan -> Word] /\ cache \in Cached
  /\ valid \in BOOLEAN /\ recent \in BOOLEAN /\ seen \in BOOLEAN
  /\ typed \in SUBSET Temp
  /\ update_lock \in Thread \union {NoThread}
  /\ th \in [Thread -> HandlerState]

Locking == {"update", "fan", "div"}
Racy == {"show", "convert", "type", "types"}

\* Who has the lock; and nobody is in a handler of a device that is not there.
HandlersInv ==
  /\ \A t \in Thread : update_lock = t <=> th[t].op \in Locking
  /\ ~Online => Quiet

\* Where the device stands when its handlers can start
DeviceInv ==
  /\ pc = "probe" => data[i] = NoData
  /\ d1 # NoData /\ ~Wide => d1.has_fan \subseteq 0..2
  /\ pc = "hwmon" /\ i = 1 => ~valid /\ ~seen

\* The fan whose limit is being written, or all of them while they are read
BeingWritten(n) ==
  /\ update_lock # NoThread
  /\ \/ th[update_lock].op = "update"
     \/ th[update_lock].op = "fan" /\ th[update_lock].nr = n

\* What the cache has of the chip.  Once read, all but TEMP_EXTRA stays the chip's
\* even while data->valid is not set.
CacheInv ==
  /\ valid => seen
  /\ seen =>
       /\ ~Wide /\ d1.has_fan # {} => cache.div = reg.div
       /\ \A n \in Fan \intersect d1.has_fan : fan[n] = LimitReg(reg, n) \/ BeingWritten(n)
       /\ \A n \in In \intersect d1.has_in : cache.vin[n] = reg.vin[n]
       /\ \A n \in Temp \intersect d1.has_temp : cache.temp[n] = reg.temp[n]
       /\ cache.freq = reg.freq
  /\ valid => cache.freq2 = reg.freq2

\* What the handler in state s relies on
Relies(s) ==
  /\ s.op = "update" => \A n \in Fan \intersect d1.has_fan : fan[n] = reg.low[n]
  /\ s.op = "fan" =>
       /\ s.nr \in d1.has_fan
       /\ fan[s.nr] = IF Wide THEN FAN16_TO_REG(s.rpm) ELSE FAN_TO_REG(s.rpm, 2 ^ reg.div[s.nr])
       /\ reg.low[s.nr] = IF Wide THEN fan[s.nr] % 256 ELSE fan[s.nr]
  /\ s.op = "div" => s.nr \in d1.has_fan /\ ~Wide /\ (seen => s.min = s.was)
  /\ s.op \in {"show", "convert"} => seen
  /\ s.op = "show" /\ ~s.raced /\ s.nr \in d1.has_fan => fan[s.nr] = LimitReg(reg, s.nr)
  /\ s.op = "convert" /\ ~s.raced /\ s.nr \in d1.has_fan => s.limit = LimitReg(reg, s.nr)
  /\ s.op = "type" /\ ~s.raced => s.sensor = Enables(reg)
  /\ s.op = "types" =>
       /\ Accepted(s.nr, s.val)
       /\ ~s.raced => /\ s.sensor = Sensor(Enables(reg), s.nr, s.val)
                      /\ s.oldPeci = OldPeci(reg.oldPeci, s.nr, s.val)
                      /\ s.freq2 = reg.freq2

DriverInv ==
  /\ IInv /\ SensorTypes /\ HandlersInv /\ DeviceInv
  /\ Online => CacheInv
  /\ \A t \in Thread : Relies(th[t])
-----------------------------------------------------------------------------
(* The conversions return what the registers can hold.                     *)

LEMMA Powers ==
  /\ 2 ^ 0 = 1 /\ 2 ^ 1 = 2 /\ 2 ^ 2 = 4 /\ 2 ^ 3 = 8
  /\ 2 ^ 4 = 16 /\ 2 ^ 5 = 32 /\ 2 ^ 6 = 64 /\ 2 ^ 7 = 128
OBVIOUS

LEMMA PowerType ==
  ASSUME NEW e \in 0..7
  PROVE  2 ^ e \in Nat /\ 2 ^ e > 0
<1>1. e = 0 \/ e = 1 \/ e = 2 \/ e = 3 \/ e = 4 \/ e = 5 \/ e = 6 \/ e = 7
  OBVIOUS
<1>2. CASE e = 0
  BY <1>2, Powers
<1>3. CASE e = 1
  BY <1>3, Powers
<1>4. CASE e = 2
  BY <1>4, Powers
<1>5. CASE e = 3
  BY <1>5, Powers
<1>6. CASE e = 4
  BY <1>6, Powers
<1>7. CASE e = 5
  BY <1>7, Powers
<1>8. CASE e = 6
  BY <1>8, Powers
<1>9. CASE e = 7
  BY <1>9, Powers
<1> QED BY <1>1, <1>2, <1>3, <1>4, <1>5, <1>6, <1>7, <1>8, <1>9

LEMMA ClampType ==
  ASSUME NEW v \in Int, NEW lo \in Int, NEW hi \in Int, lo <= hi
  PROVE  Clamp(v, lo, hi) \in lo..hi
BY DEF Clamp

LEMMA QuotientType ==
  ASSUME NEW a \in Int, NEW b \in Int, b # 0
  PROVE  Quotient(a, b) \in Int
<1>1. Abs(a) \in Nat /\ Abs(b) \in Nat /\ Abs(b) > 0
  BY DEF Abs
<1>2. Abs(a) \div Abs(b) \in Int
  BY <1>1
<1> QED BY <1>2 DEF Quotient

\* Leaves with large numbers are for the SMT solver alone.
LEMMA RoundedQuotient ==
  ASSUME NEW N \in Nat, NEW k \in Nat, k > 0
  PROVE  (N + k \div 2) \div k \in Int /\ N \div k \in Int
<1>1. k \div 2 \in Nat
  BY SMT
<1> QED BY <1>1, SMT

LEMMA LimitType ==
  ASSUME NEW rpm \in Int, NEW div \in Nat, div > 0
  PROVE  FAN_TO_REG(rpm, div) \in Byte
<1>1. \E r \in Nat : /\ r > 0
                     /\ FAN_TO_REG(rpm, div) =
                          IF rpm = 0 THEN 255
                          ELSE Clamp((1350000 + (r * div) \div 2) \div (r * div), 1, 254)
  <2> DEFINE r == Clamp(rpm, 1, 1000000)
  <2>2. r \in Nat /\ r > 0
    BY SMT DEF Clamp
  <2> HIDE DEF r
  <2>3. FAN_TO_REG(rpm, div) =
          IF rpm = 0 THEN 255
          ELSE Clamp((1350000 + (r * div) \div 2) \div (r * div), 1, 254)
    BY SMT DEF FAN_TO_REG, r
  <2> QED BY <2>2, <2>3, SMT
<1>2. PICK r \in Nat : /\ r > 0
                      /\ FAN_TO_REG(rpm, div) =
                           IF rpm = 0 THEN 255
                           ELSE Clamp((1350000 + (r * div) \div 2) \div (r * div), 1, 254)
  BY <1>1, SMT
<1>3. r * div \in Nat /\ r * div > 0
  BY <1>2, SMT
<1>4. \E q \in Int : q = (1350000 + (r * div) \div 2) \div (r * div)
  BY <1>3, RoundedQuotient, SMT
<1>5. \E q \in Int : FAN_TO_REG(rpm, div) = IF rpm = 0 THEN 255 ELSE Clamp(q, 1, 254)
  BY <1>2, <1>4, SMT
<1> QED BY <1>5, SMT DEF Clamp, Byte

LEMMA WideLimitType ==
  ASSUME NEW rpm \in Int
  PROVE  FAN16_TO_REG(rpm) \in Word
<1>1. CASE rpm = 0
  BY <1>1, SMT DEF FAN16_TO_REG, Word
<1>2. CASE rpm # 0
  <2>1. \E q \in Int : q = Quotient(1350000 + rpm, rpm * 2)
    BY <1>2, QuotientType, SMT
  <2>2. \E q \in Int : FAN16_TO_REG(rpm) = Clamp(q, 1, 65534)
    BY <1>2, <2>1, SMT DEF FAN16_TO_REG
  <2> QED BY <2>2, SMT DEF Clamp, Word
<1> QED BY <1>1, <1>2, SMT

LEMMA FromRegType ==
  ASSUME NEW val \in Nat, NEW none \in Nat, NEW div \in Nat, div > 0
  PROVE  FromReg(val, none, div) \in Int
<1>1. CASE val = 0
  BY <1>1, SMT DEF FromReg
<1>2. CASE val # 0
  <2>1. val * div \in Nat /\ val * div > 0
    BY <1>2, SMT
  <2>2. 1350000 \div (val * div) \in Int
    BY <2>1, RoundedQuotient, SMT
  <2> QED BY <1>2, <2>2, SMT DEF FromReg
<1> QED BY <1>1, <1>2

LEMMA SpeedType ==
  ASSUME NEW val \in Nat, NEW e \in 0..7
  PROVE  Speed(val, e) \in Int
<1>1. 2 ^ e \in Nat /\ 2 ^ e > 0
  BY PowerType
<1>2. FromReg(val, 65535, 2) \in Int /\ FromReg(val, 255, 2 ^ e) \in Int
  BY <1>1, FromRegType, SMT
<1> QED BY <1>2, SMT DEF Speed

LEMMA ExponentType ==
  ASSUME NEW n \in 0..2, NEW val \in Int
  PROVE  DivOf(n, val) \in 0..7 /\ (n = 2 => DivOf(n, val) \in {1, 3})
<1> DEFINE v == Clamp(val, 1, 128)
           P(e) == 2 ^ e <= v /\ v < 2 ^ (e + 1)
<1>1. v \in 1..128
  BY SMT DEF Clamp
<1> HIDE DEF v
<1>2. \E e \in 0..7 : P(e)
  <2>1. 2 ^ 8 = 256
    OBVIOUS
  <2>2. CASE v < 2
    <3>1. P(0)
      BY <1>1, <2>2, Powers
    <3> QED BY <3>1
  <2>3. CASE 2 <= v /\ v < 4
    <3>1. P(1)
      BY <1>1, <2>3, Powers
    <3> QED BY <3>1
  <2>4. CASE 4 <= v /\ v < 8
    <3>1. P(2)
      BY <1>1, <2>4, Powers
    <3> QED BY <3>1
  <2>5. CASE 8 <= v /\ v < 16
    <3>1. P(3)
      BY <1>1, <2>5, Powers
    <3> QED BY <3>1
  <2>6. CASE 16 <= v /\ v < 32
    <3>1. P(4)
      BY <1>1, <2>6, Powers
    <3> QED BY <3>1
  <2>7. CASE 32 <= v /\ v < 64
    <3>1. P(5)
      BY <1>1, <2>7, Powers
    <3> QED BY <3>1
  <2>8. CASE 64 <= v /\ v < 128
    <3>1. P(6)
      BY <1>1, <2>8, Powers
    <3> QED BY <3>1
  <2>9. CASE v = 128
    <3>1. P(7)
      BY <1>1, <2>1, <2>9, Powers
    <3> QED BY <3>1
  <2> QED BY <1>1, <2>2, <2>3, <2>4, <2>5, <2>6, <2>7, <2>8, <2>9
<1>3. (CHOOSE e \in 0..7 : P(e)) \in 0..7
  BY <1>2, Zenon
<1>4. DIV_TO_REG(val) \in 0..7
  BY <1>3 DEF DIV_TO_REG, v
<1> QED BY <1>4 DEF DivOf

LEMMA VoltageType ==
  ASSUME NEW n, NEW mv \in Int
  PROVE  in_to_reg(n, mv) \in Byte
<1>1. Lsb(n) \in Nat /\ Lsb(n) > 0
  BY DEF Lsb, AdcLsb
<1>2. (mv * 10 + Lsb(n) \div 2) \div Lsb(n) \in Int
  BY <1>1
<1> QED BY <1>2 DEF in_to_reg, Clamp, Byte

LEMMA TemperatureType ==
  ASSUME NEW val \in Int
  PROVE  TEMP_TO_REG(val) \in SignedByte
<1>1. Quotient(IF val < 0 THEN val - 500 ELSE val + 500, 1000) \in Int
  BY QuotientType
<1> QED BY <1>1 DEF TEMP_TO_REG, Clamp, SignedByte

\* The least of the frequencies that are too low
LEMMA LeastBelow ==
  ASSUME NEW below \in SUBSET (0..6), below # {}
  PROVE  LET m == CHOOSE k \in below : \A j \in below : k <= j
         IN m \in below /\ \A j \in below : m <= j
<1>1. below \subseteq 0..6
  OBVIOUS
<1>2. \E k \in below : \A j \in below : k <= j
  <2>1. CASE 0 \in below
    BY <1>1, <2>1
  <2>2. CASE 0 \notin below /\ 1 \in below
    BY <1>1, <2>2
  <2>3. CASE 0 \notin below /\ 1 \notin below /\ 2 \in below
    BY <1>1, <2>3
  <2>4. CASE (\A k \in below : k > 2) /\ 3 \in below
    BY <1>1, <2>4
  <2>5. CASE (\A k \in below : k > 3) /\ 4 \in below
    BY <1>1, <2>5
  <2>6. CASE (\A k \in below : k > 4) /\ 5 \in below
    BY <1>1, <2>6
  <2>7. CASE \A k \in below : k = 6
    <3>1. PICK k \in below : k = 6
      BY <2>7
    <3> QED BY <2>7, <3>1
  <2>8. \A k : k \in below => k = 0 \/ k = 1 \/ k = 2 \/ k = 3 \/ k = 4 \/ k = 5 \/ k = 6
    BY <1>1
  <2> QED BY <2>1, <2>2, <2>3, <2>4, <2>5, <2>6, <2>7, <2>8
<1> QED BY <1>2, Zenon

LEMMA FrequencyType ==
  ASSUME NEW hz
  PROVE  FreqIndex(hz) \in 0..7
<1> DEFINE below == {k \in 0..6 : Clock(hz) > (pwm_freq[k + 1] + pwm_freq[k + 2]) \div 2}
<1>1. below \subseteq 0..6
  OBVIOUS
<1>2. FreqIndex(hz) = IF below = {} THEN 7 ELSE CHOOSE k \in below : \A j \in below : k <= j
  BY DEF FreqIndex
<1> HIDE DEF below
<1>3. CASE below = {}
  BY <1>2, <1>3
<1>4. CASE below # {}
  <2> DEFINE m == CHOOSE k \in below : \A j \in below : k <= j
  <2>1. m \in below
    BY <1>1, <1>4, LeastBelow
  <2>2. FreqIndex(hz) = m
    BY <1>2, <1>4
  <2> HIDE DEF m
  <2> QED BY <1>1, <2>1, <2>2
<1> QED BY <1>3, <1>4

-----------------------------------------------------------------------------
(* The conversions return the nearest of what the registers can hold.      *)

LEMMA DivisionFacts ==
  ASSUME NEW a \in Int, NEW x \in Nat, x > 0
  PROVE  a \div x \in Int /\ x * (a \div x) <= a /\ a < x * (a \div x) + x
<1>1. a \div x \in Int
  BY SMT
<1>2. a = x * (a \div x) + (a % x) /\ a % x \in Nat /\ a % x < x
  BY SMT
<1> QED BY <1>1, <1>2, SMT

LEMMA HalfFacts ==
  ASSUME NEW x \in Nat
  PROVE  x \div 2 \in Nat /\ 2 * (x \div 2) <= x /\ x <= 2 * (x \div 2) + 1
BY SMT

\* The rounded quotient, or the nearest count there is
LEMMA NearestCount ==
  ASSUME NEW N \in Nat, NEW x \in Nat, x > 0, NEW top \in Nat, top >= 1,
         NEW r \in Int, r = Clamp((N + x \div 2) \div x, 1, top),
         NEW q \in Int, q = r - 1 \/ q = r + 1, 1 <= q, q <= top
  PROVE  Abs(N - r * x) <= Abs(N - q * x)
<1> DEFINE h == x \div 2
           d == (N + h) \div x
<1>1. h \in Nat /\ 2 * h <= x /\ x <= 2 * h + 1
  BY HalfFacts
<1>2. N + h \in Nat
  BY <1>1, SMT
<1>3. d \in Nat /\ x * d <= N + h /\ N + h < x * d + x
  BY <1>2, DivisionFacts
<1> HIDE DEF d, h
<1>4. r = Clamp(d, 1, top)
  BY DEF d, h
<1>5. PICK p \in Int : p = r * x
  BY SMT
<1>6. q * x = p - x \/ q * x = p + x
  <2>1. CASE q = r - 1
    BY <1>5, <2>1, SMT
  <2>2. CASE q = r + 1
    BY <1>5, <2>2, SMT
  <2> QED BY <2>1, <2>2
<1>7. CASE d < 1
  <2>1. r = 1 /\ d = 0
    BY <1>3, <1>4, <1>7, SMT DEF Clamp
  <2>2. q * x = p + x /\ p = x /\ x * d = 0
    BY <1>5, <1>6, <2>1, SMT
  <2> QED BY <1>1, <1>3, <1>5, <2>2, SMT DEF Abs
<1>8. CASE d > top
  <2>1. r = top
    BY <1>3, <1>4, <1>8, SMT DEF Clamp
  <2>2. q = r - 1 /\ q * x = p - x
    BY <1>5, <2>1, SMT
  <2>3. x * d >= p + x
    BY <1>3, <1>5, <1>8, <2>1, SMT
  <2> QED BY <1>1, <1>3, <1>5, <2>2, <2>3, SMT DEF Abs
<1>9. CASE 1 <= d /\ d <= top
  <2>1. r = d
    BY <1>3, <1>4, <1>9, SMT DEF Clamp
  <2>2. p = x * d
    BY <1>5, <2>1, SMT
  <2> QED BY <1>1, <1>3, <1>5, <1>6, <2>2, SMT DEF Abs
<1> QED BY <1>3, <1>7, <1>8, <1>9, SMT

LEMMA NearestFan ==
  ASSUME NEW rpm \in Nat, NEW div \in Nat, div > 0
  PROVE  NearestSpeed(FAN_TO_REG(rpm, div), rpm, div, 254)
<1>1. CASE rpm = 0
  BY <1>1, SMT DEF NearestSpeed, FAN_TO_REG
<1>2. CASE rpm > 0 /\ rpm <= 1000000
  <2>1. PICK x \in Nat : x = rpm * div /\ x > 0
    BY <1>2, SMT
  <2>2. FAN_TO_REG(rpm, div) = Clamp((1350000 + x \div 2) \div x, 1, 254)
    BY <1>2, <2>1, SMT DEF FAN_TO_REG, Clamp
  <2>3. PICK d \in Int : d = (1350000 + x \div 2) \div x
    BY <2>1, SMT
  <2>4. PICK r \in 1..254 : r = Clamp(d, 1, 254)
    BY SMT DEF Clamp
  <2>5. r = FAN_TO_REG(rpm, div)
    BY <2>2, <2>3, <2>4
  <2>6. \A q \in Int : q * rpm * div = q * x
    BY <2>1, SMT
  <2>7. ASSUME NEW q \in {r - 1, r + 1} \intersect (1..254)
        PROVE  Abs(1350000 - r * rpm * div) <= Abs(1350000 - q * rpm * div)
    <3>1. Abs(1350000 - r * x) <= Abs(1350000 - q * x)
      BY <2>1, <2>3, <2>4, NearestCount, SMT
    <3> QED BY <2>6, <3>1, SMT
  <2> QED BY <1>2, <2>4, <2>5, <2>7, SMT DEF NearestSpeed
<1>3. CASE rpm > 1000000
  <2>1. PICK x \in Nat : x = 1000000 * div /\ x >= 1000000
    BY SMT
  <2>2. FAN_TO_REG(rpm, div) = Clamp((1350000 + x \div 2) \div x, 1, 254)
    BY <1>3, <2>1, SMT DEF FAN_TO_REG, Clamp
  <2>3. FAN_TO_REG(rpm, div) = 1
    BY <2>1, <2>2, SMT DEF Clamp
  <2>4. PICK y \in Nat : y = rpm * div /\ y >= 1000000
    BY <1>3, SMT
  <2>5. 1 * rpm * div = y /\ 2 * rpm * div = 2 * y
    BY <2>4, SMT
  <2>6. Abs(1350000 - 1 * rpm * div) <= Abs(1350000 - 2 * rpm * div)
    BY <2>4, <2>5, SMT DEF Abs
  <2> QED BY <1>3, <2>3, <2>6, SMT DEF NearestSpeed
<1> QED BY <1>1, <1>2, <1>3, SMT

LEMMA NearestWideFan ==
  ASSUME NEW rpm \in Nat
  PROVE  NearestSpeed(FAN16_TO_REG(rpm), rpm, 2, 65534)
<1>1. CASE rpm = 0
  BY <1>1, SMT DEF NearestSpeed, FAN16_TO_REG
<1>2. CASE rpm > 0
  <2>1. PICK x \in Nat : x = rpm * 2 /\ x > 0
    BY <1>2, SMT
  <2>2. rpm = x \div 2
    BY <2>1, SMT
  <2>3. PICK d \in Int : d = (1350000 + x \div 2) \div x
    BY <2>1, SMT
  <2>4. Quotient(1350000 + rpm, rpm * 2) = d
    <3>1. Abs(1350000 + rpm) = 1350000 + rpm /\ Abs(rpm * 2) = x
      BY <1>2, <2>1, SMT DEF Abs
    <3>2. ~(1350000 + rpm < 0) /\ ~(rpm * 2 < 0)
      BY <1>2, SMT
    <3> QED BY <2>2, <2>3, <3>1, <3>2, SMT DEF Quotient
  <2>5. PICK top \in Nat : top = 65534
    BY SMT
  <2>6. PICK r \in Int : r = Clamp(d, 1, top) /\ 1 <= r /\ r <= top
    BY <2>5, SMT DEF Clamp
  <2>7. r = FAN16_TO_REG(rpm)
    BY <1>2, <2>4, <2>5, <2>6, SMT DEF FAN16_TO_REG
  <2> DEFINE Error(q) == Abs(1350000 - q * rpm * 2)
  <2>8. ASSUME NEW q \in Int, q = r - 1 \/ q = r + 1, 1 <= q, q <= top
        PROVE  Error(r) <= Error(q)
    <3>1. PICK N \in Nat : N = 1350000
      BY SMT
    <3>2. r = Clamp((N + x \div 2) \div x, 1, top)
      BY <2>3, <2>6, <3>1, SMT
    <3>3. top >= 1
      BY <2>5, SMT
    <3>4. Abs(N - r * x) <= Abs(N - q * x)
      BY <2>1, <2>8, <3>2, <3>3, NearestCount
    <3>5. r * rpm * 2 = r * x /\ q * rpm * 2 = q * x
      BY <2>1, SMT
    <3> QED BY <3>1, <3>4, <3>5, SMT
  <2>9. NearestSpeed(r, rpm, 2, top) <=>
          IF rpm = 0 THEN r = top + 1
          ELSE r \in 1..top /\ \A q \in {r - 1, r + 1} \intersect (1..top) : Error(r) <= Error(q)
    BY SMT DEF NearestSpeed
  <2> HIDE DEF Error
  <2>10. r \in 1..top /\ \A q \in {r - 1, r + 1} \intersect (1..top) : Error(r) <= Error(q)
    BY <2>6, <2>8, SMT
  <2>11. NearestSpeed(r, rpm, 2, top)
    <3>1. rpm # 0
      BY <1>2
    <3> QED BY <2>9, <2>10, <3>1
  <2> QED BY <2>5, <2>7, <2>11
<1> QED BY <1>1, <1>2, SMT

\* Every other multiple of L is at least L further away.
LEMMA NearestMultiple ==
  ASSUME NEW a \in Int, NEW L \in Nat, L > 0, NEW top \in Nat,
         NEW r \in Int, r = Clamp((a + L \div 2) \div L, 0, top),
         NEW q \in Int, 0 <= q, q <= top
  PROVE  Abs(r * L - a) <= Abs(q * L - a)
<1> DEFINE h == L \div 2
           d == (a + h) \div L
<1>1. h \in Nat /\ 2 * h <= L /\ L <= 2 * h + 1
  BY HalfFacts
<1>2. d \in Int /\ L * d <= a + h /\ a + h < L * d + L
  BY <1>1, DivisionFacts, SMT
<1> HIDE DEF d, h
<1>3. r = Clamp(d, 0, top)
  BY DEF d, h
<1>4. PICK p \in Int : p = r * L
  BY SMT
<1>5. PICK o \in Int : o = q * L
  BY SMT
<1>6. q < r => o <= p - L
  BY <1>4, <1>5, SMT
<1>7. q > r => o >= p + L
  BY <1>4, <1>5, SMT
<1>8. q = r => o = p
  BY <1>4, <1>5, SMT
<1>9. CASE d < 0
  <2>1. r = 0 /\ p = 0 /\ q >= r
    BY <1>3, <1>4, <1>9, SMT DEF Clamp
  <2>2. L * d <= -L
    BY <1>2, <1>9, SMT
  <2>3. a < 0 /\ o >= 0
    BY <1>1, <1>2, <1>7, <1>8, <2>1, <2>2, SMT
  <2>4. Abs(p - a) <= Abs(o - a)
    BY <2>1, <2>3, SMT DEF Abs
  <2> QED BY <1>4, <1>5, <2>4
<1>10. CASE d > top
  <2>1. r = top /\ q <= r
    BY <1>2, <1>3, <1>10, SMT DEF Clamp
  <2>2. L * d >= p + L
    BY <1>2, <1>4, <1>10, <2>1, SMT
  <2> QED BY <1>1, <1>2, <1>4, <1>5, <1>6, <1>8, <2>1, <2>2, SMT DEF Abs
<1>11. CASE 0 <= d /\ d <= top
  <2>1. r = d
    BY <1>2, <1>3, <1>11, SMT DEF Clamp
  <2>2. p = L * d
    BY <1>2, <1>4, <2>1, SMT
  <2>3. p - h <= a /\ a < p + L - h
    BY <1>1, <1>2, <2>2, SMT
  <2>4. o <= p - L \/ o = p \/ o >= p + L
    BY <1>6, <1>7, <1>8, SMT
  <2>5. Abs(p - a) <= Abs(o - a)
    BY <1>1, <2>3, <2>4, SMT DEF Abs
  <2> QED BY <1>4, <1>5, <2>5
<1> QED BY <1>2, <1>9, <1>10, <1>11, SMT

LEMMA NearestTemperature ==
  ASSUME NEW val \in Int, NEW q \in Int, -128 <= q, q <= 127
  PROVE  Abs(TEMP_TO_REG(val) * 1000 - val) <= Abs(q * 1000 - val)
<1>1. PICK d \in Int : d = Quotient(IF val < 0 THEN val - 500 ELSE val + 500, 1000)
  <2>1. PICK a \in Int : a = IF val < 0 THEN val - 500 ELSE val + 500
    BY SMT
  <2>2. Quotient(a, 1000) \in Int
    BY QuotientType
  <2> QED BY <2>1, <2>2
<1>2. CASE val < 0
  <2>1. d = -((500 - val) \div 1000)
    BY <1>1, <1>2, SMT DEF Quotient, Abs
  <2>2. -1000 * d <= 500 - val /\ 500 - val < 1000 - 1000 * d
    BY <1>2, <2>1, SMT
  <2> QED BY <1>1, <1>2, <2>2, SMT DEF TEMP_TO_REG, Clamp, Abs
<1>3. CASE val >= 0
  <2>1. d = (val + 500) \div 1000
    BY <1>1, <1>3, SMT DEF Quotient, Abs
  <2>2. 1000 * d <= val + 500 /\ val + 500 < 1000 * d + 1000
    BY <1>3, <2>1, SMT
  <2> QED BY <1>1, <1>3, <2>2, SMT DEF TEMP_TO_REG, Clamp, Abs
<1> QED BY <1>2, <1>3

LEMMA NearestFrequency ==
  ASSUME NEW hz \in Int, NEW q \in 0..7
  PROVE  Abs(pwm_freq[FreqIndex(hz) + 1] - Clock(hz)) <= Abs(pwm_freq[q + 1] - Clock(hz))
<1>1. PICK c \in Int : c = Clock(hz)
  BY SMT DEF Clock, Clamp
<1> DEFINE below == {k \in 0..6 : c > (pwm_freq[k + 1] + pwm_freq[k + 2]) \div 2}
<1>2. /\ 0 \in below <=> c > 36000000
      /\ 1 \in below <=> c > 18000000
      /\ 2 \in below <=> c > 10000000
      /\ 3 \in below <=> c > 7000000
      /\ 4 \in below <=> c > 4500000
      /\ 5 \in below <=> c > 2250000
      /\ 6 \in below <=> c > 1125000
  BY SMT DEF pwm_freq
<1>3. below \subseteq 0..6
  OBVIOUS
<1>4. FreqIndex(hz) = IF below = {} THEN 7 ELSE CHOOSE k \in below : \A j \in below : k <= j
  BY <1>1 DEF FreqIndex
<1> HIDE DEF below
<1>5. FreqIndex(hz) = IF c > 36000000 THEN 0 ELSE IF c > 18000000 THEN 1
                      ELSE IF c > 10000000 THEN 2 ELSE IF c > 7000000 THEN 3
                      ELSE IF c > 4500000 THEN 4 ELSE IF c > 2250000 THEN 5
                      ELSE IF c > 1125000 THEN 6 ELSE 7
  <2>1. CASE below = {}
    BY <1>2, <1>4, <2>1, SMT
  <2>2. CASE below # {}
    <3> DEFINE m == CHOOSE k \in below : \A j \in below : k <= j
    <3>1. m \in below /\ \A j \in below : m <= j
      BY <1>3, <2>2, LeastBelow
    <3>2. FreqIndex(hz) = m
      BY <1>4, <2>2
    <3> HIDE DEF m
    <3>3. m \in 0..6
      BY <1>3, <3>1
    <3> QED BY <1>2, <3>1, <3>2, <3>3, SMT
  <2> QED BY <2>1, <2>2
<1> QED BY <1>1, <1>5, SMT DEF Abs, pwm_freq
-----------------------------------------------------------------------------
(* The threads.                                                            *)

\* What a state has, by the handler it is of
LEMMA StateFacts ==
  ASSUME NEW s \in HandlerState
  PROVE  /\ s.op \in {"idle"} \union Locking \union Racy
         /\ s.op = "idle" <=> s = Idle
         /\ s.op \in Locking \union {"show", "convert"} => s.nr \in Fan
         /\ s.op \in {"type", "types"} => s.nr \in Temp
         /\ s.op = "convert" => s.limit \in Word
         /\ s.op = "fan" => s.rpm \in Int
         /\ s.op = "div" => s.min \in Int
         /\ s.op = "type" => s.val \in Int /\ s.sensor \in Enable
         /\ s.op = "types" => /\ s.val \in {0, 3, 4, 6} /\ s.sensor \in Enable
                              /\ s.oldPeci \in BOOLEAN /\ s.freq2 \in 0..7
         /\ s.op \in Racy => s.raced \in BOOLEAN
BY DEF HandlerState, Idle, Locking, Racy

LEMMA RacedState ==
  ASSUME NEW s \in HandlerState, s.op \in Racy
  PROVE  /\ [s EXCEPT !.raced = TRUE] \in HandlerState
         /\ [s EXCEPT !.raced = TRUE].op = s.op
         /\ [s EXCEPT !.raced = TRUE].nr = s.nr
         /\ [s EXCEPT !.raced = TRUE].raced = TRUE
         /\ s.op = "types" => [s EXCEPT !.raced = TRUE].val = s.val
<1> DEFINE x == [s EXCEPT !.raced = TRUE]
<1>1. CASE s.op = "show"
  <2>1. s \in [op : {"show"}, nr : Fan, raced : BOOLEAN]
    BY <1>1 DEF HandlerState, Idle
  <2>2. x \in [op : {"show"}, nr : Fan, raced : BOOLEAN] /\ x.op = s.op /\ x.nr = s.nr /\ x.raced = TRUE
    BY <2>1
  <2> QED BY <1>1, <2>2 DEF HandlerState
<1>2. CASE s.op = "convert"
  <2>1. s \in [op : {"convert"}, nr : Fan, raced : BOOLEAN, limit : Word]
    BY <1>2 DEF HandlerState, Idle
  <2>2. /\ x \in [op : {"convert"}, nr : Fan, raced : BOOLEAN, limit : Word]
        /\ x.op = s.op /\ x.nr = s.nr /\ x.raced = TRUE
    BY <2>1
  <2> QED BY <1>2, <2>2 DEF HandlerState
<1>3. CASE s.op = "type"
  <2>1. s \in [op : {"type"}, nr : Temp, val : Int, sensor : Enable, raced : BOOLEAN]
    BY <1>3 DEF HandlerState, Idle
  <2>2. /\ x \in [op : {"type"}, nr : Temp, val : Int, sensor : Enable, raced : BOOLEAN]
        /\ x.op = s.op /\ x.nr = s.nr /\ x.raced = TRUE
    BY <2>1
  <2> QED BY <1>3, <2>2 DEF HandlerState
<1>4. CASE s.op = "types"
  <2>1. s \in [op : {"types"}, nr : Temp, val : {0, 3, 4, 6}, raced : BOOLEAN, sensor : Enable,
               oldPeci : BOOLEAN, freq2 : 0..7]
    BY <1>4 DEF HandlerState, Idle
  <2>2. /\ x \in [op : {"types"}, nr : Temp, val : {0, 3, 4, 6}, raced : BOOLEAN, sensor : Enable,
                  oldPeci : BOOLEAN, freq2 : 0..7]
        /\ x.op = s.op /\ x.nr = s.nr /\ x.raced = TRUE /\ x.val = s.val
    BY <2>1
  <2> QED BY <1>4, <2>2 DEF HandlerState
<1> QED BY <1>1, <1>2, <1>3, <1>4 DEF Racy

\* A thread that works under the lock races those that do without it.
LEMMA GotoOthers ==
  ASSUME th \in [Thread -> HandlerState], NEW t \in Thread, NEW s \in HandlerState,
         Goto(t, s)
  PROVE  /\ th' \in [Thread -> HandlerState] /\ th'[t] = s
         /\ \A u \in Thread \ {t} :
              /\ th'[u].op = th[u].op
              /\ th[u].op \notin Racy => th'[u] = th[u]
              /\ th[u].op \in Racy => /\ th'[u].raced = TRUE /\ th'[u].nr = th[u].nr
                                      /\ th[u].op = "types" => th'[u].val = th[u].val
<1>1. \A u \in Thread \ {t} :
        th'[u] = IF th[u].op \in Racy THEN [th[u] EXCEPT !.raced = TRUE] ELSE th[u]
  BY DEF Goto, Racing, Racy
<1>2. th'[t] = s /\ DOMAIN th' = Thread /\ th' = [u \in Thread |-> th'[u]]
  BY DEF Goto, Racing
<1>3. \A u \in Thread : th[u] \in HandlerState
  OBVIOUS
<1>4. \A u \in Thread \ {t} : th'[u] \in HandlerState
  BY <1>1, <1>3, RacedState
<1>5. th' \in [Thread -> HandlerState]
  BY <1>2, <1>4
<1>6. ASSUME NEW u \in Thread \ {t}
      PROVE  /\ th'[u].op = th[u].op
             /\ th[u].op \notin Racy => th'[u] = th[u]
             /\ th[u].op \in Racy => /\ th'[u].raced = TRUE /\ th'[u].nr = th[u].nr
                                     /\ th[u].op = "types" => th'[u].val = th[u].val
  <2>1. CASE th[u].op \in Racy
    <3>1. th'[u] = [th[u] EXCEPT !.raced = TRUE] /\ th[u] \in HandlerState
      BY <1>1, <1>3, <2>1
    <3> QED BY <2>1, <3>1, RacedState
  <2>2. CASE th[u].op \notin Racy
    BY <1>1, <2>2
  <2> QED BY <2>1, <2>2
<1> QED BY <1>2, <1>5, <1>6

\* A step of thread t, which has the lock or leaves it free, leaves the others what
\* they rely on: those that work without the lock know that they are raced.
LEMMA GotoStep ==
  ASSUME DriverInv, UNCHANGED vars, NEW t \in Thread, NEW s \in HandlerState, Goto(t, s), Online,
         update_lock \in {NoThread, t}, update_lock' \in {NoThread, t},
         update_lock' = t <=> s.op \in Locking, seen => seen'
  PROVE  /\ IInv' /\ HandlersInv' /\ DeviceInv'
         /\ th' \in [Thread -> HandlerState] /\ th'[t] = s
         /\ Online' /\ d1' = d1 /\ (Wide' <=> Wide)
         /\ \A u \in Thread \ {t} : Relies(th[u])'
         /\ \A u \in Thread \ {t} : th[u].op \notin Locking
<1> USE DEF DriverInv
<1>1. /\ th \in [Thread -> HandlerState] /\ th' \in [Thread -> HandlerState] /\ th'[t] = s
      /\ \A u \in Thread \ {t} :
           /\ th'[u].op = th[u].op
           /\ th[u].op \notin Racy => th'[u] = th[u]
           /\ th[u].op \in Racy => /\ th'[u].raced = TRUE /\ th'[u].nr = th[u].nr
                                   /\ th[u].op = "types" => th'[u].val = th[u].val
  BY GotoOthers DEF SensorTypes
<1>2. IInv'
  BY LoadStep
<1>3. data' = data /\ pc' = pc /\ i' = i
  BY DEF vars
<1>4. Online' /\ d1' = d1 /\ (Wide' <=> Wide)
  BY <1>3 DEF Online, d1, Wide
<1>5. \A u \in Thread \ {t} : u # update_lock /\ u # update_lock' /\ th[u].op \notin Locking
  BY NoThreadAssumption DEF HandlersInv
<1>6. HandlersInv'
  BY <1>1, <1>4, <1>5 DEF HandlersInv
<1>7. DeviceInv'
  BY <1>3, <1>4 DEF DeviceInv, Online
<1>8. ASSUME NEW u \in Thread \ {t} PROVE Relies(th[u])'
  <2>1. th[u].op \in {"idle"} \union Racy
    BY <1>1, <1>5, StateFacts
  <2>2. th[u].op \in {"show", "convert"} => seen'
    BY DEF Relies
  <2>3. th[u].op = "types" => Accepted(th[u].nr, th[u].val)
    BY DEF Relies
  <2>4. th[u].op = "types" => Accepted(th[u].nr, th[u].val)'
    BY <1>1, <1>4, <2>3 DEF Accepted, Racy
  <2>5. th'[u].op \in {"idle"} \union Racy /\ (th'[u].op \in Racy => th'[u].raced = TRUE)
    BY <1>1, <2>1
  <2>6. /\ th'[u].op \notin {"update", "fan", "div"}
        /\ th'[u].op \in {"show", "convert", "type", "types"} => th'[u].raced = TRUE
    BY <2>5 DEF Racy
  <2> QED BY <1>1, <2>2, <2>4, <2>6 DEF Relies
<1> QED BY <1>1, <1>2, <1>4, <1>5, <1>6, <1>7, <1>8

\* A step that works without the lock and writes nothing
LEMMA ReadingStep ==
  ASSUME DriverInv, UNCHANGED vars, NEW t \in Thread, NEW s \in HandlerState,
         th' = [th EXCEPT ![t] = s], Online,
         UNCHANGED <<reg, fan, cache, valid, recent, seen, typed, update_lock>>,
         th[t].op \notin Locking, s.op \notin Locking, Relies(s)
  PROVE  DriverInv'
<1> USE DEF DriverInv
<1>1. /\ th' \in [Thread -> HandlerState] /\ th'[t] = s /\ \A u \in Thread \ {t} : th'[u] = th[u]
  BY DEF SensorTypes
<1>2. IInv'
  BY LoadStep
<1>3. data' = data /\ pc' = pc /\ i' = i
  BY DEF vars
<1>4. Online' /\ d1' = d1 /\ (Wide' <=> Wide)
  BY <1>3 DEF Online, d1, Wide
<1>5. HandlersInv'
  BY <1>1, <1>4 DEF HandlersInv
<1>6. DeviceInv'
  BY <1>3, <1>4, SMTT(40) DEF DeviceInv, Online
<1>7. \A u \in Thread : Relies(th[u])'
  <2>1. Relies(th'[t])
    BY <1>1
  <2>2. \A u \in Thread : Relies(th'[u])
    BY <1>1, <2>1
  <2> QED BY <1>4, <2>2, SMTT(30) DEF Relies, LimitReg, Enables, Accepted, Sensor, OldPeci
<1>8. CacheInv'
  <2>1. update_lock # NoThread => update_lock # t /\ th'[update_lock] = th[update_lock]
    BY <1>1 DEF HandlersInv, SensorTypes
  <2>2. \A n : BeingWritten(n)' <=> BeingWritten(n)
    BY <2>1 DEF BeingWritten
  <2> QED BY <1>4, <2>2 DEF CacheInv, LimitReg
<1>9. SensorTypes'
  BY <1>1 DEF SensorTypes
<1> QED BY <1>2, <1>5, <1>6, <1>7, <1>8, <1>9
-----------------------------------------------------------------------------
(* The steps without the lock.                                             *)

LEMMA RequestFacts ==
  ASSUME DriverInv, NEW r \in Use(sys.chips[1])
  PROVE  /\ r.val \in Int
         /\ r.attr \in {"show", "fan", "div"} => r.nr \in Fan
         /\ r.attr = "in" => r.nr \in In
         /\ r.attr = "freq" => r.nr \in 0..1
         /\ r.attr \in {"temp", "type"} => r.nr \in Temp
<1>1. sys \in System
  BY DEF DriverInv, IInv, LoadTypes
<1>2. r \in Request /\ r.nr \in (CASE r.attr \in {"show", "fan", "div"} -> Fan
                                   [] r.attr = "in" -> In
                                   [] r.attr = "freq" -> 0..1 [] OTHER -> Temp)
  BY <1>1, UseAssumption
<1> QED BY <1>2 DEF Request

\* A thread in a handler is in one of a device that is there.
LEMMA Busy ==
  ASSUME DriverInv, NEW t \in Thread, th[t].op \in Locking \union Racy
  PROVE  /\ Online /\ th[t] \in HandlerState
         /\ th[t].op \in Locking <=> update_lock = t
<1>1. th[t] # Idle
  BY DEF Locking, Racy, Idle
<1> QED BY <1>1 DEF DriverInv, HandlersInv, Quiet, SensorTypes

LEMMA IdleState == Idle \in HandlerState /\ Idle.op = "idle" /\ Idle.op \notin Locking /\ Relies(Idle)
BY DEF HandlerState, Idle, Locking, Relies

LEMMA UpdateFreshStep ==
  ASSUME DriverInv, UNCHANGED vars, NEW t \in Thread, NEW r \in Use(sys.chips[1]), UpdateFresh(t, r)
  PROVE  DriverInv'
<1> DEFINE s == [op |-> "show", nr |-> r.nr, raced |-> FALSE]
<1>1. /\ Online /\ th[t] = Idle /\ r.attr = "show" /\ update_lock = NoThread /\ valid
      /\ th' = [th EXCEPT ![t] = s]
      /\ UNCHANGED <<reg, fan, cache, valid, recent, seen, typed, update_lock>>
  BY DEF UpdateFresh, May
<1>2. r.nr \in Fan
  BY <1>1, RequestFacts
<1>3. s \in HandlerState /\ s.op \notin Locking /\ th[t].op \notin Locking
  BY <1>1, <1>2 DEF HandlerState, Locking, Idle
<1>4. CacheInv /\ ~BeingWritten(r.nr)
  BY <1>1 DEF DriverInv, BeingWritten
<1>5. seen /\ (r.nr \in d1.has_fan => fan[r.nr] = LimitReg(reg, r.nr))
  BY <1>1, <1>2, <1>4 DEF CacheInv
<1>6. Relies(s)
  BY <1>5 DEF Relies
<1> QED BY <1>1, <1>3, <1>6, ReadingStep

LEMMA ReadLimitStep ==
  ASSUME DriverInv, UNCHANGED vars, NEW t \in Thread, ReadLimit(t)
  PROVE  DriverInv'
<1> DEFINE s == [op |-> "convert", nr |-> th[t].nr, raced |-> th[t].raced, limit |-> fan[th[t].nr]]
<1>1. /\ th[t].op = "show" /\ th' = [th EXCEPT ![t] = s]
      /\ UNCHANGED <<reg, fan, cache, valid, recent, seen, typed, update_lock>>
  BY DEF ReadLimit
<1>2. Online /\ th[t] \in HandlerState /\ th[t].op \notin Locking
  BY <1>1, Busy DEF Racy, Locking
<1>3. th[t].nr \in Fan /\ th[t].raced \in BOOLEAN
  BY <1>1, <1>2, StateFacts DEF Racy
<1>4. fan[th[t].nr] \in Word
  BY <1>3 DEF DriverInv, SensorTypes
<1>5. s \in HandlerState /\ s.op \notin Locking
  BY <1>3, <1>4 DEF HandlerState, Locking
<1>6. Relies(th[t])
  BY DEF DriverInv
<1>7. Relies(s)
  BY <1>1, <1>6 DEF Relies
<1> QED BY <1>1, <1>2, <1>5, <1>7, ReadingStep

LEMMA ShowReturnsStep ==
  ASSUME DriverInv, UNCHANGED vars, NEW t \in Thread, ShowReturns(t)
  PROVE  DriverInv'
<1>1. /\ th[t].op = "convert" /\ th' = [th EXCEPT ![t] = Idle]
      /\ UNCHANGED <<reg, fan, cache, valid, recent, seen, typed, update_lock>>
  BY DEF ShowReturns
<1>2. Online /\ th[t].op \notin Locking
  BY <1>1, Busy DEF Racy, Locking
<1> QED BY <1>1, <1>2, IdleState, ReadingStep

LEMMA EnablesType ==
  ASSUME DriverInv
  PROVE  Enables(reg) \in Enable
BY DEF DriverInv, SensorTypes, Registers, Enables, Enable

LEMMA SetTempTypeStep ==
  ASSUME DriverInv, UNCHANGED vars, NEW t \in Thread, NEW r \in Use(sys.chips[1]), SetTempType(t, r)
  PROVE  DriverInv'
<1>1. PICK race \in BOOLEAN : race = (update_lock # NoThread)
  OBVIOUS
<1> DEFINE s == [op |-> "type", nr |-> r.nr, val |-> r.val, sensor |-> Enables(reg), raced |-> race]
<1>2. /\ Online /\ th[t] = Idle /\ r.attr = "type" /\ th' = [th EXCEPT ![t] = s]
      /\ UNCHANGED <<reg, fan, cache, valid, recent, seen, typed, update_lock>>
  BY <1>1 DEF SetTempType, May
<1>3. r.nr \in Temp /\ r.val \in Int
  BY <1>2, RequestFacts
<1>4. s \in HandlerState /\ s.op \notin Locking /\ th[t].op \notin Locking
  BY <1>2, <1>3, EnablesType DEF HandlerState, Locking, Idle
<1>5. Relies(s)
  BY DEF Relies
<1> QED BY <1>2, <1>4, <1>5, ReadingStep

LEMMA SensorType ==
  ASSUME NEW s \in Enable, NEW n \in Temp, NEW val \in Int
  PROVE  Sensor(s, n, val) \in Enable
<1>1. n \in 0..2
  BY SensorsAssumption
<1> QED BY <1>1 DEF Sensor, Enable

LEMMA ReadExtraStep ==
  ASSUME DriverInv, UNCHANGED vars, NEW t \in Thread, ReadExtra(t)
  PROVE  DriverInv'
<1> DEFINE n == th[t].nr
           val == Meant(th[t].val)
<1>1. PICK bit \in BOOLEAN : bit = OldPeci(reg.oldPeci, n, val)
  <2>1. reg.oldPeci \in BOOLEAN
    BY DEF DriverInv, SensorTypes, Registers
  <2> QED BY <2>1 DEF OldPeci
<1> DEFINE s == [op |-> "types", nr |-> n, val |-> val, raced |-> th[t].raced,
                 sensor |-> Sensor(th[t].sensor, n, val), oldPeci |-> bit, freq2 |-> reg.freq2]
<1>2. /\ th[t].op = "type"
      /\ th' = [th EXCEPT ![t] = IF Accepted(n, val) THEN s ELSE Idle]
      /\ UNCHANGED <<reg, fan, cache, valid, recent, seen, typed, update_lock>>
  BY <1>1 DEF ReadExtra
<1>3. Online /\ th[t] \in HandlerState /\ th[t].op \notin Locking
  BY <1>2, Busy DEF Racy, Locking
<1>4. /\ n \in Temp /\ th[t].val \in Int /\ th[t].sensor \in Enable /\ th[t].raced \in BOOLEAN
      /\ val \in Int
  BY <1>2, <1>3, StateFacts DEF Racy, Meant
<1>5. CASE ~Accepted(n, val)
  BY <1>2, <1>3, <1>5, IdleState, ReadingStep
<1>6. CASE Accepted(n, val)
  <2>1. val \in {0, 3, 4, 6}
    BY <1>6 DEF Accepted
  <2>2. Sensor(th[t].sensor, n, val) \in Enable /\ reg.freq2 \in 0..7
    BY <1>4, SensorType DEF DriverInv, SensorTypes, Registers
  <2> HIDE DEF n, val
  <2>3. s \in HandlerState /\ s.op \notin Locking
    BY <1>4, <2>1, <2>2 DEF HandlerState, Locking
  <2>4. ~th[t].raced => th[t].sensor = Enables(reg)
    BY <1>2 DEF DriverInv, Relies
  <2>5. Relies(s)
    BY <1>1, <1>6, <2>4 DEF Relies
  <2> QED BY <1>2, <1>3, <1>6, <2>3, <2>5, ReadingStep
<1> QED BY <1>5, <1>6

-----------------------------------------------------------------------------
(* The steps that work under the lock, or take and leave it at once.       *)

\* What each of these steps has to show beside what GotoStep does
LEMMA LockedStep ==
  ASSUME DriverInv, UNCHANGED vars, NEW t \in Thread, NEW s \in HandlerState, Goto(t, s), Online,
         update_lock \in {NoThread, t}, update_lock' \in {NoThread, t},
         update_lock' = t <=> s.op \in Locking, seen => seen',
         reg' \in Registers, fan' \in [Fan -> Word], cache' \in Cached,
         valid' \in BOOLEAN, recent' \in BOOLEAN, seen' \in BOOLEAN, typed' = typed,
         CacheInv', Relies(s)'
  PROVE  DriverInv'
<1>1. /\ IInv' /\ HandlersInv' /\ DeviceInv'
      /\ th' \in [Thread -> HandlerState] /\ th'[t] = s
      /\ \A u \in Thread \ {t} : Relies(th[u])'
  BY GotoStep
<1>2. Relies(th[t])'
  BY <1>1 DEF Relies, LimitReg, Enables, Accepted, Sensor, OldPeci
<1>3. SensorTypes'
  BY <1>1 DEF SensorTypes, DriverInv
<1> QED BY <1>1, <1>2, <1>3 DEF DriverInv

LEMMA RegisterTypes ==
  ASSUME NEW r \in Registers
  PROVE  /\ r.div \in [0..2 -> 0..7] /\ r.div[2] \in {1, 3}
         /\ r.low \in [Fan -> Byte] /\ r.high \in [Fan -> Byte]
         /\ r.vin \in [In -> Byte] /\ r.temp \in [Temp -> SignedByte]
         /\ r.diode \in SUBSET (0..2) /\ r.thermistor \in SUBSET (0..2) /\ r.peci \in 0..3
         /\ r.oldPeci \in BOOLEAN /\ r.freq2 \in 0..7 /\ r.freq \in 0..7
         /\ r = [div |-> r.div, low |-> r.low, high |-> r.high, vin |-> r.vin, temp |-> r.temp,
                 diode |-> r.diode, thermistor |-> r.thermistor, peci |-> r.peci,
                 oldPeci |-> r.oldPeci, freq2 |-> r.freq2, freq |-> r.freq]
BY DEF Registers

LEMMA WritingFan ==
  ASSUME NEW r \in Registers, NEW n \in Fan, NEW v \in Byte
  PROVE  /\ [r EXCEPT !.low[n] = v] \in Registers /\ [r EXCEPT !.high[n] = v] \in Registers
         /\ [r EXCEPT !.low[n] = v] = [r EXCEPT !.low = [r.low EXCEPT ![n] = v]]
         /\ [r EXCEPT !.high[n] = v] = [r EXCEPT !.high = [r.high EXCEPT ![n] = v]]
BY RegisterTypes DEF Registers

LEMMA WritingLimits ==
  ASSUME NEW r \in Registers
  PROVE  /\ \A n \in In, v \in Byte :
              /\ [r EXCEPT !.vin[n] = v] \in Registers
              /\ [r EXCEPT !.vin[n] = v] = [r EXCEPT !.vin = [r.vin EXCEPT ![n] = v]]
         /\ \A n \in Temp, v \in SignedByte :
              /\ [r EXCEPT !.temp[n] = v] \in Registers
              /\ [r EXCEPT !.temp[n] = v] = [r EXCEPT !.temp = [r.temp EXCEPT ![n] = v]]
<1>1. ASSUME NEW n \in In, NEW v \in Byte
      PROVE  /\ [r EXCEPT !.vin[n] = v] \in Registers
             /\ [r EXCEPT !.vin[n] = v] = [r EXCEPT !.vin = [r.vin EXCEPT ![n] = v]]
  BY <1>1, RegisterTypes DEF Registers
<1>2. ASSUME NEW n \in Temp, NEW v \in SignedByte
      PROVE  /\ [r EXCEPT !.temp[n] = v] \in Registers
             /\ [r EXCEPT !.temp[n] = v] = [r EXCEPT !.temp = [r.temp EXCEPT ![n] = v]]
  BY <1>2, RegisterTypes DEF Registers
<1> QED BY <1>1, <1>2

LEMMA WritingFields ==
  ASSUME NEW r \in Registers
  PROVE  /\ \A d \in [0..2 -> 0..7] : d[2] \in {1, 3} => [r EXCEPT !.div = d] \in Registers
         /\ \A v \in 0..7 : [r EXCEPT !.freq = v] \in Registers /\ [r EXCEPT !.freq2 = v] \in Registers
<1>1. ASSUME NEW d \in [0..2 -> 0..7], d[2] \in {1, 3} PROVE [r EXCEPT !.div = d] \in Registers
  BY <1>1, RegisterTypes DEF Registers
<1>2. ASSUME NEW v \in 0..7
      PROVE  [r EXCEPT !.freq = v] \in Registers /\ [r EXCEPT !.freq2 = v] \in Registers
  BY <1>2, RegisterTypes DEF Registers
<1> QED BY <1>1, <1>2

LEMMA Caching ==
  ASSUME NEW c \in Cached
  PROVE  /\ \A n \in 0..2, v \in 0..7 : [c EXCEPT !.div[n] = v] \in Cached
         /\ \A n \in In, v \in Byte : [c EXCEPT !.vin[n] = v] \in Cached
         /\ \A n \in Temp, v \in SignedByte : [c EXCEPT !.temp[n] = v] \in Cached
         /\ \A v \in 0..7 : [c EXCEPT !.freq = v] \in Cached /\ [c EXCEPT !.freq2 = v] \in Cached
<1>1. ASSUME NEW n \in 0..2, NEW v \in 0..7 PROVE [c EXCEPT !.div[n] = v] \in Cached
  BY <1>1 DEF Cached
<1>2. ASSUME NEW n \in In, NEW v \in Byte PROVE [c EXCEPT !.vin[n] = v] \in Cached
  BY <1>2 DEF Cached
<1>3. ASSUME NEW n \in Temp, NEW v \in SignedByte PROVE [c EXCEPT !.temp[n] = v] \in Cached
  BY <1>3 DEF Cached
<1>4. ASSUME NEW v \in 0..7
      PROVE  [c EXCEPT !.freq = v] \in Cached /\ [c EXCEPT !.freq2 = v] \in Cached
  BY <1>4 DEF Cached
<1> QED BY <1>1, <1>2, <1>3, <1>4

\* A limit and its two bytes
LEMMA TwoBytes ==
  /\ \A v \in Word : v % 256 \in Byte /\ v \div 256 \in Byte /\ v = (v % 256) + 256 * (v \div 256)
  /\ \A v \in Byte : v % 256 = v /\ v \in Word
  /\ \A l \in Byte, h \in Byte : l + 256 * h \in Word
BY SMT DEF Word, Byte

\* While nobody has the lock no limit is half written.
LEMMA FreeLock ==
  ASSUME DriverInv, Online, update_lock = NoThread, seen
  PROVE  \A n \in Fan \intersect d1.has_fan : fan[n] = LimitReg(reg, n)
BY DEF DriverInv, CacheInv, BeingWritten

LEMMA TypesNow ==
  ASSUME DriverInv
  PROVE  /\ reg \in Registers /\ fan \in [Fan -> Word] /\ cache \in Cached
         /\ valid \in BOOLEAN /\ recent \in BOOLEAN /\ seen \in BOOLEAN
         /\ \A t \in Thread : t # NoThread
BY NoThreadAssumption DEF DriverInv, SensorTypes

LEMMA UpdateStaleStep ==
  ASSUME DriverInv, UNCHANGED vars, NEW t \in Thread, NEW r \in Use(sys.chips[1]), UpdateStale(t, r)
  PROVE  DriverInv'
<1> DEFINE s == [op |-> "update", nr |-> r.nr]
<1>1. /\ Online /\ r.attr = "show" /\ update_lock = NoThread /\ update_lock' = t
      /\ fan' = [f \in Fan |-> IF f \in d1.has_fan THEN reg.low[f] ELSE fan[f]]
      /\ Goto(t, s) /\ UNCHANGED <<reg, cache, valid, recent, seen, typed>>
  BY DEF UpdateStale, May
<1>2. r.nr \in Fan
  BY <1>1, RequestFacts
<1>3. s \in HandlerState /\ s.op \in Locking
  BY <1>2 DEF HandlerState, Locking
<1>4. fan' \in [Fan -> Word]
  <2>1. \A f \in Fan : reg.low[f] \in Word /\ fan[f] \in Word
    BY TypesNow, RegisterTypes, TwoBytes
  <2> QED BY <1>1, <2>1
<1>5. d1' = d1 /\ (Wide' <=> Wide) /\ th'[t] = s
  BY <1>1, <1>3, GotoStep
<1>6. CacheInv'
  <2>1. \A n : BeingWritten(n)'
    BY <1>1, <1>5, TypesNow DEF BeingWritten
  <2>2. CacheInv
    BY <1>1 DEF DriverInv
  <2> QED BY <1>1, <1>5, <2>1, <2>2 DEF CacheInv
<1>7. Relies(s)'
  <2>1. \A n \in Fan \intersect d1.has_fan : fan'[n] = reg'.low[n]
    BY <1>1
  <2> QED BY <1>5, <2>1 DEF Relies
<1> QED BY <1>1, <1>3, <1>4, <1>6, <1>7, TypesNow, LockedStep

LEMMA UpdateEndStep ==
  ASSUME DriverInv, UNCHANGED vars, NEW t \in Thread, UpdateEnd(t)
  PROVE  DriverInv'
<1>1. Online /\ th[t] \in HandlerState /\ update_lock = t
  BY Busy DEF UpdateEnd, Locking
<1>2. PICK s \in HandlerState : s = [op |-> "show", nr |-> th[t].nr, raced |-> FALSE]
  BY <1>1, StateFacts DEF UpdateEnd, HandlerState, Locking
<1>3. /\ th[t].op = "update"
      /\ fan' = [f \in Fan |-> IF Wide /\ f \in d1.has_fan THEN fan[f] + 256 * reg.high[f] ELSE fan[f]]
      /\ cache' = [div |-> RefreshedDiv(cache.div),
                   vin |-> [n \in In |-> IF n \in d1.has_in THEN reg.vin[n] ELSE cache.vin[n]],
                   temp |-> [n \in Temp |-> IF n \in d1.has_temp THEN reg.temp[n] ELSE cache.temp[n]],
                   freq2 |-> reg.freq2, freq |-> reg.freq]
      /\ valid' = TRUE /\ recent' = TRUE /\ seen' = TRUE /\ update_lock' = NoThread
      /\ Goto(t, s) /\ UNCHANGED <<reg, typed>>
  BY <1>2 DEF UpdateEnd
<1>4. s.op = "show" /\ s.nr = th[t].nr /\ s.nr \in Fan /\ s.op \notin Locking
  BY <1>1, <1>3, <1>2, StateFacts DEF Locking
<1>5. d1' = d1 /\ (Wide' <=> Wide) /\ th'[t] = s
  BY <1>1, <1>3, <1>4, TypesNow, GotoStep
<1>6. \A n \in Fan \intersect d1.has_fan : fan[n] = reg.low[n]
  BY <1>3 DEF DriverInv, Relies
<1>7. \A n \in Fan \intersect d1.has_fan : fan'[n] = LimitReg(reg, n)'
  BY <1>3, <1>5, <1>6 DEF LimitReg
<1>8. fan' \in [Fan -> Word]
  <2>1. \A f \in Fan : reg.low[f] + 256 * reg.high[f] \in Word /\ fan[f] \in Word
    BY TypesNow, RegisterTypes, TwoBytes
  <2>2. \A f \in Fan : fan'[f] \in Word
    BY <1>3, <1>6, <2>1
  <2> QED BY <1>3, <2>2
<1>9. cache' \in Cached
  BY <1>3, TypesNow, RegisterTypes DEF Cached, RefreshedDiv
<1>10. ~Wide /\ d1.has_fan # {} => cache'.div = reg.div
  BY <1>1, <1>3 DEF DriverInv, DeviceInv, Online, RefreshedDiv
<1>11. CacheInv'
  <2>1. /\ \A n \in In \intersect d1.has_in : cache'.vin[n] = reg'.vin[n]
        /\ \A n \in Temp \intersect d1.has_temp : cache'.temp[n] = reg'.temp[n]
        /\ cache'.freq = reg'.freq /\ cache'.freq2 = reg'.freq2
    BY <1>3
  <2> QED BY <1>3, <1>5, <1>7, <1>10, <2>1 DEF CacheInv
<1>12. Relies(s)'
  BY <1>3, <1>4, <1>5, <1>7 DEF Relies
<1>13. /\ update_lock' = t <=> s.op \in Locking
       /\ valid' \in BOOLEAN /\ recent' \in BOOLEAN /\ seen' \in BOOLEAN /\ seen => seen'
       /\ reg' \in Registers /\ typed' = typed
       /\ update_lock \in {NoThread, t} /\ update_lock' \in {NoThread, t}
  BY <1>1, <1>3, <1>4, TypesNow
<1> QED BY <1>1, <1>3, <1>4, <1>8, <1>9, <1>11, <1>12, <1>13, LockedStep

LEMMA SetFanStep ==
  ASSUME DriverInv, UNCHANGED vars, NEW t \in Thread, NEW r \in Use(sys.chips[1]), SetFan(t, r)
  PROVE  DriverInv'
<1> DEFINE s == [op |-> "fan", nr |-> r.nr, rpm |-> r.val]
           val == IF Wide THEN FAN16_TO_REG(r.val) ELSE FAN_TO_REG(r.val, 2 ^ reg.div[r.nr])
<1>1. /\ Online /\ r.attr = "fan" /\ r.nr \in d1.has_fan /\ update_lock = NoThread /\ update_lock' = t
      /\ fan' = [fan EXCEPT ![r.nr] = val] /\ reg' = [reg EXCEPT !.low[r.nr] = val % 256]
      /\ cache' = IF Wide THEN cache ELSE [cache EXCEPT !.div[r.nr] = reg.div[r.nr]]
      /\ Goto(t, s) /\ UNCHANGED <<valid, recent, seen, typed>>
  BY DEF SetFan, May
<1>2. r.nr \in Fan /\ r.nr \in 0..2 /\ r.val \in Int
  BY <1>1, RequestFacts, SensorsAssumption
<1>3. val \in Word /\ (~Wide => val \in Byte)
  <2>1. reg.div[r.nr] \in 0..7
    BY <1>2, TypesNow, RegisterTypes
  <2>2. FAN_TO_REG(r.val, 2 ^ reg.div[r.nr]) \in Byte
    BY <1>2, <2>1, PowerType, LimitType
  <2>3. FAN16_TO_REG(r.val) \in Word
    BY <1>2, WideLimitType
  <2> QED BY <2>2, <2>3, TwoBytes
<1> HIDE DEF val
<1>4. val % 256 \in Byte /\ (~Wide => val % 256 = val)
  BY <1>3, TwoBytes
<1>5. s \in HandlerState /\ s.op \in Locking
  BY <1>2 DEF HandlerState, Locking
<1>6. d1' = d1 /\ (Wide' <=> Wide) /\ th'[t] = s
  BY <1>1, <1>5, GotoStep
<1>7. /\ reg' \in Registers /\ reg'.div = reg.div /\ reg'.low = [reg.low EXCEPT ![r.nr] = val % 256]
      /\ reg'.high = reg.high /\ reg'.vin = reg.vin /\ reg'.temp = reg.temp
      /\ reg'.freq = reg.freq /\ reg'.freq2 = reg.freq2
  <2>1. PICK v \in Byte : v = val % 256
    BY <1>4
  <2>2. reg' = [reg EXCEPT !.low[r.nr] = v]
    BY <1>1, <2>1
  <2>3. reg' \in Registers /\ reg' = [reg EXCEPT !.low = [reg.low EXCEPT ![r.nr] = v]]
    BY <1>2, <2>2, TypesNow, WritingFan
  <2> QED BY <2>1, <2>3, TypesNow, RegisterTypes
<1>8. fan' \in [Fan -> Word]
  BY <1>1, <1>3, TypesNow
<1>9. cache' \in Cached
  <2>1. PICK v \in 0..7 : v = reg.div[r.nr]
    BY <1>2, TypesNow, RegisterTypes
  <2>2. [cache EXCEPT !.div[r.nr] = v] \in Cached
    BY <1>2, TypesNow, Caching
  <2> QED BY <1>1, <2>1, <2>2, TypesNow
<1>10. CacheInv'
  <2>1. CacheInv /\ (seen => \A n \in Fan \intersect d1.has_fan : fan[n] = LimitReg(reg, n))
    BY <1>1, FreeLock DEF DriverInv
  <2>2. seen /\ ~Wide => cache'.div = reg'.div
    <3>1. seen /\ ~Wide => cache.div = reg.div
      BY <1>1, <2>1 DEF CacheInv
    <3> QED BY <1>1, <1>2, <1>7, <3>1, TypesNow, RegisterTypes DEF Cached
  <2>3. /\ cache'.vin = cache.vin /\ cache'.temp = cache.temp
        /\ cache'.freq = cache.freq /\ cache'.freq2 = cache.freq2
    BY <1>1, TypesNow DEF Cached
  <2>4. BeingWritten(r.nr)'
    BY <1>1, <1>6, TypesNow DEF BeingWritten
  <2>5. ASSUME seen, NEW n \in Fan \intersect d1.has_fan, n # r.nr PROVE fan'[n] = LimitReg(reg, n)'
    BY <1>1, <1>2, <1>6, <1>7, <2>1, <2>5, TypesNow, RegisterTypes DEF LimitReg
  <2> QED BY <1>1, <1>6, <1>7, <2>1, <2>2, <2>3, <2>4, <2>5 DEF CacheInv
<1>11. Relies(s)'
  <2>1. fan'[r.nr] = val /\ reg'.low[r.nr] = val % 256
    BY <1>1, <1>2, <1>7, TypesNow, RegisterTypes
  <2>2. val = IF Wide THEN FAN16_TO_REG(r.val) ELSE FAN_TO_REG(r.val, 2 ^ reg'.div[r.nr])
    BY <1>7 DEF val
  <2> QED BY <1>1, <1>4, <1>6, <2>1, <2>2 DEF Relies
<1> QED BY <1>1, <1>5, <1>7, <1>8, <1>9, <1>10, <1>11, TypesNow, LockedStep

LEMMA SetFanEndStep ==
  ASSUME DriverInv, UNCHANGED vars, NEW t \in Thread, SetFanEnd(t)
  PROVE  DriverInv'
<1>1. Online /\ th[t] \in HandlerState /\ update_lock = t
  BY Busy DEF SetFanEnd, Locking
<1>2. PICK n \in Fan : n = th[t].nr
  BY <1>1, StateFacts DEF SetFanEnd, Locking
<1>3. /\ th[t].op = "fan" /\ update_lock' = NoThread /\ Goto(t, Idle)
      /\ reg' = IF Wide THEN [reg EXCEPT !.high[n] = fan[n] \div 256] ELSE reg
      /\ UNCHANGED <<fan, cache, valid, recent, seen, typed>>
  BY <1>2 DEF SetFanEnd
<1>4. fan[n] \in Word /\ fan[n] \div 256 \in Byte /\ fan[n] = (fan[n] % 256) + 256 * (fan[n] \div 256)
  BY TypesNow, TwoBytes
<1>5. d1' = d1 /\ (Wide' <=> Wide)
  BY <1>1, <1>3, TypesNow, IdleState, GotoStep
<1>6. /\ reg' \in Registers /\ reg'.div = reg.div /\ reg'.low = reg.low
      /\ Wide => reg'.high = [reg.high EXCEPT ![n] = fan[n] \div 256]
      /\ reg'.vin = reg.vin /\ reg'.temp = reg.temp
      /\ reg'.freq = reg.freq /\ reg'.freq2 = reg.freq2
  <2>1. PICK v \in Byte : v = fan[n] \div 256
    BY <1>4
  <2>2. Wide => reg' = [reg EXCEPT !.high[n] = v]
    BY <1>3, <2>1
  <2> DEFINE x == [reg EXCEPT !.high[n] = v]
  <2>3. x \in Registers /\ x = [reg EXCEPT !.high = [reg.high EXCEPT ![n] = v]]
    BY TypesNow, WritingFan
  <2> HIDE DEF x
  <2>4. CASE Wide
    <3>1. reg' = x
      BY <2>2, <2>4 DEF x
    <3> QED BY <2>1, <2>3, <3>1, TypesNow, RegisterTypes
  <2>5. CASE ~Wide
    BY <1>3, <2>5, TypesNow
  <2> QED BY <2>4, <2>5
<1>7. n \in d1.has_fan /\ reg.low[n] = IF Wide THEN fan[n] % 256 ELSE fan[n]
  BY <1>2, <1>3 DEF DriverInv, Relies
<1>8. fan[n] = LimitReg(reg, n)'
  <2>1. reg.low \in [Fan -> Byte] /\ reg.high \in [Fan -> Byte]
    BY TypesNow, RegisterTypes
  <2>2. CASE Wide
    <3>1. reg'.high[n] = fan[n] \div 256 /\ reg'.low[n] = fan[n] % 256
      BY <1>6, <1>7, <2>1, <2>2
    <3>2. reg'.low[n] + 256 * reg'.high[n] = fan[n]
      BY <1>4, <3>1
    <3> QED BY <1>5, <2>2, <3>2 DEF LimitReg
  <2>3. CASE ~Wide
    BY <1>5, <1>6, <1>7, <2>3 DEF LimitReg
  <2> QED BY <2>2, <2>3
<1>9. CacheInv'
  <2>1. CacheInv
    BY <1>1 DEF DriverInv
  <2>2. ASSUME seen, NEW m \in Fan \intersect d1.has_fan PROVE fan[m] = LimitReg(reg, m)'
    <3>1. CASE m = n
      BY <1>8, <3>1
    <3>2. CASE m # n
      <4>1. ~BeingWritten(m)
        BY <1>1, <1>2, <1>3, <3>2 DEF BeingWritten
      <4>2. fan[m] = LimitReg(reg, m)
        BY <2>1, <2>2, <4>1 DEF CacheInv
      <4>3. reg'.low[m] = reg.low[m] /\ (Wide => reg'.high[m] = reg.high[m])
        BY <1>6, <3>2, TypesNow, RegisterTypes
      <4> QED BY <1>5, <4>2, <4>3 DEF LimitReg
    <3> QED BY <3>1, <3>2
  <2> QED BY <1>3, <1>5, <1>6, <2>1, <2>2 DEF CacheInv
<1>10. Relies(Idle)'
  BY DEF Relies, Idle
<1>11. Idle \in HandlerState /\ ~(update_lock' = t) /\ ~(Idle.op \in Locking)
  BY <1>3, IdleState, TypesNow
<1> QED BY <1>1, <1>3, <1>6, <1>9, <1>10, <1>11, TypesNow, LockedStep

LEMMA SetFanDivStep ==
  ASSUME DriverInv, UNCHANGED vars, NEW t \in Thread, NEW r \in Use(sys.chips[1]), SetFanDiv(t, r)
  PROVE  DriverInv'
<1> DEFINE n == r.nr
<1>1. Online /\ r.attr = "div" /\ n \in d1.has_fan /\ ~Wide /\ update_lock = NoThread
  BY DEF SetFanDiv, May
<1>2. n \in Fan /\ n \in 0..2 /\ r.val \in Int
  BY <1>1, RequestFacts, SensorsAssumption
<1>3. PICK min \in Int : min = Speed(fan[n], cache.div[n])
  <2>1. cache.div[n] \in 0..7 /\ fan[n] \in Nat
    BY <1>2, TypesNow DEF Cached, Word
  <2> QED BY <2>1, SpeedType
<1>4. PICK was \in Int : was = Speed(reg.low[n], reg.div[n])
  <2>1. reg.div[n] \in 0..7 /\ reg.low[n] \in Nat
    <3>1. \A v \in Byte : v \in Nat
      BY DEF Byte
    <3> QED BY <1>2, <3>1, TypesNow, RegisterTypes
  <2> QED BY <2>1, SpeedType
<1>5. PICK v \in 0..7 : v = DivOf(n, r.val) /\ (n = 2 => v \in {1, 3})
  BY <1>2, ExponentType
<1> DEFINE s == [op |-> "div", nr |-> n, min |-> min, was |-> was]
<1>6. /\ update_lock' = t
      /\ cache' = [cache EXCEPT !.div[n] = v]
      /\ reg' = [reg EXCEPT !.div = WrittenDiv(cache'.div)]
      /\ Goto(t, s) /\ UNCHANGED <<fan, valid, recent, seen, typed>>
  BY <1>3, <1>4, <1>5 DEF SetFanDiv
<1>7. s \in HandlerState /\ s.op \in Locking
  BY <1>2 DEF HandlerState, Locking
<1>8. d1' = d1 /\ (Wide' <=> Wide) /\ th'[t] = s
  BY <1>1, <1>6, <1>7, GotoStep, SMTT(40)
<1>9. /\ cache' \in Cached /\ cache'.div = [cache.div EXCEPT ![n] = v]
      /\ cache'.vin = cache.vin /\ cache'.temp = cache.temp
      /\ cache'.freq = cache.freq /\ cache'.freq2 = cache.freq2
  BY <1>2, <1>6, TypesNow, Caching, Zenon DEF Cached
<1>10. WrittenDiv(cache'.div) \in [0..2 -> 0..7] /\ WrittenDiv(cache'.div)[2] \in {1, 3}
  BY <1>9 DEF Cached, WrittenDiv
<1>11. /\ reg' \in Registers /\ reg'.div = WrittenDiv(cache'.div)
       /\ reg'.low = reg.low /\ reg'.high = reg.high /\ reg'.vin = reg.vin /\ reg'.temp = reg.temp
       /\ reg'.freq = reg.freq /\ reg'.freq2 = reg.freq2
  <2>1. PICK d \in [0..2 -> 0..7] : d = WrittenDiv(cache'.div) /\ d[2] \in {1, 3}
    BY <1>10
  <2>2. reg' = [reg EXCEPT !.div = d]
    BY <1>6, <2>1
  <2>3. reg' \in Registers
    BY <2>1, <2>2, TypesNow, WritingFields
  <2> QED BY <2>1, <2>2, <2>3, TypesNow, RegisterTypes
<1>12. CacheInv'
  <2>1. CacheInv /\ (seen => \A m \in Fan \intersect d1.has_fan : fan[m] = LimitReg(reg, m))
    BY <1>1, FreeLock DEF DriverInv
  <2>2. ASSUME seen PROVE cache'.div = reg'.div
    <3>1. cache.div[2] \in {1, 3}
      BY <1>1, <2>1, <2>2, TypesNow, RegisterTypes DEF CacheInv
    <3>2. cache'.div[2] \in {1, 3} /\ cache'.div \in [0..2 -> 0..7]
      BY <1>2, <1>5, <1>9, <3>1, TypesNow DEF Cached
    <3>3. WrittenDiv(cache'.div) = cache'.div
      BY <3>2 DEF WrittenDiv
    <3> QED BY <1>11, <3>3
  <2>3. ASSUME seen, NEW m \in Fan \intersect d1.has_fan PROVE fan'[m] = LimitReg(reg, m)'
    BY <1>6, <1>8, <1>11, <2>1, <2>3 DEF LimitReg
  <2> QED BY <1>6, <1>8, <1>9, <1>11, <2>1, <2>2, <2>3 DEF CacheInv
<1>13. Relies(s)'
  <2>1. ASSUME seen PROVE min = was
    <3>1. CacheInv /\ fan[n] = LimitReg(reg, n)
      BY <1>1, <1>2, <2>1, FreeLock DEF DriverInv
    <3>2. fan[n] = reg.low[n] /\ cache.div = reg.div
      BY <1>1, <2>1, <3>1 DEF CacheInv, LimitReg
    <3> QED BY <1>3, <1>4, <3>2
  <2> QED BY <1>1, <1>6, <1>8, <2>1 DEF Relies
<1> QED BY <1>1, <1>6, <1>7, <1>9, <1>11, <1>12, <1>13, TypesNow, LockedStep

LEMMA SetFanDivEndStep ==
  ASSUME DriverInv, UNCHANGED vars, NEW t \in Thread, SetFanDivEnd(t)
  PROVE  DriverInv'
<1>1. Online /\ th[t] \in HandlerState /\ update_lock = t
  BY Busy DEF SetFanDivEnd, Locking
<1>2. PICK n \in Fan : n = th[t].nr
  BY <1>1, StateFacts DEF SetFanDivEnd, Locking
<1>3. PICK v \in Byte : v = Restored(n, th[t].min)
  <2>1. th[t].min \in Int
    BY <1>1, StateFacts DEF SetFanDivEnd
  <2>2. cache.div[n] \in 0..7
    BY SensorsAssumption, TypesNow DEF Cached
  <2>3. 2 ^ cache.div[n] \in Nat /\ 2 ^ cache.div[n] > 0
    BY <2>2, PowerType
  <2> QED BY <2>1, <2>3, LimitType DEF Restored
<1>4. /\ th[t].op = "div" /\ update_lock' = NoThread /\ Goto(t, Idle)
      /\ fan' = [fan EXCEPT ![n] = v] /\ reg' = [reg EXCEPT !.low[n] = v]
      /\ UNCHANGED <<cache, valid, recent, seen, typed>>
  BY <1>2, <1>3 DEF SetFanDivEnd
<1>5. d1' = d1 /\ (Wide' <=> Wide) /\ ~Wide
  <2>1. ~Wide
    BY <1>4 DEF DriverInv, Relies
  <2> QED BY <1>1, <1>4, <2>1, TypesNow, IdleState, GotoStep
<1>6. /\ reg' \in Registers /\ reg'.div = reg.div /\ reg'.low = [reg.low EXCEPT ![n] = v]
      /\ reg'.vin = reg.vin /\ reg'.temp = reg.temp
      /\ reg'.freq = reg.freq /\ reg'.freq2 = reg.freq2
  <2>1. reg' \in Registers /\ reg' = [reg EXCEPT !.low = [reg.low EXCEPT ![n] = v]]
    BY <1>4, TypesNow, WritingFan
  <2> QED BY <2>1, TypesNow, RegisterTypes
<1>7. fan' \in [Fan -> Word]
  BY <1>4, TypesNow, TwoBytes
<1>8. CacheInv'
  <2>1. CacheInv
    BY <1>1 DEF DriverInv
  <2>2. ASSUME seen, NEW m \in Fan \intersect d1.has_fan PROVE fan'[m] = LimitReg(reg, m)'
    <3>1. ~BeingWritten(m)
      BY <1>1, <1>4 DEF BeingWritten
    <3>2. fan[m] = LimitReg(reg, m)
      BY <2>1, <2>2, <3>1 DEF CacheInv
    <3> QED BY <1>4, <1>5, <1>6, <3>2, TypesNow, RegisterTypes DEF LimitReg
  <2> QED BY <1>4, <1>5, <1>6, <2>1, <2>2 DEF CacheInv
<1>9. Relies(Idle)'
  BY DEF Relies, Idle
<1>10. Idle \in HandlerState /\ ~(update_lock' = t) /\ ~(Idle.op \in Locking)
  BY <1>4, IdleState, TypesNow
<1> QED BY <1>1, <1>4, <1>6, <1>7, <1>8, <1>9, <1>10, TypesNow, LockedStep

\* A step that takes the lock, writes no fan register and leaves the lock at once, or
\* one, like the last of set_temp_type, that needs it to be free
LEMMA BriefStep ==
  ASSUME DriverInv, UNCHANGED vars, NEW t \in Thread, Goto(t, Idle), Online,
         UNCHANGED <<fan, recent, seen, typed, update_lock>>, update_lock = NoThread,
         reg' \in Registers, cache' \in Cached, valid' \in BOOLEAN, valid' => valid,
         UNCHANGED <<reg.div, reg.low, reg.high, cache.div>>,
         seen => /\ \A n \in In \intersect d1.has_in : cache'.vin[n] = reg'.vin[n]
                 /\ \A n \in Temp \intersect d1.has_temp : cache'.temp[n] = reg'.temp[n]
                 /\ cache'.freq = reg'.freq,
         valid' => cache'.freq2 = reg'.freq2
  PROVE  DriverInv'
<1>1. d1' = d1 /\ (Wide' <=> Wide)
  BY TypesNow, IdleState, GotoStep
<1>2. CacheInv /\ (seen => \A n \in Fan \intersect d1.has_fan : fan[n] = LimitReg(reg, n))
  BY FreeLock DEF DriverInv
<1>3. seen => \A n \in Fan \intersect d1.has_fan : fan'[n] = LimitReg(reg, n)'
  BY <1>1, <1>2 DEF LimitReg
<1>4. CacheInv'
  BY <1>1, <1>2, <1>3 DEF CacheInv
<1>5. Relies(Idle)'
  BY DEF Relies, Idle
<1>6. Idle \in HandlerState /\ ~(update_lock' = t) /\ ~(Idle.op \in Locking)
  BY IdleState, TypesNow
<1> QED BY <1>4, <1>5, <1>6, TypesNow, LockedStep

LEMMA StillIdle ==
  ASSUME DriverInv, NEW t \in Thread, th[t] = Idle, th' = Racing(t)
  PROVE  Goto(t, Idle)
BY DEF Goto, Racing

LEMMA FreeCache ==
  ASSUME DriverInv, Online
  PROVE  /\ seen => /\ \A n \in In \intersect d1.has_in : cache.vin[n] = reg.vin[n]
                    /\ \A n \in Temp \intersect d1.has_temp : cache.temp[n] = reg.temp[n]
                    /\ cache.freq = reg.freq
         /\ valid => cache.freq2 = reg.freq2
BY DEF DriverInv, CacheInv

LEMMA SetInStep ==
  ASSUME DriverInv, UNCHANGED vars, NEW t \in Thread, NEW r \in Use(sys.chips[1]), SetIn(t, r)
  PROVE  DriverInv'
<1>1. /\ Online /\ th[t] = Idle /\ r.attr = "in" /\ update_lock = NoThread /\ th' = Racing(t)
      /\ UNCHANGED <<fan, valid, recent, seen, typed, update_lock>>
  BY DEF SetIn, May
<1>2. r.nr \in In /\ r.val \in Int
  BY <1>1, RequestFacts
<1>3. PICK v \in Byte : v = in_to_reg(r.nr, r.val)
  BY <1>2, VoltageType
<1>4. reg' = [reg EXCEPT !.vin[r.nr] = v] /\ cache' = [cache EXCEPT !.vin[r.nr] = v]
  BY <1>3 DEF SetIn
<1>5. /\ reg' \in Registers /\ reg' = [reg EXCEPT !.vin = [reg.vin EXCEPT ![r.nr] = v]]
      /\ cache' \in Cached
  BY <1>2, <1>4, TypesNow, WritingLimits, Caching
<1>6. /\ UNCHANGED <<reg.div, reg.low, reg.high, reg.temp, reg.freq, reg.freq2>>
      /\ reg'.vin = [reg.vin EXCEPT ![r.nr] = v] /\ reg.vin \in [In -> Byte]
  BY <1>5, TypesNow, RegisterTypes
<1>7. /\ UNCHANGED <<cache.div, cache.temp, cache.freq, cache.freq2>>
      /\ cache'.vin = [cache.vin EXCEPT ![r.nr] = v] /\ cache.vin \in [In -> Byte]
  BY <1>4, TypesNow DEF Cached
<1>8. seen => \A n \in In \intersect d1.has_in : cache'.vin[n] = reg'.vin[n]
  BY <1>1, <1>6, <1>7, FreeCache
<1>9. Goto(t, Idle)
  BY <1>1, StillIdle
<1> QED BY <1>1, <1>5, <1>6, <1>7, <1>8, <1>9, TypesNow, FreeCache, BriefStep

LEMMA SetTempStep ==
  ASSUME DriverInv, UNCHANGED vars, NEW t \in Thread, NEW r \in Use(sys.chips[1]), SetTemp(t, r)
  PROVE  DriverInv'
<1>1. /\ Online /\ th[t] = Idle /\ r.attr = "temp" /\ update_lock = NoThread /\ th' = Racing(t)
      /\ UNCHANGED <<fan, valid, recent, seen, typed, update_lock>>
  BY DEF SetTemp, May
<1>2. r.nr \in Temp /\ r.val \in Int
  BY <1>1, RequestFacts
<1>3. PICK v \in SignedByte : v = TEMP_TO_REG(r.val)
  BY <1>2, TemperatureType
<1>4. reg' = [reg EXCEPT !.temp[r.nr] = v] /\ cache' = [cache EXCEPT !.temp[r.nr] = v]
  BY <1>3 DEF SetTemp
<1>5. /\ reg' \in Registers /\ reg' = [reg EXCEPT !.temp = [reg.temp EXCEPT ![r.nr] = v]]
      /\ cache' \in Cached
  BY <1>2, <1>4, TypesNow, WritingLimits, Caching
<1>6. /\ UNCHANGED <<reg.div, reg.low, reg.high, reg.vin, reg.freq, reg.freq2>>
      /\ reg'.temp = [reg.temp EXCEPT ![r.nr] = v] /\ reg.temp \in [Temp -> SignedByte]
  BY <1>5, TypesNow, RegisterTypes
<1>7. /\ UNCHANGED <<cache.div, cache.vin, cache.freq, cache.freq2>>
      /\ cache'.temp = [cache.temp EXCEPT ![r.nr] = v] /\ cache.temp \in [Temp -> SignedByte]
  BY <1>4, TypesNow DEF Cached
<1>8. seen => \A n \in Temp \intersect d1.has_temp : cache'.temp[n] = reg'.temp[n]
  BY <1>1, <1>6, <1>7, FreeCache
<1>9. Goto(t, Idle)
  BY <1>1, StillIdle
<1> QED BY <1>1, <1>5, <1>6, <1>7, <1>8, <1>9, TypesNow, FreeCache, BriefStep

LEMMA SetPwmFreqStep ==
  ASSUME DriverInv, UNCHANGED vars, NEW t \in Thread, NEW r \in Use(sys.chips[1]), SetPwmFreq(t, r)
  PROVE  DriverInv'
<1>1. /\ Online /\ th[t] = Idle /\ update_lock = NoThread /\ th' = Racing(t)
      /\ UNCHANGED <<fan, valid, recent, seen, typed, update_lock>>
  BY DEF SetPwmFreq, May
<1>2. PICK v \in 0..7 : v = FreqIndex(r.val)
  BY FrequencyType
<1>3. \/ reg' = [reg EXCEPT !.freq = v] /\ cache' = [cache EXCEPT !.freq = v]
      \/ reg' = [reg EXCEPT !.freq2 = v] /\ cache' = [cache EXCEPT !.freq2 = v]
  BY <1>2 DEF SetPwmFreq
<1>4. reg' \in Registers /\ cache' \in Cached
  <2>1. /\ [reg EXCEPT !.freq = v] \in Registers /\ [reg EXCEPT !.freq2 = v] \in Registers
        /\ [cache EXCEPT !.freq = v] \in Cached /\ [cache EXCEPT !.freq2 = v] \in Cached
    BY TypesNow, WritingFields, Caching
  <2> QED BY <1>3, <2>1
<1>5. /\ UNCHANGED <<reg.div, reg.low, reg.high, reg.vin, reg.temp>>
      /\ UNCHANGED <<cache.div, cache.vin, cache.temp>>
      /\ \/ /\ reg'.freq = v /\ cache'.freq = v
            /\ reg'.freq2 = reg.freq2 /\ cache'.freq2 = cache.freq2
         \/ /\ reg'.freq2 = v /\ cache'.freq2 = v
            /\ reg'.freq = reg.freq /\ cache'.freq = cache.freq
  BY <1>3, TypesNow, RegisterTypes DEF Cached
<1>6. Goto(t, Idle)
  BY <1>1, StillIdle
<1> QED BY <1>1, <1>4, <1>5, <1>6, TypesNow, FreeCache, BriefStep

LEMMA SetTempTypeEndStep ==
  ASSUME DriverInv, UNCHANGED vars, NEW t \in Thread, SetTempTypeEnd(t)
  PROVE  DriverInv'
<1> DEFINE w == th[t]
           written == [reg EXCEPT !.diode = w.sensor.diode, !.thermistor = w.sensor.thermistor,
                                  !.peci = w.sensor.peci]
<1>1. /\ w.op = "types" /\ update_lock = NoThread
      /\ reg' = IF w.nr \in OldPeciMask(d1.type)
                THEN [written EXCEPT !.oldPeci = w.oldPeci, !.freq2 = w.freq2]
                ELSE written
      /\ cache' = [cache EXCEPT !.freq2 = w.freq2]
      /\ valid' = FALSE
      /\ Goto(t, Idle) /\ UNCHANGED <<fan, recent, seen, typed, update_lock>>
  BY DEF SetTempTypeEnd, ForcedRefresh
<1>2. Online /\ w \in HandlerState
  BY <1>1, Busy DEF Racy
<1>3. w.sensor \in Enable /\ w.oldPeci \in BOOLEAN /\ w.freq2 \in 0..7
  BY <1>1, <1>2, StateFacts
<1>4. w.sensor.diode \in SUBSET (0..2) /\ w.sensor.thermistor \in SUBSET (0..2) /\ w.sensor.peci \in 0..3
  BY <1>3 DEF Enable
<1> HIDE DEF w
<1>5. /\ written \in Registers
      /\ written.div = reg.div /\ written.low = reg.low /\ written.high = reg.high
      /\ written.vin = reg.vin /\ written.temp = reg.temp /\ written.freq = reg.freq
  BY <1>4, TypesNow, RegisterTypes DEF Registers
<1> HIDE DEF written
<1>6. PICK b \in BOOLEAN : b = w.oldPeci
  BY <1>3
<1>7. reg' \in Registers /\ UNCHANGED <<reg.div, reg.low, reg.high, reg.vin, reg.temp, reg.freq>>
  <2>1. CASE w.nr \in OldPeciMask(d1.type)
    BY <1>1, <1>3, <1>5, <1>6, <2>1, RegisterTypes DEF Registers
  <2>2. CASE w.nr \notin OldPeciMask(d1.type)
    BY <1>1, <1>5, <2>2
  <2> QED BY <2>1, <2>2
<1>8. cache' \in Cached /\ UNCHANGED <<cache.div, cache.vin, cache.temp, cache.freq>>
  BY <1>1, <1>3, TypesNow, Caching, Zenon DEF Cached
<1> QED BY <1>1, <1>2, <1>7, <1>8, FreeCache, BriefStep, ZenonT(40)

-----------------------------------------------------------------------------
(* Loading, unloading and the passing of time.                             *)

LEMMA InitDriverInv == DriverInit => DriverInv
<1> SUFFICES ASSUME DriverInit PROVE DriverInv
  OBVIOUS
<1>1. Init /\ IInv
  BY InitIInv DEF DriverInit
<1>2. SensorTypes
  <2>1. reg \in Registers
    BY <1>1, PowerAssumption DEF DriverInit, IInv, LoadTypes
  <2>2. Blank \in Cached
    BY DEF Blank, Cached, Byte, SignedByte
  <2>3. fan \in [Fan -> Word] /\ th \in [Thread -> HandlerState]
    BY IdleState DEF DriverInit, Word
  <2> QED BY <2>1, <2>2, <2>3 DEF DriverInit, SensorTypes
<1>3. ~Online /\ d1 = NoData
  BY <1>1 DEF Init, Online, d1, Slot
<1>4. \A t \in Thread : th[t] = Idle
  BY DEF DriverInit
<1>5. HandlersInv
  BY <1>4, IdleState, NoThreadAssumption DEF DriverInit, HandlersInv, Quiet
<1>6. DeviceInv
  BY <1>1, <1>3 DEF Init, DeviceInv
<1> QED BY <1>1, <1>2, <1>3, <1>4, <1>5, <1>6, IdleState DEF DriverInv

\* The other steps of It87Load either end the first chip's device, which nobody uses
\* any more, or leave it as it is.
LEMMA LoadingStep ==
  ASSUME DriverInv, [Next]_vars, UNCHANGED sensors,
         (Quiet /\ d1' = NoData) \/ (d1' = d1 /\ (Online' <=> Online)),
         pc' = "probe" => data'[i'] = NoData, ~(pc' = "hwmon" /\ i' = 1)
  PROVE  DriverInv'
<1> USE DEF DriverInv
<1>1. UNCHANGED <<reg, fan, cache, valid, recent, seen, typed, update_lock, th>>
  BY DEF sensors
<1>2. IInv'
  BY LoadStep
<1>3. SensorTypes'
  BY <1>1 DEF SensorTypes
<1>4. d1' = d1 => (Wide' <=> Wide)
  BY DEF Wide
<1>5. DeviceInv'
  BY <1>4 DEF DeviceInv
<1>6. CASE Quiet /\ d1' = NoData
  <2>1. ~Online' /\ Quiet'
    BY <1>1, <1>6 DEF Online, Quiet
  <2>2. HandlersInv'
    BY <1>1, <2>1 DEF HandlersInv
  <2>3. \A t \in Thread : Relies(th[t])'
    <3>1. ASSUME NEW t \in Thread PROVE Relies(th[t])'
      <4>1. th'[t].op = "idle"
        BY <1>1, <1>6, IdleState DEF Quiet
      <4> QED BY <4>1 DEF Relies
    <3> QED BY <3>1
  <2> QED BY <1>2, <1>3, <1>5, <2>1, <2>2, <2>3
<1>7. CASE d1' = d1 /\ (Online' <=> Online)
  <2>1. HandlersInv'
    BY <1>1, <1>7 DEF HandlersInv, Quiet
  <2>2. Online => CacheInv'
    BY <1>1, <1>4, <1>7 DEF CacheInv, LimitReg, BeingWritten
  <2>3. \A t \in Thread : Relies(th[t])'
    BY <1>1, <1>4, <1>7 DEF Relies, LimitReg, Enables, Accepted, Sensor, OldPeci
  <2> QED BY <1>2, <1>3, <1>5, <1>7, <2>1, <2>2, <2>3
<1> QED BY <1>6, <1>7

LEMMA OtherLoadSteps ==
  ASSUME DriverInv, UNCHANGED sensors,
         \/ Register \/ FindNone \/ Find \/ (AddFails /\ Quiet) \/ Add
         \/ ProbeFails \/ NullDereference \/ OfferFails \/ (Exit /\ Quiet)
  PROVE  DriverInv'
<1> USE DEF DriverInv
<1>1. IInv /\ DOMAIN data = Slot /\ i \in Slot /\ 1 \in Slot
  BY DEF IInv, LoadTypes, Slot
<1>2. CASE Register
  <2>1. [Next]_vars /\ data' = data /\ pc' \in {"find", "failed"} /\ pc \in {"unloaded", "failed"}
    BY <1>2 DEF Next, Register
  <2> QED BY <2>1, LoadingStep DEF d1, Online
<1>3. CASE FindNone
  <2>1. [Next]_vars /\ data' = data /\ pc' \in {"find", "loaded", "failed"} /\ pc = "find"
    BY <1>3 DEF Next, FindNone, NextSlot
  <2> QED BY <2>1, LoadingStep DEF d1, Online
<1>4. CASE Find
  <2>1. [Next]_vars /\ data' = data /\ pc' = "add" /\ pc = "find"
    BY <1>4 DEF Next, Find
  <2> QED BY <2>1, LoadingStep DEF d1, Online
<1>5. CASE AddFails /\ Quiet
  <2>1. /\ [Next]_vars /\ Quiet /\ pc' = "failed" /\ 1 \notin pdev'
        /\ data' = [n \in Slot |-> IF n \in pdev' THEN data[n] ELSE NoData]
    BY <1>5 DEF Next, AddFails, KeptPdev
  <2>2. d1' = NoData
    BY <1>1, <2>1 DEF d1
  <2> QED BY <2>1, <2>2, LoadingStep
<1>6. CASE Add
  <2>1. [Next]_vars /\ data' = data /\ i' = i /\ pc' = "probe" /\ pc = "add"
    BY <1>6 DEF Next, Add
  <2>2. data[i] = NoData
    BY <1>1, <2>1 DEF IInv, DevicesInv
  <2> QED BY <2>1, <2>2, LoadingStep DEF d1, Online
<1>7. CASE ProbeFails
  <2>1. [Next]_vars /\ data' = data /\ pc' \in {"find", "loaded", "failed"} /\ pc = "probe"
    BY <1>7 DEF Next, ProbeFails, NextSlot
  <2> QED BY <2>1, LoadingStep DEF d1, Online
<1>8. CASE NullDereference
  <2>1. [Next]_vars /\ data' = data /\ pc' = "oops" /\ pc = "probe"
    BY <1>8 DEF Next, NullDereference
  <2> QED BY <2>1, LoadingStep DEF d1, Online
<1>9. CASE OfferFails
  <2>1. /\ [Next]_vars /\ data' = [data EXCEPT ![i] = NoData]
        /\ pc' \in {"find", "loaded", "failed"} /\ pc = "hwmon"
    BY <1>9 DEF Next, OfferFails, NextSlot
  <2>2. CASE i = 1
    <3>1. Quiet /\ d1' = NoData
      BY <1>1, <2>1, <2>2 DEF d1, HandlersInv, Online
    <3> QED BY <2>1, <3>1, LoadingStep
  <2>3. CASE i # 1
    <3>1. d1' = d1
      BY <1>1, <2>1, <2>3 DEF d1
    <3>2. Online' <=> Online
      BY <2>1, <2>3, <3>1 DEF Online
    <3> QED BY <2>1, <3>1, <3>2, LoadingStep
  <2> QED BY <2>2, <2>3
<1>10. CASE Exit /\ Quiet
  <2>1. [Next]_vars /\ Quiet /\ pc' = "unloaded" /\ data' = [n \in Slot |-> NoData]
    BY <1>10 DEF Next, Exit
  <2>2. d1' = NoData
    BY <1>1, <2>1 DEF d1
  <2> QED BY <2>1, <2>2, LoadingStep
<1> QED BY <1>2, <1>3, <1>4, <1>5, <1>6, <1>7, <1>8, <1>9, <1>10

\* Only the first fan to the third can have a limit of eight bits.
LEMMA NarrowFans ==
  ASSUME NEW t, NEW r, ~Is16Bit(t, r), NEW c \in Ec, NEW s
  PROVE  HasFan(t, r, c, s) \subseteq 0..2
<1>1. t \in OldPwmType
  BY DEF Is16Bit, OldPwmType
<1>2. MoreFans(t, r) = {}
  <2>1. CASE t = "it87"
    BY <2>1 DEF MoreFans, FourFans, FiveFans, SixFans, SixTempType
  <2>2. CASE t = "it8712"
    BY <2>2 DEF MoreFans, FourFans, FiveFans, SixFans, SixTempType
  <2> QED BY <1>1, <2>1, <2>2 DEF OldPwmType
<1>3. Tachometers(c, s) \in SUBSET (0..2)
  BY ModesType
<1> QED BY <1>2, <1>3 DEF HasFan, When

LEMMA ProbeStep ==
  ASSUME DriverInv, Probe, InitDevice
  PROVE  DriverInv'
<1> USE DEF DriverInv
<1>1. /\ pc = "probe" /\ pc' = "hwmon" /\ i' = i /\ sys' = sys
      /\ data' = [data EXCEPT ![i] = Data(chip, ec[i], sio_data)]
      /\ update_lock' = update_lock /\ th' = th
  BY DEF Probe, InitDevice
<1>2. IInv'
  BY LoadStep DEF Next, Probe
<1>3. /\ DOMAIN data = Slot /\ i \in Slot /\ 1 \in Slot /\ chip # NoChip /\ ec[i] \in Ec
      /\ data[i] = NoData
  BY <1>1 DEF IInv, LoadTypes, DevicesInv, DeviceInv, chip, Slot
<1>4. CASE i = 1
  <2>1. ~Online' /\ Quiet /\ Quiet'
    BY <1>1, <1>3, <1>4 DEF Online, HandlersInv, d1, Quiet
  <2>2. /\ reg' = [reg EXCEPT !.vin = [n \in In |-> IF @[n] = 255 THEN 0 ELSE @[n]],
                              !.temp = [n \in Temp |-> IF @[n] = -1 THEN 127 ELSE @[n]]]
        /\ fan' = [n \in Fan |-> 0] /\ cache' = Blank
        /\ valid' = FALSE /\ recent' = FALSE /\ seen' = FALSE /\ typed' = {}
    BY <1>4 DEF InitDevice
  <2>3. SensorTypes'
    <3>1. reg' \in Registers
      <4>1. [n \in In |-> IF reg.vin[n] = 255 THEN 0 ELSE reg.vin[n]] \in [In -> Byte]
        BY TypesNow, RegisterTypes DEF Byte
      <4>2. [n \in Temp |-> IF reg.temp[n] = -1 THEN 127 ELSE reg.temp[n]] \in [Temp -> SignedByte]
        BY TypesNow, RegisterTypes DEF SignedByte
      <4> QED BY <2>2, <4>1, <4>2, TypesNow, RegisterTypes, Zenon DEF Registers
    <3>2. Blank \in Cached
      BY DEF Blank, Cached, Byte, SignedByte
    <3>3. fan' \in [Fan -> Word] /\ typed' \in SUBSET Temp
      BY <2>2 DEF Word
    <3> QED BY <1>1, <2>2, <3>1, <3>2, <3>3, Zenon DEF SensorTypes
  <2>4. HandlersInv'
    BY <1>1, <2>1 DEF HandlersInv
  <2>5. DeviceInv'
    <3>1. d1' = Data(chip, ec[i], sio_data)
      BY <1>1, <1>3, <1>4 DEF d1
    <3>2. Wide' <=> Is16Bit(chip.type, chip.rev)
      BY <3>1 DEF Wide, Data
    <3>3. ~Wide' => d1'.has_fan \subseteq 0..2
      BY <1>3, <3>1, <3>2, NarrowFans DEF Data
    <3> QED BY <1>1, <2>2, <3>3 DEF DeviceInv
  <2>6. ASSUME NEW t \in Thread PROVE Relies(th[t])'
    <3>1. th'[t].op = "idle"
      BY <1>1, <2>1, IdleState DEF Quiet
    <3> QED BY <3>1 DEF Relies
  <2> QED BY <1>2, <2>1, <2>3, <2>4, <2>5, <2>6
<1>5. CASE i # 1
  <2>1. UNCHANGED sensors /\ d1' = d1
    BY <1>1, <1>3, <1>5 DEF InitDevice, sensors, d1
  <2>2. Online' <=> Online
    BY <1>1, <1>5, <2>1 DEF Online
  <2> QED BY <1>1, <1>5, <2>1, <2>2, LoadingStep DEF Next
<1> QED BY <1>4, <1>5

LEMMA OfferStep ==
  ASSUME DriverInv, Offer, MakeTypes
  PROVE  DriverInv'
<1> USE DEF DriverInv
<1>1. /\ pc = "hwmon" /\ pc' \in {"find", "loaded", "failed"} /\ data' = data
      /\ UNCHANGED <<reg, fan, cache, valid, recent, seen, update_lock, th>>
  BY DEF Offer, NextSlot, MakeTypes
<1>2. IInv'
  BY LoadStep DEF Next
<1>3. d1' = d1 /\ (Wide' <=> Wide)
  BY <1>1 DEF d1, Wide
<1>4. typed' \in SUBSET Temp
  BY DEF MakeTypes, SensorTypes
<1>5. SensorTypes'
  BY <1>1, <1>4 DEF SensorTypes
<1>6. DeviceInv'
  BY <1>1, <1>3 DEF DeviceInv
<1>7. HandlersInv'
  BY <1>1, <1>3 DEF HandlersInv, Quiet, Online
<1>8. Online' => CacheInv'
  <2>1. CASE i = 1
    BY <1>1, <1>3, <2>1 DEF DeviceInv, CacheInv
  <2>2. CASE i # 1
    <3>1. Online' => CacheInv
      BY <1>1, <1>3, <2>2 DEF Online
    <3> QED BY <1>1, <1>3, <3>1 DEF CacheInv, LimitReg, BeingWritten
  <2> QED BY <2>1, <2>2
<1>9. \A t \in Thread : Relies(th[t])'
  BY <1>1, <1>3 DEF Relies, LimitReg, Enables, Accepted, Sensor, OldPeci
<1> QED BY <1>2, <1>5, <1>6, <1>7, <1>8, <1>9

LEMMA UnchangedDriver ==
  ASSUME DriverInv, UNCHANGED vars,
         UNCHANGED <<reg, fan, cache, valid, seen, typed, update_lock, th>>, recent' \in BOOLEAN
  PROVE  DriverInv'
<1> USE DEF DriverInv
<1>1. data' = data /\ pc' = pc /\ i' = i
  BY DEF vars
<1>2. IInv'
  BY LoadStep
<1>3. d1' = d1 /\ (Wide' <=> Wide) /\ (Online' <=> Online)
  BY <1>1 DEF d1, Wide, Online
<1>4. SensorTypes' /\ HandlersInv' /\ DeviceInv'
  BY <1>1, <1>3 DEF SensorTypes, HandlersInv, Quiet, DeviceInv
<1>5. Online' => CacheInv'
  BY <1>3 DEF CacheInv, LimitReg, BeingWritten
<1>6. \A t \in Thread : Relies(th[t])'
  BY <1>3 DEF Relies, LimitReg, Enables, Accepted, Sensor, OldPeci
<1> QED BY <1>2, <1>4, <1>5, <1>6

LEMMA HandlerStep ==
  ASSUME DriverInv, UNCHANGED vars, NEW t \in Thread, Handler(t)
  PROVE  DriverInv'
<1>1. ASSUME NEW r \in Use(sys.chips[1]), Call(t, r) PROVE DriverInv'
  BY <1>1, UpdateFreshStep, UpdateStaleStep, SetFanStep, SetFanDivStep, SetInStep, SetTempStep,
     SetPwmFreqStep, SetTempTypeStep DEF Call
<1> QED BY <1>1, UpdateEndStep, ReadLimitStep, ShowReturnsStep, SetFanEndStep, SetFanDivEndStep,
           ReadExtraStep, SetTempTypeEndStep DEF Handler

LEMMA DriverStep == DriverInv /\ [DriverNext]_allVars => DriverInv'
<1> SUFFICES ASSUME DriverInv, [DriverNext]_allVars PROVE DriverInv'
  OBVIOUS
<1>1. CASE /\ UNCHANGED sensors
           /\ \/ Register \/ FindNone \/ Find \/ (AddFails /\ Quiet) \/ Add
              \/ ProbeFails \/ NullDereference \/ OfferFails \/ (Exit /\ Quiet)
  BY <1>1, OtherLoadSteps
<1>2. CASE Probe /\ InitDevice
  BY <1>2, ProbeStep
<1>3. CASE Offer /\ MakeTypes
  BY <1>3, OfferStep
<1>4. CASE Age /\ UNCHANGED vars
  BY <1>4, UnchangedDriver DEF Age
<1>5. CASE \E t \in Thread : Handler(t) /\ UNCHANGED vars
  BY <1>5, HandlerStep
<1>6. CASE UNCHANGED allVars
  <2>1. /\ UNCHANGED vars
        /\ UNCHANGED <<reg, fan, cache, valid, seen, typed, update_lock, th, recent>>
    BY <1>6 DEF allVars, sensors
  <2>2. recent \in BOOLEAN
    BY TypesNow
  <2> QED BY <2>1, <2>2, UnchangedDriver
<1> QED BY <1>1, <1>2, <1>3, <1>4, <1>5, <1>6 DEF DriverNext

-----------------------------------------------------------------------------

\* What the cache, and every thread in a handler, has noted is the chip's, as long as
\* somebody answers for it.
THEOREM DriverInvariant == DriverSpec => []DriverInv
  BY InitDriverInv, DriverStep, PTL DEF DriverSpec

\* While data->valid, and nobody at work under the lock, what the cache has of a
\* sensor is what the chip's registers have.
THEOREM CacheIsChip == DriverSpec => []CacheCoherent
<1>1. DriverInv => CacheCoherent
  BY DEF DriverInv, CacheInv, BeingWritten, CacheCoherent
<1> QED BY <1>1, DriverInvariant, PTL

\* What a thread is shown that nobody raced
LEMMA ShownIsChip ==
  ASSUME DriverInv, NEW t \in Thread, th[t].op = "convert", ~th[t].raced, th[t].nr \in d1.has_fan
  PROVE  Shown(t) = Speed(LimitReg(reg, th[t].nr), reg.div[th[t].nr])
<1>1. Online /\ Relies(th[t])
  BY Busy DEF Racy, DriverInv
<1>2. seen /\ th[t].limit = LimitReg(reg, th[t].nr)
  BY <1>1 DEF Relies
<1>3. ~Wide => cache.div = reg.div
  BY <1>1, <1>2 DEF DriverInv, CacheInv
<1> QED BY <1>2, <1>3 DEF Shown, Speed

\* A show_fan that nobody raced returns the chip's limit and divisor, although it reads
\* neither under the lock.
THEOREM ShownUnlessRaced == DriverSpec => ShowsChip
<1>1. DriverInv =>
        (\A t \in Thread :
           Finishes(t, "convert") /\ ~th[t].raced /\ th[t].nr \in d1.has_fan =>
             Shown(t) = Speed(LimitReg(reg, th[t].nr), reg.div[th[t].nr]))
  BY ShownIsChip DEF Finishes
<1> QED BY <1>1, DriverInvariant, PTL DEF ShowsChip

\* Whose step it is, if the step is a handler's
LEMMA DivisorChange ==
  ASSUME DriverInv, [DriverNext]_allVars, reg'.div # reg.div
  PROVE  \E t \in Thread, r \in Use(sys.chips[1]) : SetFanDiv(t, r)
<1>1. reg' # reg
  OBVIOUS
<1>2. CASE InitDevice
  <2>1. reg' = [reg EXCEPT !.vin = [n \in In |-> IF @[n] = 255 THEN 0 ELSE @[n]],
                           !.temp = [n \in Temp |-> IF @[n] = -1 THEN 127 ELSE @[n]]]
    BY <1>1, <1>2 DEF InitDevice
  <2> QED BY <2>1, TypesNow, RegisterTypes
<1>3. ASSUME NEW t \in Thread, Handler(t), ~\E r \in Use(sys.chips[1]) : SetFanDiv(t, r) PROVE FALSE
  <2> USE TypesNow, RegisterTypes
  <2>1. ~UpdateEnd(t) /\ ~ReadLimit(t) /\ ~ShowReturns(t) /\ ~ReadExtra(t)
    BY <1>1 DEF UpdateEnd, ReadLimit, ShowReturns, ReadExtra
  <2>2. ASSUME NEW r \in Use(sys.chips[1])
        PROVE  ~UpdateFresh(t, r) /\ ~UpdateStale(t, r) /\ ~SetTempType(t, r)
    BY <1>1 DEF UpdateFresh, UpdateStale, SetTempType
  <2>3. ASSUME NEW r \in Use(sys.chips[1]) PROVE ~SetFan(t, r)
    BY DEF SetFan
  <2>4. ASSUME NEW r \in Use(sys.chips[1]) PROVE ~SetIn(t, r) /\ ~SetTemp(t, r) /\ ~SetPwmFreq(t, r)
    BY DEF SetIn, SetTemp, SetPwmFreq
  <2>5. ~SetFanEnd(t)
    BY DEF SetFanEnd
  <2>6. ~SetFanDivEnd(t)
    BY DEF SetFanDivEnd
  <2>7. ~SetTempTypeEnd(t)
    BY ZenonT(40) DEF SetTempTypeEnd
  <2> QED BY <1>3, <2>1, <2>2, <2>3, <2>4, <2>5, <2>6, <2>7 DEF Handler, Call
<1> QED BY <1>1, <1>2, <1>3 DEF DriverNext, allVars, sensors, MakeTypes, Age

\* A fan's divisor is changed by its own fan*_div only, although FAN_DIV, which the
\* three fans share, is composed from the cache.
THEOREM OwnDivisorOnly == DriverSpec => DivisorsApart
<1> DEFINE Own == \A n \in 0..2 :
                    seen /\ reg'.div[n] # reg.div[n] =>
                      \E t \in Thread : th[t] = Idle /\ th'[t].op = "div" /\ th'[t].nr = n
<1>1. ASSUME DriverInv, [DriverNext]_allVars PROVE Own
  <2> SUFFICES ASSUME NEW n \in 0..2, seen, reg'.div[n] # reg.div[n]
               PROVE  \E t \in Thread : th[t] = Idle /\ th'[t].op = "div" /\ th'[t].nr = n
    OBVIOUS
  <2>1. PICK t \in Thread, r \in Use(sys.chips[1]) : SetFanDiv(t, r)
    BY <1>1, DivisorChange
  <2>2. /\ Online /\ th[t] = Idle /\ r.attr = "div" /\ r.nr \in d1.has_fan /\ ~Wide
        /\ cache' = [cache EXCEPT !.div[r.nr] = DivOf(r.nr, r.val)]
        /\ reg' = [reg EXCEPT !.div = WrittenDiv(cache'.div)]
        /\ th'[t].op = "div" /\ th'[t].nr = r.nr
    <3>1. th \in [Thread -> HandlerState]
      BY <1>1 DEF DriverInv, SensorTypes
    <3> QED BY <2>1, <3>1 DEF SetFanDiv, May, Goto, Racing
  <2>3. r.nr \in 0..2
    BY <1>1, <2>2, RequestFacts, SensorsAssumption
  <2>4. cache.div = reg.div /\ reg.div \in [0..2 -> 0..7] /\ reg.div[2] \in {1, 3}
    BY <1>1, <2>2, TypesNow, RegisterTypes DEF DriverInv, CacheInv
  <2>5. cache'.div = [reg.div EXCEPT ![r.nr] = DivOf(r.nr, r.val)]
    BY <1>1, <2>2, <2>4, TypesNow DEF Cached
  <2>6. reg'.div = WrittenDiv(cache'.div)
    BY <1>1, <2>2, TypesNow, RegisterTypes
  <2>7. n = r.nr
    BY <2>3, <2>4, <2>5, <2>6 DEF WrittenDiv
  <2> QED BY <2>2, <2>7
<1>2. DriverInv /\ [DriverNext]_allVars => [Own]_allVars
  BY <1>1
<1> HIDE DEF Own
<1>3. DriverSpec => [][Own]_allVars
  BY <1>2, DriverInvariant, PTL DEF DriverSpec
<1> QED BY <1>3 DEF DivisorsApart, Own

\* What set_temp_type makes of both registers, if nobody came between
LEMMA TypeWritten ==
  ASSUME NEW type, NEW r, NEW q, NEW n \in 0..2, NEW val \in {0, 3, 4, 6},
         val = 6 => n \in PeciMask(type) \union OldPeciMask(type),
         q.diode = IF val = 3 THEN r.diode \union {n} ELSE r.diode \ {n},
         q.thermistor = IF val = 4 THEN r.thermistor \union {n} ELSE r.thermistor \ {n},
         q.peci = IF n \notin PeciMask(type) THEN r.peci
                  ELSE IF val = 6 THEN n + 1
                  ELSE IF r.peci = n + 1 THEN 0 ELSE r.peci,
         n \notin OldPeciMask(type) => q.oldPeci = r.oldPeci,
         n \in OldPeciMask(type) => (q.oldPeci <=> val = 6 /\ n \notin PeciMask(type))
  PROVE  /\ get_temp_type(type, q, n) = val
         /\ \A m \in (0..2) \ {n} :
              \/ get_temp_type(type, q, m) = get_temp_type(type, r, m)
              \/ val = 6 /\ get_temp_type(type, r, m) = 6
<1>1. \A m, k : m \in OldPeciMask(type) /\ k \in OldPeciMask(type) => m = k
  BY DEF OldPeciMask
<1>2. get_temp_type(type, q, n) = val
  <2>1. CASE val \in {3, 4}
    BY <2>1 DEF get_temp_type
  <2>2. CASE val = 6
    BY <2>2 DEF get_temp_type
  <2>3. CASE val = 0
    BY <2>3 DEF get_temp_type
  <2> QED BY <2>1, <2>2, <2>3
<1>3. ASSUME NEW m \in (0..2) \ {n}
      PROVE  \/ get_temp_type(type, q, m) = get_temp_type(type, r, m)
             \/ val = 6 /\ get_temp_type(type, r, m) = 6
  <2>1. /\ m \in q.diode <=> m \in r.diode
        /\ m \in q.thermistor <=> m \in r.thermistor
    OBVIOUS
  <2>2. m \in OldPeciMask(type) => q.oldPeci = r.oldPeci
    BY <1>1, <1>3
  <2>3. CASE val # 6
    <3>1. q.peci = m + 1 <=> r.peci = m + 1
      BY <1>3, <2>3
    <3> QED BY <2>1, <2>2, <3>1 DEF get_temp_type
  <2>4. CASE val = 6
    <3>1. q.peci = m + 1 => r.peci = m + 1
      BY <1>3, <2>4
    <3> QED BY <2>1, <2>2, <2>4, <3>1 DEF get_temp_type
  <2> QED BY <2>3, <2>4
<1> QED BY <1>2, <1>3

\* Only a thread's own step ends the handler it is in.
LEMMA OwnStep ==
  ASSUME DriverInv, [DriverNext]_allVars, NEW t \in Thread, th[t] # Idle, th'[t] = Idle
  PROVE  ShowReturns(t) \/ SetFanEnd(t) \/ SetFanDivEnd(t) \/ ReadExtra(t) \/ SetTempTypeEnd(t)
<1>1. th' # th
  OBVIOUS
<1>2. PICK u \in Thread : Handler(u)
  BY <1>1 DEF DriverNext, allVars, sensors, InitDevice, MakeTypes, Age
<1>3. th \in [Thread -> HandlerState] /\ th[t].op # "idle"
  BY StateFacts DEF DriverInv, SensorTypes
<1>4. u = t
  <2> SUFFICES ASSUME u # t PROVE th'[t].op = th[t].op
    BY <1>3, IdleState
  <2>1. \/ \E s : Goto(u, s)
        \/ th' = Racing(u)
        \/ \E s : th' = [th EXCEPT ![u] = s]
    BY <1>2, ZenonT(40) DEF Handler, Call, UpdateFresh, UpdateStale, SetFan, SetFanDiv, SetIn, SetTemp,
       SetPwmFreq, SetTempType, UpdateEnd, ReadLimit, ShowReturns, SetFanEnd, SetFanDivEnd,
       ReadExtra, SetTempTypeEnd
  <2>2. th'[t] = th[t] \/ (th[t].op \in Racy /\ th'[t] = [th[t] EXCEPT !.raced = TRUE])
    BY <1>3, <2>1 DEF Goto, Racing, Racy
  <2> QED BY <1>3, <2>2, RacedState
<1>5. ASSUME NEW r PROVE ~Call(t, r)
  BY DEF Call, May, UpdateFresh, UpdateStale, SetFan, SetFanDiv, SetIn, SetTemp, SetPwmFreq,
     SetTempType
<1>6. ~ReadLimit(t) /\ ~UpdateEnd(t)
  <2>1. ASSUME NEW s, s.op # "idle", Goto(t, s) \/ th' = [th EXCEPT ![t] = s] PROVE th'[t] # Idle
    BY <1>3, <2>1, IdleState DEF Goto, Racing
  <2> QED BY <2>1 DEF ReadLimit, UpdateEnd
<1> QED BY <1>2, <1>4, <1>5, <1>6 DEF Handler

\* A temperature's type is what was last written to it, and the other types and pwm2's
\* frequency, in the same registers, are left alone, unless the writer was raced.
THEOREM TypesStick == DriverSpec => TypeSticks
<1> DEFINE Sticks ==
      \A t \in Thread :
        Finishes(t, "types") /\ ~th[t].raced =>
          LET Type(r, n) == get_temp_type(d1.type, r, n)
          IN /\ Type(reg', th[t].nr) = th[t].val
             /\ \A n \in (0..2) \ {th[t].nr} :
                  Type(reg', n) = Type(reg, n) \/ (th[t].val = 6 /\ Type(reg, n) = 6)
             /\ reg'.freq2 = reg.freq2
<1>1. ASSUME DriverInv, [DriverNext]_allVars PROVE Sticks
  <2> SUFFICES ASSUME NEW t \in Thread, th[t].op = "types", th'[t] = Idle, ~th[t].raced
               PROVE  /\ get_temp_type(d1.type, reg', th[t].nr) = th[t].val
                      /\ \A n \in (0..2) \ {th[t].nr} :
                           \/ get_temp_type(d1.type, reg', n) = get_temp_type(d1.type, reg, n)
                           \/ th[t].val = 6 /\ get_temp_type(d1.type, reg, n) = 6
                      /\ reg'.freq2 = reg.freq2
    BY DEF Finishes
  <2>1. SetTempTypeEnd(t)
    <3>1. th[t] # Idle
      BY IdleState
    <3> QED BY <1>1, <3>1, OwnStep DEF ShowReturns, SetFanEnd, SetFanDivEnd, ReadExtra
  <2>2. Online /\ th[t] \in HandlerState
    BY <1>1, Busy DEF Racy
  <2>3. PICK n \in 0..2 : n = th[t].nr
    BY <2>2, StateFacts, SensorsAssumption
  <2>4. PICK val \in {0, 3, 4, 6} : val = th[t].val
    BY <2>2, StateFacts
  <2>5. PICK bit \in BOOLEAN : bit = th[t].oldPeci
    BY <2>2, StateFacts
  <2>6. /\ Accepted(n, val)
        /\ th[t].sensor = Sensor(Enables(reg), n, val)
        /\ bit = OldPeci(reg.oldPeci, n, val)
        /\ th[t].freq2 = reg.freq2
    BY <1>1, <2>3, <2>4, <2>5 DEF DriverInv, Relies
  <2>7. reg \in Registers
    BY <1>1, TypesNow
  <2> DEFINE w == Sensor(Enables(reg), n, val)
             written == [reg EXCEPT !.diode = w.diode, !.thermistor = w.thermistor, !.peci = w.peci]
  <2>8. reg' = IF n \in OldPeciMask(d1.type)
               THEN [written EXCEPT !.oldPeci = bit, !.freq2 = reg.freq2] ELSE written
    BY <2>1, <2>3, <2>5, <2>6 DEF SetTempTypeEnd
  <2>9. /\ reg'.diode = w.diode /\ reg'.thermistor = w.thermistor /\ reg'.peci = w.peci
        /\ reg'.oldPeci = IF n \in OldPeciMask(d1.type) THEN bit ELSE reg.oldPeci
        /\ reg'.freq2 = reg.freq2
    <3> HIDE DEF w
    <3>1. CASE n \in OldPeciMask(d1.type)
      BY <2>7, <2>8, <3>1, RegisterTypes
    <3>2. CASE n \notin OldPeciMask(d1.type)
      BY <2>7, <2>8, <3>2, RegisterTypes
    <3> QED BY <3>1, <3>2
  <2>10. /\ w.diode = IF val = 3 THEN reg.diode \union {n} ELSE reg.diode \ {n}
         /\ w.thermistor = IF val = 4 THEN reg.thermistor \union {n} ELSE reg.thermistor \ {n}
         /\ w.peci = IF n \notin PeciMask(d1.type) THEN reg.peci
                     ELSE IF val = 6 THEN n + 1
                     ELSE IF reg.peci = n + 1 THEN 0 ELSE reg.peci
    BY DEF Sensor, Enables
  <2>11. val = 6 => n \in PeciMask(d1.type) \union OldPeciMask(d1.type)
    BY <2>6 DEF Accepted
  <2>12. n \in OldPeciMask(d1.type) => (bit <=> val = 6 /\ n \notin PeciMask(d1.type))
    BY <2>6 DEF OldPeci
  <2> HIDE DEF w, written
  <2>13. /\ get_temp_type(d1.type, reg', n) = val
         /\ \A m \in (0..2) \ {n} :
              \/ get_temp_type(d1.type, reg', m) = get_temp_type(d1.type, reg, m)
              \/ val = 6 /\ get_temp_type(d1.type, reg, m) = 6
    <3>1. /\ reg'.diode = IF val = 3 THEN reg.diode \union {n} ELSE reg.diode \ {n}
          /\ reg'.thermistor = IF val = 4 THEN reg.thermistor \union {n} ELSE reg.thermistor \ {n}
          /\ reg'.peci = IF n \notin PeciMask(d1.type) THEN reg.peci
                         ELSE IF val = 6 THEN n + 1
                         ELSE IF reg.peci = n + 1 THEN 0 ELSE reg.peci
          /\ n \notin OldPeciMask(d1.type) => reg'.oldPeci = reg.oldPeci
          /\ n \in OldPeciMask(d1.type) => (reg'.oldPeci <=> val = 6 /\ n \notin PeciMask(d1.type))
      BY <2>9, <2>10, <2>12
    <3> QED BY <2>11, <3>1, TypeWritten, SMTT(40)
  <2> QED BY <2>3, <2>4, <2>9, <2>13
<1>2. DriverInv /\ [DriverNext]_allVars => [Sticks]_allVars
  BY <1>1
<1> HIDE DEF Sticks
<1>3. DriverSpec => [][Sticks]_allVars
  BY <1>2, DriverInvariant, PTL DEF DriverSpec
<1> QED BY <1>3 DEF TypeSticks, Sticks

\* set_fan_div keeps the fan's limit, as near as the new divisor can tell it.
LEMMA DivisorEnds ==
  ASSUME DriverInv, [DriverNext]_allVars, NEW t \in Thread,
         Finishes(t, "div"), seen, th[t].was >= 0
  PROVE  NearestSpeed(reg'.low[th[t].nr], th[t].was, 2 ^ reg.div[th[t].nr], 254)
<1>1. th[t].op = "div" /\ Online /\ th[t] \in HandlerState
  BY Busy DEF Finishes, Locking
<1>2. SetFanDivEnd(t)
  <2>1. th[t] # Idle /\ th'[t] = Idle
    BY <1>1, IdleState DEF Finishes
  <2> QED BY <1>1, <2>1, OwnStep DEF ShowReturns, SetFanEnd, ReadExtra, SetTempTypeEnd
<1>3. PICK n \in Fan : n = th[t].nr /\ n \in 0..2
  BY <1>1, StateFacts, SensorsAssumption DEF Locking
<1>4. PICK was \in Nat : was = th[t].was
  <2>1. th[t].was \in Int
    BY <1>1 DEF HandlerState, Idle
  <2> QED BY <2>1
<1>5. Relies(th[t]) /\ CacheInv
  BY <1>1 DEF DriverInv
<1>6. n \in d1.has_fan /\ ~Wide /\ th[t].min = was
  BY <1>1, <1>3, <1>4, <1>5 DEF Relies
<1>7. cache.div = reg.div
  BY <1>5, <1>6 DEF CacheInv
<1>8. reg.div[n] \in 0..7
  BY <1>3, TypesNow, RegisterTypes
<1>9. PICK d \in Nat : d = 2 ^ reg.div[n] /\ d > 0
  BY <1>8, PowerType
<1>10. PICK v \in Byte : v = FAN_TO_REG(was, d)
  BY <1>9, LimitType
<1>11. Restored(n, th[t].min) = v
  BY <1>6, <1>7, <1>9, <1>10 DEF Restored
<1>12. reg' = [reg EXCEPT !.low[n] = v]
  BY <1>2, <1>3, <1>11 DEF SetFanDivEnd
<1>13. reg'.low[n] = v
  BY <1>12, TypesNow, RegisterTypes
<1>14. NearestSpeed(v, was, d, 254)
  BY <1>9, <1>10, NearestFan
<1> QED BY <1>3, <1>4, <1>9, <1>13, <1>14

\* A change of divisor leaves the limit as near to what it was as the new divisor can
\* tell it, because the cached limit and divisor it starts from are the chip's.
THEOREM LimitsSurvive == DriverSpec => LimitSurvivesDivisor
<1> DEFINE Survives ==
      \A t \in Thread :
        Finishes(t, "div") /\ seen /\ th[t].was >= 0 =>
          NearestSpeed(reg'.low[th[t].nr], th[t].was, 2 ^ reg.div[th[t].nr], 254)
<1>1. DriverInv /\ [DriverNext]_allVars => [Survives]_allVars
  BY DivisorEnds
<1> HIDE DEF Survives
<1>2. DriverSpec => [][Survives]_allVars
  BY <1>1, DriverInvariant, PTL DEF DriverSpec
<1> QED BY <1>2 DEF LimitSurvivesDivisor, Survives

LEMMA FanEnds ==
  ASSUME DriverInv, [DriverNext]_allVars, NEW t \in Thread, Finishes(t, "fan"), th[t].rpm >= 0
  PROVE  LET n == th[t].nr
         IN IF Wide THEN NearestSpeed(LimitReg(reg', n), th[t].rpm, 2, 65534)
            ELSE NearestSpeed(reg'.low[n], th[t].rpm, 2 ^ reg.div[n], 254)
<1>1. th[t].op = "fan" /\ Online /\ th[t] \in HandlerState
  BY Busy DEF Finishes, Locking
<1>2. SetFanEnd(t)
  <2>1. th[t] # Idle /\ th'[t] = Idle
    BY <1>1, IdleState DEF Finishes
  <2> QED BY <1>1, <2>1, OwnStep DEF ShowReturns, SetFanDivEnd, ReadExtra, SetTempTypeEnd
<1>3. PICK n \in Fan : n = th[t].nr /\ n \in 0..2
  BY <1>1, StateFacts, SensorsAssumption DEF Locking
<1>4. PICK rpm \in Nat : rpm = th[t].rpm
  <2>1. th[t].rpm \in Int
    BY <1>1, StateFacts
  <2> QED BY <2>1
<1>5. /\ fan[n] = IF Wide THEN FAN16_TO_REG(rpm) ELSE FAN_TO_REG(rpm, 2 ^ reg.div[n])
      /\ reg.low[n] = IF Wide THEN fan[n] % 256 ELSE fan[n]
  BY <1>1, <1>3, <1>4 DEF DriverInv, Relies
<1>6. CASE Wide
  <2>1. PICK v \in Byte : v = fan[n] \div 256
    BY TypesNow, TwoBytes
  <2>2. reg' = [reg EXCEPT !.high[n] = v]
    BY <1>2, <1>3, <1>6, <2>1 DEF SetFanEnd
  <2> DEFINE x == [reg EXCEPT !.high[n] = v]
  <2>3. x \in Registers /\ x = [reg EXCEPT !.high = [reg.high EXCEPT ![n] = v]]
    BY TypesNow, WritingFan
  <2>4. reg' = x
    BY <2>2
  <2> HIDE DEF x
  <2>5. reg'.high[n] = v /\ reg'.low[n] = reg.low[n]
    BY <2>3, <2>4, TypesNow, RegisterTypes
  <2>6. fan[n] \in Word /\ reg'.low[n] = fan[n] % 256
    BY <1>5, <1>6, <2>5, TypesNow
  <2>7. LimitReg(reg', n) = reg'.low[n] + 256 * reg'.high[n]
    BY <1>6 DEF LimitReg
  <2>8. fan[n] = (fan[n] % 256) + 256 * (fan[n] \div 256)
    <3>1. fan[n] \in Int
      BY <2>6, SMT DEF Word
    <3> QED BY <3>1, SMT
  <2>9. LimitReg(reg', n) = FAN16_TO_REG(rpm)
    <3>1. fan[n] = FAN16_TO_REG(rpm)
      BY <1>5, <1>6
    <3>2. reg'.low[n] = fan[n] % 256 /\ reg'.high[n] = fan[n] \div 256
      BY <2>1, <2>5, <2>6, Zenon
    <3> QED BY <2>7, <2>8, <3>1, <3>2, ZenonT(40)
  <2>10. NearestSpeed(LimitReg(reg', n), rpm, 2, 65534)
    BY <2>9, NearestWideFan
  <2> QED BY <1>3, <1>4, <1>6, <2>10
<1>7. CASE ~Wide
  <2>1. reg' = reg
    BY <1>2, <1>7 DEF SetFanEnd
  <2>2. reg.div[n] \in 0..7
    BY <1>3, TypesNow, RegisterTypes
  <2>3. PICK d \in Nat : d = 2 ^ reg.div[n] /\ d > 0
    BY <2>2, PowerType
  <2>4. reg'.low[n] = FAN_TO_REG(rpm, d)
    BY <1>5, <1>7, <2>1, <2>3
  <2>5. NearestSpeed(reg'.low[n], rpm, d, 254)
    BY <2>3, <2>4, NearestFan
  <2> QED BY <1>3, <1>4, <1>7, <2>3, <2>5
<1> QED BY <1>6, <1>7

LEMMA VoltageSet ==
  ASSUME DriverInv, NEW t \in Thread, NEW r \in Use(sys.chips[1]), SetIn(t, r), NEW q \in 0..255
  PROVE  Abs(reg'.vin[r.nr] * Lsb(r.nr) - r.val * 10) <= Abs(q * Lsb(r.nr) - r.val * 10)
<1>1. r.nr \in In /\ r.val \in Int
  BY RequestFacts DEF SetIn, May
<1>2. PICK v \in Byte : v = in_to_reg(r.nr, r.val)
  BY <1>1, VoltageType
<1>3. reg'.vin[r.nr] = v
  <2>1. reg' = [reg EXCEPT !.vin[r.nr] = v]
    BY <1>2 DEF SetIn
  <2> QED BY <1>1, <2>1, TypesNow, RegisterTypes
<1>4. PICK L \in Nat : L = Lsb(r.nr) /\ L > 0
  BY DEF Lsb, AdcLsb
<1>5. PICK a \in Int : a = r.val * 10
  BY <1>1
<1>a. PICK top \in Nat : top = 255
  BY SMT
<1>6. v \in Int /\ v = Clamp((a + L \div 2) \div L, 0, top) /\ q \in Int /\ 0 <= q /\ q <= top
  BY <1>2, <1>4, <1>5, <1>a, SMT DEF in_to_reg, Byte
<1>7. Abs(v * L - a) <= Abs(q * L - a)
  BY <1>4, <1>5, <1>6, <1>a, NearestMultiple, ZenonT(60)
<1> QED BY <1>3, <1>4, <1>5, <1>7

LEMMA TemperatureSet ==
  ASSUME DriverInv, NEW t \in Thread, NEW r \in Use(sys.chips[1]), SetTemp(t, r), NEW q \in -128..127
  PROVE  Abs(reg'.temp[r.nr] * 1000 - r.val) <= Abs(q * 1000 - r.val)
<1>1. r.nr \in Temp /\ r.val \in Int
  BY RequestFacts DEF SetTemp, May
<1>2. PICK v \in SignedByte : v = TEMP_TO_REG(r.val)
  BY <1>1, TemperatureType
<1>3. reg'.temp[r.nr] = v
  <2>1. reg' = [reg EXCEPT !.temp[r.nr] = v]
    BY <1>2 DEF SetTemp
  <2> QED BY <1>1, <2>1, TypesNow, RegisterTypes
<1>4. PICK val \in Int : val = r.val
  BY <1>1
<1>5. q \in Int /\ -128 <= q /\ q <= 127
  BY SMT
<1>6. Abs(TEMP_TO_REG(val) * 1000 - val) <= Abs(q * 1000 - val)
  BY <1>5, NearestTemperature
<1> QED BY <1>2, <1>3, <1>4, <1>6

LEMMA FrequencySet ==
  ASSUME DriverInv, NEW t \in Thread, NEW r \in Use(sys.chips[1]), SetPwmFreq(t, r), NEW q \in 0..7
  PROVE  Abs(pwm_freq[(IF r.nr = 0 THEN reg'.freq ELSE reg'.freq2) + 1] - Clock(r.val))
           <= Abs(pwm_freq[q + 1] - Clock(r.val))
<1>1. r.val \in Int
  BY RequestFacts
<1>2. PICK v \in 0..7 : v = FreqIndex(r.val)
  BY FrequencyType
<1>3. (IF r.nr = 0 THEN reg'.freq ELSE reg'.freq2) = v
  <2>1. IF r.nr = 0 THEN reg' = [reg EXCEPT !.freq = v] ELSE reg' = [reg EXCEPT !.freq2 = v]
    BY <1>2 DEF SetPwmFreq
  <2> QED BY <2>1, TypesNow, RegisterTypes
<1> QED BY <1>1, <1>2, <1>3, NearestFrequency

\* What a setter leaves in the register is, of all it could hold, nearest to what was
\* asked.
THEOREM SettingsAreNearest == DriverSpec => NearestSetting
<1> DEFINE FanNearest(t) ==
             LET n == th[t].nr
             IN IF Wide THEN NearestSpeed(LimitReg(reg', n), th[t].rpm, 2, 65534)
                ELSE NearestSpeed(reg'.low[n], th[t].rpm, 2 ^ reg.div[n], 254)
           InNearest(r) ==
             \A q \in 0..255 :
               Abs(reg'.vin[r.nr] * Lsb(r.nr) - r.val * 10) <= Abs(q * Lsb(r.nr) - r.val * 10)
           TempNearest(r) ==
             \A q \in -128..127 : Abs(reg'.temp[r.nr] * 1000 - r.val) <= Abs(q * 1000 - r.val)
           FreqNearest(r) ==
             LET Error(q) == Abs(pwm_freq[q + 1] - Clock(r.val))
             IN \A q \in 0..7 : Error(IF r.nr = 0 THEN reg'.freq ELSE reg'.freq2) <= Error(q)
           Nearest ==
             \A t \in Thread :
               /\ Finishes(t, "fan") /\ th[t].rpm >= 0 => FanNearest(t)
               /\ \A r \in Use(sys.chips[1]) :
                    /\ SetIn(t, r) => InNearest(r)
                    /\ SetTemp(t, r) => TempNearest(r)
                    /\ SetPwmFreq(t, r) => FreqNearest(r)
<1>1. ASSUME DriverInv, [DriverNext]_allVars PROVE Nearest
  <2>1. ASSUME NEW t \in Thread, Finishes(t, "fan"), th[t].rpm >= 0
        PROVE  FanNearest(t)
    BY <1>1, <2>1, FanEnds
  <2>2. ASSUME NEW t \in Thread, NEW r \in Use(sys.chips[1]), SetIn(t, r)
        PROVE  InNearest(r)
    BY <1>1, <2>2, VoltageSet, SMTT(40)
  <2>3. ASSUME NEW t \in Thread, NEW r \in Use(sys.chips[1]), SetTemp(t, r)
        PROVE  TempNearest(r)
    BY <1>1, <2>3, TemperatureSet, SMTT(30)
  <2>4. ASSUME NEW t \in Thread, NEW r \in Use(sys.chips[1]), SetPwmFreq(t, r)
        PROVE  FreqNearest(r)
    BY <1>1, <2>4, FrequencySet
  <2> HIDE DEF FanNearest, InNearest, TempNearest, FreqNearest
  <2> QED BY <2>1, <2>2, <2>3, <2>4, Zenon
<1> HIDE DEF Nearest
<1>2. DriverInv /\ [DriverNext]_allVars => [Nearest]_allVars
  BY <1>1, Zenon
<1>3. DriverSpec => [][Nearest]_allVars
  BY <1>2, DriverInvariant, PTL DEF DriverSpec
<1> QED BY <1>3 DEF NearestSetting, Nearest
-----------------------------------------------------------------------------
\* The variables of the driver in use have the types DriverTypeOK gives them, and
\* the lock is held by just the thread in a handler that takes it.
THEOREM DriverTypeCorrect == DriverSpec => []DriverTypeOK
<1>1. ASSUME DriverInv, TypeOK PROVE DriverTypeOK
  <2>1. SensorTypes /\ HandlersInv
    BY <1>1 DEF DriverInv
  <2>2. \A n \in Fan : fan[n] \in Nat /\ fan[n] <= 65535
    BY <2>1 DEF SensorTypes, Word
  <2>3. cache.div \in [0..2 -> 0..7] /\ {cache.freq, cache.freq2} \subseteq 0..7
    BY <2>1 DEF SensorTypes, Cached
  <2>4. {valid, recent, seen} \subseteq BOOLEAN /\ typed \subseteq Temp
    BY <2>1, Zenon DEF SensorTypes
  <2>5. reg \in Registers /\ update_lock \in Thread \union {NoThread}
    BY <2>1 DEF SensorTypes
  <2>6. \A t \in Thread : update_lock = t <=> th[t].op \in {"update", "fan", "div"}
    BY <2>1 DEF HandlersInv, Locking
  <2> QED BY <1>1, <2>2, <2>3, <2>4, <2>5, <2>6, SMT DEF DriverTypeOK
<1>2. DriverSpec => []TypeOK
  BY DriverLoads, LoadTypeCorrect, PTL
<1> QED BY <1>1, <1>2, DriverInvariant, PTL
=============================================================================
