------------------------- MODULE MiconProgramsProofs -------------------------
(***************************************************************************)
(* Proofs about MiconPrograms: its types, FanFollows, StartupTakesEffect   *)
(* and EndsBootFirst, for any number of retries, any micon_fan.conf and    *)
(* any temperatures.                                                       *)
(***************************************************************************)
EXTENDS MiconPrograms, TLAPS

\* While the daemon runs it has at most one call to make, which sets the speed it has
\* noted; the speed is the microcontroller's as soon as the command is executed once.
DaemonInv ==
  prog = "daemon" =>
    /\ todo \in {<<>>, setMiconPWM(pwm)}
    /\ (todo = <<>> /\ ~missed) \/ (todo # <<>> /\ times > 0) => mcu.fan = Speed(pwm)
    /\ temp # NoTemp => pwm = Target(temp)

\* The duty cycle the daemon aims at is between the two configured ones.
LEMMA TargetRange ==
  ASSUME NEW t \in Temps
  PROVE  Target(t) \in Duty
<1> DEFINE c == MaxPWM - MinPWM
           d == t - MinTemp
           n == MaxTemp - MinTemp
           q == (c * d) \div n
<1>1. /\ MinPWM \in Int /\ MaxPWM \in Int /\ MinTemp \in Int /\ MaxTemp \in Int
      /\ t \in Int
  BY ConfigAssumption
<1>2. CASE t >= MaxTemp \/ t <= MinTemp
  BY <1>1, <1>2 DEF Target, Duty
<1>3. CASE ~(t >= MaxTemp \/ t <= MinTemp)
  <2>1. c \in Int /\ d \in Int /\ n \in Int /\ 0 < d /\ d < n
    BY <1>1, <1>3
  <2>2. Target(t) = IF t \in Short /\ MinPWM # MaxPWM /\ (c * d) % n = 0
                    THEN MinPWM + q - 1 ELSE MinPWM + q
    BY <1>1, <1>3, <2>1 DEF Target, Ramp
  <2>3. MinPWM + c = MaxPWM /\ (MinPWM # MaxPWM <=> c # 0)
    BY <1>1
  <2> HIDE DEF c, d, n, q
  <2>4. c * d \in Int /\ c * n \in Int
    BY <2>1
  \* Rounding down stays between 0 and c; one less too where nothing is rounded.
  <2>5. /\ q \in Int /\ q * n <= c * d /\ c * d < (q + 1) * n
        /\ (c * d) % n = 0 => q * n = c * d
    BY <2>1, <2>4 DEF q
  <2>6. CASE c >= 0
    <3>1. 0 <= c * d /\ c * d <= c * n /\ (c # 0 => 0 < c * d)
      BY <2>1, <2>6
    <3>2. 0 <= q
      BY <2>1, <2>4, <2>5, <3>1
    <3>3. q <= c
      BY <2>1, <2>4, <2>5, <3>1
    <3>4. (c * d) % n = 0 /\ c # 0 => 1 <= q
      BY <2>1, <2>4, <2>5, <3>1, <3>2
    <3> QED BY <1>1, <2>1, <2>2, <2>3, <2>5, <3>2, <3>3, <3>4 DEF Duty
  <2>7. CASE c < 0
    <3>1. c * n < c * d /\ c * d < 0
      BY <2>1, <2>7
    <3>2. q <= 0
      BY <2>1, <2>4, <2>5, <3>1
    <3>3. c <= q
      BY <2>1, <2>4, <2>5, <3>1
    <3>4. (c * d) % n = 0 => c <= q - 1
      BY <2>1, <2>4, <2>5, <3>1, <3>3
    <3> QED BY <1>1, <2>1, <2>2, <2>3, <2>5, <3>2, <3>3, <3>4 DEF Duty
  <2> QED BY <2>1, <2>6, <2>7
<1> QED BY <1>2, <1>3

LEMMA SpeedRange ==
  ASSUME NEW value \in Duty
  PROVE  Speed(value) \in 0..100
<1>1. value \in 0..100
  BY ConfigAssumption DEF Duty
<1>2. Level(value) \in 0..100
  BY <1>1 DEF Level
<1> QED BY <1>1, <1>2 DEF Speed

\* A call that sets the speed is a call, and not a read.
LEMMA FanCall ==
  ASSUME NEW value \in Duty
  PROVE  /\ setMiconPWM(value) \in Seq(Call) /\ setMiconPWM(value) # <<>>
         /\ Head(setMiconPWM(value)) = Write("fan", Speed(value))
         /\ Tail(setMiconPWM(value)) = <<>>
<1>1. Write("fan", Speed(value)) \in Call
  BY SpeedRange DEF Write, Call
<1> QED BY <1>1 DEF setMiconPWM
-----------------------------------------------------------------------------
(* Types.                                                                  *)

\* The calls the programs are made of
LEMMA CallTypes ==
  /\ \A at \in {"version", "cpu", "blink", "onoff"} : Read(at) \in Call
  /\ \A at \in {"cpu", "blink", "onoff"}, mask \in SUBSET Bit :
       SetBits(at, mask) \in Call /\ ClearBits(at, mask) \in Call
  /\ \A lamp \in Lamp : SetBits("lamps", {lamp}) \in Call /\ ClearBits("lamps", {lamp}) \in Call
  /\ \A at \in {"cpu", "onoff"}, val \in SUBSET Bit : Write(at, val) \in Call
  /\ \A at \in {"boot_end", "console", "lcd", "hdd_on", "watchdog", "shutdown_wait",
                "power_state", "power_off", "reboot", "ups_linefail_on"} : Command(at) \in Call
  BY DEF Read, SetBits, ClearBits, Write, Command, Call

LEMMA LedCalls ==
  ASSUME NEW mode, NEW led \in SUBSET Bit
  PROVE  cmd_set_led(mode, led) \in Seq(Call) /\ set_lcd_color(led) \in Seq(Call)
<1>1. {"red", "green", "blue"} \in SUBSET Bit
  BY DEF Bit
<1>2. /\ \A at \in {"cpu", "blink", "onoff"} :
           Read(at) \in Call /\ SetBits(at, led) \in Call /\ ClearBits(at, led) \in Call
      /\ Write("cpu", {"red", "green", "blue"}) \in Call /\ Write("onoff", led) \in Call
  BY <1>1, CallTypes
<1> QED BY <1>2 DEF cmd_set_led, set_lcd_color

LEMMA LampCalls ==
  ASSUME NEW lamp \in Lamp, NEW on \in BOOLEAN
  PROVE  set_led(lamp, on) \in Seq(Call)
<1>1. SetBits("lamps", {lamp}) \in Call /\ ClearBits("lamps", {lamp}) \in Call
  BY CallTypes
<1> QED BY <1>1 DEF set_led

LEMMA Concatenation == \A s, t \in Seq(Call) : s \o t \in Seq(Call)
  OBVIOUS

LEMMA StartupCalls == micon_startup \in Seq(Call)
<1>1. CASE ver = 2
  <2>1. /\ cmd_set_led("OFF", {"red", "green", "blue", "bay"}) \in Seq(Call)
        /\ cmd_set_led("ON", {"power"}) \in Seq(Call)
        /\ set_lcd_color(LCD_COLOR_GREEN) \in Seq(Call)
    BY LedCalls DEF Bit, LCD_COLOR_GREEN
  <2>2. /\ Read("version") \in Call /\ Command("boot_end") \in Call
        /\ Command("console") \in Call /\ lcd \in Call
    BY CallTypes DEF lcd
  <2>3. /\ <<Read("version"), Command("boot_end"), Command("console"), Command("console")>>
             \in Seq(Call)
        /\ <<lcd, lcd, lcd, lcd>> \in Seq(Call)
        /\ (IF model # "HTGL" THEN set_lcd_color(LCD_COLOR_GREEN) ELSE <<>>) \in Seq(Call)
    BY <2>1, <2>2
  <2> QED BY <1>1, <2>1, <2>3 DEF micon_startup
<1>2. CASE ver # 2
  <2>1. \A lamp \in {0, 1, 2, 3, 4, 5, 6}, on \in {TRUE, FALSE} : set_led(lamp, on) \in Seq(Call)
    <3>1. \A lamp \in {0, 1, 2, 3, 4, 5, 6} : lamp \in Lamp
      BY DEF Lamp
    <3> QED BY <3>1, LampCalls
  <2>2. Command("boot_end") \in Call /\ lcd \in Call /\ Command("hdd_on") \in Call
    BY CallTypes DEF lcd
  <2>3. /\ <<Command("boot_end")>> \in Seq(Call) /\ <<lcd, lcd>> \in Seq(Call)
        /\ [i \in 1..8 |-> Command("hdd_on")] \in Seq(Call)
    BY <2>2
  <2> DEFINE first == <<Command("boot_end")>> \o set_led(3, TRUE) \o set_led(4, TRUE)
                         \o set_led(5, FALSE) \o <<lcd, lcd>> \o [i \in 1..8 |-> Command("hdd_on")]
  <2>4. /\ set_led(3, TRUE) \in Seq(Call) /\ set_led(4, TRUE) \in Seq(Call)
        /\ set_led(5, FALSE) \in Seq(Call) /\ set_led(0, FALSE) \in Seq(Call)
        /\ set_led(1, FALSE) \in Seq(Call) /\ set_led(2, FALSE) \in Seq(Call)
        /\ set_led(6, FALSE) \in Seq(Call) /\ set_led(0, TRUE) \in Seq(Call)
    BY <2>1, Zenon
  <2>5. first \in Seq(Call)
    BY <2>3, <2>4, Concatenation, Zenon
  <2>6. first \o set_led(0, FALSE) \o set_led(1, FALSE) \o set_led(2, FALSE)
          \o set_led(6, FALSE) \o set_led(0, TRUE) \in Seq(Call)
    <3> HIDE DEF first
    <3> QED BY <2>4, <2>5, Concatenation, Zenon
  <2> QED BY <1>2, <2>6 DEF micon_startup
<1> QED BY <1>1, <1>2

LEMMA ShutdownCalls ==
  ASSUME NEW halt \in BOOLEAN
  PROVE  micon_shutdown(halt) \in Seq(Call)
<1>1. /\ lcd \in Call /\ Read("version") \in Call
      /\ \A at \in {"boot_end", "watchdog", "shutdown_wait", "power_state", "power_off",
                    "reboot", "ups_linefail_on"} : Command(at) \in Call
  BY CallTypes DEF lcd
<1>2. cmd_set_led("OFF", {"red", "green", "blue"}) \in Seq(Call)
  BY LedCalls DEF Bit
<1>3. /\ <<lcd, lcd, lcd>> \in Seq(Call) /\ <<Command("power_state")>> \in Seq(Call)
      /\ <<Command("power_state"), Command("reboot")>> \in Seq(Call)
      /\ <<Command("ups_linefail_on")>> \in Seq(Call) /\ <<Command("power_off")>> \in Seq(Call)
      /\ <<>> \in Seq(Call)
  BY <1>1
<1>4. Halt \in Seq(Call) /\ Restart \in Seq(Call)
  BY <1>1, <1>2, <1>3 DEF Halt, Restart
<1>5. CASE ver = 2
  <2>1. <<Read("version"), Command("watchdog"), Command("boot_end"), Command("shutdown_wait")>>
          \in Seq(Call)
    BY <1>1
  <2> QED BY <1>4, <1>5, <2>1 DEF micon_shutdown
<1>6. CASE ver # 2
  <2>1. \A i \in 1..16 : ClearBits("lamps", {i - 1}) \in Call
    <3>1. \A i \in 1..16 : i - 1 \in Lamp
      BY DEF Lamp
    <3> QED BY <3>1, CallTypes
  <2>2. /\ [i \in 1..16 |-> ClearBits("lamps", {i - 1})] \in Seq(Call)
        /\ <<lcd, Command(IF halt THEN "power_off" ELSE "reboot")>> \in Seq(Call)
    BY <1>1, <2>1
  <2> QED BY <1>6, <2>2 DEF micon_shutdown
<1> QED BY <1>5, <1>6

LEMMA BootedType == \A toggled \in BOOLEAN : Booted(toggled) \subseteq Mcu
<1>1. Bare \in Mcu
  BY DEF Bare, Mcu, Bit, Lamp
<1>2. Prepared \in Mcu
  BY DEF Prepared, Mcu, Bit, Lamp
<1> QED BY <1>1, <1>2 DEF Booted, Mcu

\* What a command does to the microcontroller keeps its type, and a command that is
\* not about the fan leaves the fan alone.
LEMMA ObeyType ==
  ASSUME TypeOK, NEW call \in Call, call.op # "read"
  PROVE  /\ Obey(call) \in Mcu
         /\ call.at = "fan" /\ call.op = "write" => Obey(call).fan = call.val
<1> mcu \in Mcu /\ word \in SUBSET Bit
  BY DEF TypeOK
<1>1. CASE call.op \in {"set", "clear"} /\ call.at \in {"cpu", "blink", "onoff"}
  <2>1. Value(call) \in SUBSET Bit
    BY <1>1 DEF Value, Call
  <2>2. Obey(call) = [mcu EXCEPT ![call.at] = Value(call)]
    BY <1>1 DEF Obey
  <2> QED BY <1>1, <2>1, <2>2 DEF Mcu
<1>2. CASE call.at = "lamps"
  <2>1. NewLamps(call) \in SUBSET Lamp
    BY <1>2 DEF NewLamps, Call, Mcu
  <2> QED BY <1>2, <2>1 DEF Obey, Mcu
<1>3. CASE call.op = "write" /\ call.at \in {"cpu", "onoff"}
  <2>1. Value(call) \in SUBSET Bit
    BY <1>3 DEF Value, Call
  <2>2. Obey(call) = [mcu EXCEPT ![call.at] = Value(call)]
    BY <1>3 DEF Obey
  <2> QED BY <1>3, <2>1, <2>2 DEF Mcu
<1>4. CASE call.op = "write" /\ call.at = "fan"
  <2>1. Value(call) = call.val /\ call.val \in 0..100
    BY <1>4 DEF Value, Call
  <2>2. Obey(call) = [mcu EXCEPT !.fan = Value(call)]
    BY <1>4 DEF Obey
  <2> QED BY <1>4, <2>1, <2>2 DEF Mcu
<1>5. CASE call.at \notin {"cpu", "blink", "onoff", "fan", "lamps"}
  <2>1. CASE call.at \in {"boot_end", "console"}
    BY <1>5, <2>1 DEF Obey, Mcu
  <2>2. CASE call.at \in {"power_off", "reboot"}
    BY <1>5, <2>2 DEF Obey, Mcu
  <2>3. CASE call.at \notin {"boot_end", "console", "power_off", "reboot"}
    BY <1>5, <2>3 DEF Obey
  <2> QED BY <2>1, <2>2, <2>3, <1>5
<1> QED BY <1>1, <1>2, <1>3, <1>4, <1>5 DEF Call

IInv == TypeOK /\ DaemonInv

LEMMA InitIInv == Init => IInv
<1> SUFFICES ASSUME Init PROVE IInv
  OBVIOUS
<1>1. mcu \in Mcu
  BY BootedType DEF Init
<1>2. pwm \in Duty
  BY ConfigAssumption DEF Init, Duty
<1>3. times \in 0..RetryCount
  BY RetryAssumption DEF Init
<1>4. TypeOK
  BY <1>1, <1>2, <1>3, StartupCalls DEF Init, TypeOK
<1>5. DaemonInv
  BY DEF Init, DaemonInv
<1> QED BY <1>4, <1>5 DEF IInv

LEMMA Step == IInv /\ [Next]_vars => IInv'
<1> SUFFICES ASSUME IInv, [Next]_vars PROVE IInv'
  OBVIOUS
<1> TypeOK /\ DaemonInv
  BY DEF IInv
<1> DEFINE call == Head(todo)
<1>b. todo # <<>> => call \in Call /\ Tail(todo) \in Seq(Call)
  BY DEF TypeOK
<1>a. MinPWM \in Duty /\ NoTemp \notin Temps /\ 0 \in 0..RetryCount
  BY ConfigAssumption, RetryAssumption DEF NoTemp, Duty
\* What the daemon is about to send
<1>c. prog = "daemon" /\ todo # <<>> =>
        call = Write("fan", Speed(pwm)) /\ Tail(todo) = <<>>
  BY FanCall DEF DaemonInv, TypeOK
<1>1. CASE Executed
  <2>1. mcu' \in Mcu
    BY <1>b, <1>1, ObeyType DEF Executed
  <2>2. times' \in 0..RetryCount
    BY <1>1, RetryAssumption DEF Executed, TypeOK
  <2>3. TypeOK'
    BY <1>1, <2>1, <2>2 DEF Executed, TypeOK
  <2>4. prog = "daemon" => mcu'.fan = Speed(pwm)
    BY <1>b, <1>1, <1>c, ObeyType DEF Executed, Write
  <2>5. DaemonInv'
    BY <1>1, <2>4 DEF Executed, DaemonInv, Speed, Level, Target, Ramp, setMiconPWM
  <2> QED BY <2>3, <2>5 DEF IInv
<1>2. CASE WriteReturns
  <2>1. missed' \in BOOLEAN
    BY <1>2 DEF WriteReturns
  <2>2. TypeOK'
    BY <1>b, <1>a, <1>2, <2>1 DEF WriteReturns, TypeOK
  <2>3. prog = "daemon" /\ ~missed' => times > 0
    <3>1. prog = "daemon" /\ ~missed' => times # 0
      BY <1>2, Zenon DEF WriteReturns
    <3> QED BY <3>1, RetryAssumption DEF TypeOK
  <2>4. DaemonInv'
    BY <1>2, <1>c, <2>3 DEF WriteReturns, DaemonInv, Speed, Level, Target, Ramp
  <2> QED BY <2>2, <2>4 DEF IInv
<1>3. CASE ReadReturns
  <2>1. prog # "daemon"
    BY <1>3, <1>c DEF ReadReturns, Write
  <2>2. word' \in SUBSET Bit
    BY <1>b, <1>3 DEF ReadReturns, TypeOK, Call, Mcu
  <2>3. TypeOK'
    BY <1>b, <1>3, <2>2 DEF ReadReturns, TypeOK
  <2> QED BY <1>3, <2>1, <2>3 DEF ReadReturns, IInv, DaemonInv
<1>4. CASE ReadFails
  <2>1. prog # "daemon"
    BY <1>4, <1>c DEF ReadFails, Write
  <2>2. TypeOK'
    BY <1>4 DEF ReadFails, TypeOK
  <2> QED BY <1>4, <2>1, <2>2 DEF ReadFails, IInv, DaemonInv
<1>5. CASE StartDaemon
  <2>1. todo' \in Seq(Call) /\ todo' # <<>>
    BY <1>a, <1>5, FanCall DEF StartDaemon, Start
  <2>2. done' \in BOOLEAN
    BY <1>5 DEF StartDaemon, TypeOK
  <2>3. TypeOK'
    BY <1>a, <1>5, <2>1, <2>2 DEF StartDaemon, Start, TypeOK
  <2>4. todo' = setMiconPWM(MinPWM) /\ pwm' = MinPWM /\ temp' = NoTemp /\ times' = 0
    BY <1>5 DEF StartDaemon, Start
  <2>5. setMiconPWM(pwm)' = setMiconPWM(MinPWM)
    BY <1>5 DEF StartDaemon, setMiconPWM, Speed, Level
  <2>6. DaemonInv'
    BY <2>1, <2>4, <2>5 DEF DaemonInv
  <2> QED BY <2>3, <2>6 DEF IInv
<1>6. ASSUME NEW t \in Temps, Measure(t)
      PROVE  IInv'
  <2>1. pwm' = Target(t) /\ temp' = t /\ Target(t) \in Duty
    BY <1>6, TargetRange DEF Measure
  <2>2. prog = "daemon" /\ todo = <<>> /\ prog' = "daemon" /\ UNCHANGED <<ver, mcu, model, done>>
    BY <1>6 DEF Measure, Start
  <2>3. Speed(pwm)' = Speed(Target(t)) /\ Target(temp)' = Target(t)
    BY <2>1, <2>2 DEF Speed, Level, Target, Ramp
  <2>4. CASE HasChanged(pwm, Target(t))
    <3>1. todo' = setMiconPWM(Target(t)) /\ times' = 0 /\ word' = {} /\ missed' = FALSE
      BY <1>6, <2>4 DEF Measure, Start
    <3>2. todo' \in Seq(Call) /\ todo' # <<>>
      BY <2>1, <3>1, FanCall
    <3>3. TypeOK'
      BY <1>a, <2>1, <2>2, <3>1, <3>2 DEF TypeOK
    <3>4. setMiconPWM(pwm)' = setMiconPWM(Target(t))
      BY <2>3 DEF setMiconPWM
    <3>5. DaemonInv'
      BY <2>1, <2>3, <3>1, <3>2, <3>4 DEF DaemonInv
    <3> QED BY <3>3, <3>5 DEF IInv
  <2>5. CASE ~HasChanged(pwm, Target(t))
    <3>1. pwm' = pwm /\ UNCHANGED <<prog, todo, times, word, missed>>
      BY <1>6, <2>5 DEF Measure, HasChanged
    <3>2. TypeOK'
      BY <2>1, <2>2, <3>1 DEF TypeOK
    <3>3. Speed(pwm)' = Speed(pwm)
      BY <2>2, <3>1 DEF Speed, Level
    <3>4. DaemonInv'
      BY <2>1, <2>2, <2>3, <3>1, <3>3 DEF DaemonInv
    <3> QED BY <3>2, <3>4 DEF IInv
  <2> QED BY <2>4, <2>5
<1>7. ASSUME NEW halt \in BOOLEAN, Shutdown(halt)
      PROVE  IInv'
  <2>1. todo' \in Seq(Call) /\ prog' = "shutdown"
    BY <1>7, ShutdownCalls DEF Shutdown, Start
  <2>2. TypeOK'
    BY <1>a, <1>7, <2>1 DEF Shutdown, Start, TypeOK
  <2> QED BY <2>1, <2>2 DEF IInv, DaemonInv
<1>8. CASE Boot
  <2>1. todo' \in Seq(Call) /\ prog' = "startup"
    BY <1>8, StartupCalls DEF Boot, Start
  <2>2. mcu' \in Mcu
    BY <1>8, BootedType DEF Boot, TypeOK, Mcu
  <2>3. TypeOK'
    BY <1>a, <1>8, <2>1, <2>2 DEF Boot, Start, TypeOK
  <2> QED BY <2>1, <2>3 DEF IInv, DaemonInv
<1>9. CASE UNCHANGED vars
  <2>1. TypeOK'
    BY <1>9 DEF vars, TypeOK
  <2>2. DaemonInv'
    BY <1>9 DEF vars, DaemonInv, setMiconPWM, Speed, Level, Target, Ramp
  <2> QED BY <2>1, <2>2 DEF IInv
<1> QED BY <1>1, <1>2, <1>3, <1>4, <1>5, <1>6, <1>7, <1>8, <1>9 DEF Next
-----------------------------------------------------------------------------
(* What is left of a program.                                              *)

Elements(s) == {s[j] : j \in DOMAIN s}

\* Call c is among the calls of s and was not executed yet, the first one having been
\* executed m times.
Pending(s, m, c) == \E j \in DOMAIN s : s[j] = c /\ (j > 1 \/ m = 0)

\* Each call of X in s is followed by c; and c, by no x.
After(s, X, c) == \A j \in DOMAIN s : s[j] \in X => \E k \in DOMAIN s : k > j /\ s[k] = c
Never(s, c, x) == \A j, k \in DOMAIN s : s[j] = c /\ s[k] = x => k < j

\* All three are true of what is left when they are true of the whole.
LEMMA TailKeeps ==
  ASSUME NEW s \in Seq(Call), s # <<>>
  PROVE  /\ \A m, c : Pending(s, m, c) /\ (m # 0 \/ Head(s) # c) => Pending(Tail(s), 0, c)
         /\ \A X, c : After(s, X, c) => After(Tail(s), X, c)
         /\ \A c, x : Never(s, c, x) => Never(Tail(s), c, x)
         /\ \A x \in Elements(s) : x # Head(s) => x \in Elements(Tail(s))
         /\ \A X, c : After(s, X, c) /\ Head(s) \in X => c \in Elements(Tail(s))
<1>1. /\ Len(s) \in Nat /\ Len(s) > 0 /\ DOMAIN s = 1..Len(s) /\ Head(s) = s[1]
      /\ DOMAIN Tail(s) = 1..(Len(s) - 1)
      /\ \A j \in 1..(Len(s) - 1) : Tail(s)[j] = s[j + 1]
  OBVIOUS
<1> DEFINE r == Tail(s)
<1> HIDE DEF r
<1>2. \A j \in DOMAIN s : j # 1 => j - 1 \in DOMAIN r /\ r[j - 1] = s[j]
  BY <1>1 DEF r
<1>3. \A j \in DOMAIN r : j + 1 \in DOMAIN s /\ r[j] = s[j + 1]
  BY <1>1 DEF r
<1>4. DOMAIN s \subseteq Int /\ DOMAIN r \subseteq Int /\ 1 \in DOMAIN s /\ Head(s) = s[1]
      /\ \A j \in DOMAIN s : j >= 1
  BY <1>1 DEF r
<1>5. ASSUME NEW m, NEW c, Pending(s, m, c), m # 0 \/ Head(s) # c PROVE Pending(r, 0, c)
  <2>1. PICK j \in DOMAIN s : s[j] = c /\ j # 1
    BY <1>4, <1>5 DEF Pending
  <2> QED BY <1>2, <2>1 DEF Pending
<1>6. ASSUME NEW X, NEW c, After(s, X, c) PROVE After(r, X, c)
  <2>1. ASSUME NEW j \in DOMAIN r, r[j] \in X PROVE \E k \in DOMAIN r : k > j /\ r[k] = c
    <3>1. PICK k \in DOMAIN s : k > j + 1 /\ s[k] = c
      BY <1>3, <1>6, <2>1 DEF After
    <3>2. k - 1 \in DOMAIN r /\ r[k - 1] = c /\ k - 1 > j
      BY <1>2, <1>4, <2>1, <3>1
    <3> QED BY <3>2
  <2> QED BY <2>1 DEF After
<1>7. ASSUME NEW c, NEW x, Never(s, c, x) PROVE Never(r, c, x)
  <2>1. ASSUME NEW j \in DOMAIN r, NEW k \in DOMAIN r, r[j] = c, r[k] = x PROVE k < j
    <3>1. k + 1 < j + 1
      BY <1>3, <1>7, <2>1 DEF Never
    <3> QED BY <1>4, <3>1
  <2> QED BY <2>1 DEF Never
<1>8. ASSUME NEW x \in Elements(s), x # Head(s) PROVE x \in Elements(r)
  <2>1. PICK j \in DOMAIN s : s[j] = x /\ j # 1
    BY <1>4, <1>8 DEF Elements
  <2> QED BY <1>2, <2>1 DEF Elements
<1>9. ASSUME NEW X, NEW c, After(s, X, c), Head(s) \in X PROVE c \in Elements(r)
  <2>1. PICK j \in DOMAIN s : j > 1 /\ s[j] = c
    BY <1>4, <1>9 DEF After
  <2> QED BY <1>2, <1>4, <2>1 DEF Elements
<1> QED BY <1>5, <1>6, <1>7, <1>8, <1>9 DEF r

\* While the first call goes on, others stay pending; what follows it is.
LEMMA FirstGoesOn ==
  ASSUME NEW s \in Seq(Call), s # <<>>, NEW c, NEW n
  PROVE  /\ \A m : Pending(s, m, c) /\ Head(s) # c => Pending(s, n, c)
         /\ \A X : After(s, X, c) /\ Head(s) \in X => Pending(s, n, c)
<1>1. 1 \in DOMAIN s /\ Head(s) = s[1] /\ \A j \in DOMAIN s : j \in Int /\ j >= 1
  OBVIOUS
<1>2. ASSUME NEW m, Pending(s, m, c), Head(s) # c PROVE Pending(s, n, c)
  <2>1. PICK j \in DOMAIN s : s[j] = c /\ j # 1
    BY <1>1, <1>2 DEF Pending
  <2> QED BY <1>1, <2>1 DEF Pending
<1>3. ASSUME NEW X, After(s, X, c), Head(s) \in X PROVE Pending(s, n, c)
  <2>1. PICK j \in DOMAIN s : j > 1 /\ s[j] = c
    BY <1>1, <1>3 DEF After
  <2> QED BY <2>1 DEF Pending
<1> QED BY <1>2, <1>3

\* What is true of both parts is true of the calls of one after those of the other.
LEMMA Joined ==
  ASSUME NEW s \in Seq(Call), NEW t \in Seq(Call)
  PROVE  /\ s \o t \in Seq(Call)
         /\ Elements(s \o t) = Elements(s) \union Elements(t)
         /\ \A X, c : After(t, X, c) /\ (After(s, X, c) \/ c \in Elements(t)) => After(s \o t, X, c)
         /\ \A c, x : c \notin Elements(s) /\ Never(t, c, x) => Never(s \o t, c, x)
<1> DEFINE u == s \o t
           l == Len(s)
<1>1. /\ l \in Nat /\ Len(t) \in Nat /\ DOMAIN s = 1..l /\ DOMAIN t = 1..Len(t)
      /\ DOMAIN u = 1..(l + Len(t)) /\ u \in Seq(Call)
      /\ \A j \in 1..(l + Len(t)) : u[j] = IF j <= l THEN s[j] ELSE t[j - l]
  OBVIOUS
<1> HIDE DEF u, l
<1>2. \A j \in DOMAIN s : j \in DOMAIN u /\ u[j] = s[j] /\ j <= l
  BY <1>1
<1>3. \A j \in DOMAIN t : l + j \in DOMAIN u /\ u[l + j] = t[j] /\ l + j > l
  BY <1>1
<1>4. \A j \in DOMAIN u : j \in DOMAIN s \/ \E k \in DOMAIN t : j = l + k
  <2>1. ASSUME NEW j \in DOMAIN u, j \notin DOMAIN s PROVE \E k \in DOMAIN t : j = l + k
    <3>1. j - l \in DOMAIN t /\ j = l + (j - l)
      BY <1>1, <2>1
    <3> QED BY <3>1
  <2> QED BY <2>1
<1>5. Elements(u) = Elements(s) \union Elements(t)
  <2>1. \A j \in DOMAIN u : u[j] \in Elements(s) \union Elements(t)
    BY <1>2, <1>3, <1>4 DEF Elements
  <2>2. \A j \in DOMAIN s : s[j] \in Elements(u)
    BY <1>2 DEF Elements
  <2>3. \A j \in DOMAIN t : t[j] \in Elements(u)
    BY <1>3 DEF Elements
  <2> QED BY <2>1, <2>2, <2>3 DEF Elements
<1>6. ASSUME NEW X, NEW c, After(t, X, c), After(s, X, c) \/ c \in Elements(t)
      PROVE After(u, X, c)
  <2>1. ASSUME NEW j \in DOMAIN u, u[j] \in X PROVE \E k \in DOMAIN u : k > j /\ u[k] = c
    <3>1. CASE \E k \in DOMAIN t : j = l + k
      <4>1. PICK k \in DOMAIN t : j = l + k
        BY <3>1
      <4>2. PICK n \in DOMAIN t : n > k /\ t[n] = c
        BY <1>3, <1>6, <2>1, <4>1 DEF After
      <4>3. l + n > j
        BY <1>1, <4>1, <4>2
      <4> QED BY <1>3, <4>2, <4>3
    <3>2. CASE j \in DOMAIN s /\ c \in Elements(t)
      <4>1. PICK n \in DOMAIN t : t[n] = c
        BY <3>2 DEF Elements
      <4>2. l + n > j
        BY <1>1, <3>2, <4>1
      <4> QED BY <1>3, <4>1, <4>2
    <3>3. CASE j \in DOMAIN s /\ After(s, X, c)
      <4>1. PICK n \in DOMAIN s : n > j /\ s[n] = c
        BY <1>2, <2>1, <3>3 DEF After
      <4> QED BY <1>2, <4>1
    <3> QED BY <1>4, <1>6, <3>1, <3>2, <3>3
  <2> QED BY <2>1 DEF After
<1>7. ASSUME NEW c, NEW x, c \notin Elements(s), Never(t, c, x) PROVE Never(u, c, x)
  <2>1. ASSUME NEW j \in DOMAIN u, NEW k \in DOMAIN u, u[j] = c, u[k] = x PROVE k < j
    <3>1. PICK n \in DOMAIN t : j = l + n
      BY <1>2, <1>4, <1>7, <2>1 DEF Elements
    <3>2. t[n] = c
      BY <1>3, <2>1, <3>1
    <3>3. CASE k \in DOMAIN s
      BY <1>1, <3>1, <3>3
    <3>4. CASE \E o \in DOMAIN t : k = l + o
      <4>1. PICK o \in DOMAIN t : k = l + o
        BY <3>4
      <4>2. o < n
        BY <1>3, <1>7, <2>1, <3>2, <4>1 DEF Never
      <4> QED BY <1>1, <3>1, <4>1, <4>2
    <3> QED BY <1>4, <3>3, <3>4
  <2> QED BY <2>1 DEF Never
<1> QED BY <1>1, <1>5, <1>6, <1>7 DEF u
LEMMA JoinedFirst ==
  ASSUME NEW s \in Seq(Call), NEW t \in Seq(Call), NEW c, NEW x,
         Never(s, c, x), x \notin Elements(t)
  PROVE  Never(s \o t, c, x)
<1> DEFINE u == s \o t
           l == Len(s)
<1>1. /\ l \in Nat /\ Len(t) \in Nat /\ DOMAIN s = 1..l /\ DOMAIN t = 1..Len(t)
      /\ DOMAIN u = 1..(l + Len(t))
      /\ \A j \in 1..(l + Len(t)) : u[j] = IF j <= l THEN s[j] ELSE t[j - l]
  OBVIOUS
<1> HIDE DEF u, l
<1>2. ASSUME NEW j \in DOMAIN u, NEW k \in DOMAIN u, u[j] = c, u[k] = x
      PROVE  k < j
  <2>1. k <= l
    <3>1. ASSUME k > l PROVE FALSE
      <4>1. k - l \in DOMAIN t /\ t[k - l] = x
        BY <1>1, <1>2, <3>1
      <4> QED BY <4>1 DEF Elements
    <3> QED BY <1>1, <3>1
  <2>2. k \in DOMAIN s /\ s[k] = x
    BY <1>1, <1>2, <2>1
  <2>3. CASE j <= l
    <3>1. j \in DOMAIN s /\ s[j] = c
      BY <1>1, <1>2, <2>3
    <3> QED BY <2>2, <3>1 DEF Never
  <2>4. CASE ~(j <= l)
    BY <1>1, <2>1, <2>4
  <2> QED BY <2>3, <2>4
<1>3. Never(u, c, x)
  BY <1>2 DEF Never
<1> QED BY <1>3 DEF u
-----------------------------------------------------------------------------
(* What micon_startup.py asks for.                                         *)

CallsAt(w) == {c \in Call : c.at = w /\ c.op # "read"}
LedWord == {"cpu", "blink", "onoff"}

\* The last call at each of the LED words is about the power LED, and lit are the LEDs
\* that the call Base leaves lit of the others.
LastAt(w) ==
  IF w = "blink" THEN ClearBits("blink", {"power"}) ELSE SetBits(w, {"power"})
Base == IF model = "HTGL" THEN ClearBits("onoff", {"red", "green", "blue", "bay"})
        ELSE Write("onoff", {"green"})
Lit == IF model = "HTGL" THEN {} ELSE {"green"}
ReadOnoff == Read("onoff")

\* What is left of the program of version 2: the LED words are read before the last
\* call that changes them, and after Base.
PlanOfWords(s) ==
  /\ \A w \in LedWord : After(s, CallsAt(w) \ {LastAt(w)}, LastAt(w))
  /\ After(s, CallsAt("onoff") \ {Base, LastAt("onoff")}, Base)
  /\ After(s, ({c \in Call : c.op = "read"} \ {ReadOnoff}) \union {Base}, ReadOnoff)
  /\ Never(s, LastAt("onoff"), ReadOnoff)

\* And of version 3: no lamp is set against what is asked for it in the end.
LampOn == {0, 3, 4}
LastOf(l) == IF l \in LampOn THEN SetBits("lamps", {l}) ELSE ClearBits("lamps", {l})
Undo(l) == IF l \in LampOn THEN ClearBits("lamps", {l}) ELSE SetBits("lamps", {l})
PlanOfLamps(s) == \A l \in Lamp : After(s, {Undo(l)}, LastOf(l))

\* Nothing need follow calls that do not occur.
LEMMA NoneAfter ==
  ASSUME NEW s, NEW X, NEW c, Elements(s) \intersect X = {}
  PROVE  After(s, X, c)
  BY DEF Elements, After

\* The fields by which calls are told apart
LEMMA CallsDiffer ==
  ASSUME NEW a, NEW b
  PROVE  /\ Read(a).op = "read" /\ Read(a).at = a
         /\ SetBits(a, b).op = "set" /\ SetBits(a, b).at = a /\ SetBits(a, b).val = b
         /\ ClearBits(a, b).op = "clear" /\ ClearBits(a, b).at = a /\ ClearBits(a, b).val = b
         /\ Write(a, b).op = "write" /\ Write(a, b).at = a /\ Write(a, b).val = b
         /\ Command(a).op = "write" /\ Command(a).at = a
  BY DEF Read, SetBits, ClearBits, Write, Command

\* cmd_set_led, call by call
LEMMA LedElements ==
  ASSUME NEW mode \in {"ON", "OFF"}, NEW led \in SUBSET Bit
  PROVE  LET last == IF mode = "OFF" THEN ClearBits("onoff", led) ELSE SetBits("onoff", led)
             s == cmd_set_led(mode, led)
         IN /\ s \in Seq(Call)
            /\ DOMAIN s = 1..6
            /\ s[1] = Read("cpu") /\ s[2] = SetBits("cpu", led) /\ s[3] = Read("blink")
            /\ s[4] = ClearBits("blink", led) /\ s[5] = Read("onoff") /\ s[6] = last
            /\ Elements(s) = {Read("cpu"), SetBits("cpu", led), Read("blink"),
                              ClearBits("blink", led), Read("onoff"), last}
<1> DEFINE last == IF mode = "OFF" THEN ClearBits("onoff", led) ELSE SetBits("onoff", led)
           s == cmd_set_led(mode, led)
<1>1. s \in Seq(Call)
  BY LedCalls
<1>2. s = <<Read("cpu"), SetBits("cpu", led), Read("blink"), ClearBits("blink", led),
            Read("onoff"), last>>
  BY DEF cmd_set_led
<1> HIDE DEF last, s
<1>3. /\ DOMAIN s = 1..6
      /\ s[1] = Read("cpu") /\ s[2] = SetBits("cpu", led) /\ s[3] = Read("blink")
      /\ s[4] = ClearBits("blink", led) /\ s[5] = Read("onoff") /\ s[6] = last
  BY <1>2
<1>4. \A j \in DOMAIN s : j = 1 \/ j = 2 \/ j = 3 \/ j = 4 \/ j = 5 \/ j = 6
  BY <1>3
<1>5. 1 \in DOMAIN s /\ 2 \in DOMAIN s /\ 3 \in DOMAIN s /\ 4 \in DOMAIN s
      /\ 5 \in DOMAIN s /\ 6 \in DOMAIN s
  BY <1>3
<1>6. Elements(s) = {Read("cpu"), SetBits("cpu", led), Read("blink"),
                     ClearBits("blink", led), Read("onoff"), last}
  <2>1. ASSUME NEW j \in DOMAIN s
        PROVE  s[j] \in {Read("cpu"), SetBits("cpu", led), Read("blink"),
                         ClearBits("blink", led), Read("onoff"), last}
    BY <1>3, <1>4
  <2>2. {s[1], s[2], s[3], s[4], s[5], s[6]} \subseteq Elements(s)
    BY <1>5, Zenon DEF Elements
  <2>3. Elements(s) \subseteq {Read("cpu"), SetBits("cpu", led), Read("blink"),
                               ClearBits("blink", led), Read("onoff"), last}
    BY <2>1, Zenon DEF Elements
  <2> QED BY <1>3, <2>2, <2>3
<1> QED BY <1>1, <1>3, <1>6 DEF s, last

\* The program's last six calls turn the power LED on.
LEMMA PowerLed ==
  LET q == cmd_set_led("ON", {"power"})
  IN /\ q \in Seq(Call)
     /\ Elements(q) = {Read("cpu"), LastAt("cpu"), Read("blink"), LastAt("blink"),
                       ReadOnoff, LastAt("onoff")}
     /\ PlanOfWords(q)
<1> DEFINE q == cmd_set_led("ON", {"power"})
<1>1. {"power"} \in SUBSET Bit
  BY DEF Bit
<1>2. /\ q \in Seq(Call) /\ DOMAIN q = 1..6
      /\ q[1] = Read("cpu") /\ q[2] = LastAt("cpu") /\ q[3] = Read("blink")
      /\ q[4] = LastAt("blink") /\ q[5] = ReadOnoff /\ q[6] = LastAt("onoff")
      /\ Elements(q) = {Read("cpu"), LastAt("cpu"), Read("blink"), LastAt("blink"),
                        ReadOnoff, LastAt("onoff")}
  BY <1>1, LedElements DEF LastAt, ReadOnoff
<1> HIDE DEF q
<1>3. /\ \A w \in LedWord : LastAt(w).at = w /\ LastAt(w).op # "read"
      /\ ReadOnoff.at = "onoff" /\ ReadOnoff.op = "read"
      /\ Base.at = "onoff" /\ Base.op # "read" /\ Base # LastAt("onoff")
      /\ \A w : Read(w).op = "read" /\ Read(w).at = w
  <2>1. Base # LastAt("onoff")
    BY CallsDiffer DEF Base, LastAt
  <2> QED BY <2>1, CallsDiffer DEF LedWord, LastAt, ReadOnoff, Base
<1>4. \A w \in LedWord : After(q, CallsAt(w) \ {LastAt(w)}, LastAt(w))
  BY <1>2, <1>3, NoneAfter DEF CallsAt, LedWord
<1>5. After(q, CallsAt("onoff") \ {Base, LastAt("onoff")}, Base)
  BY <1>2, <1>3, NoneAfter DEF CallsAt, LedWord
<1>6. After(q, ({c \in Call : c.op = "read"} \ {ReadOnoff}) \union {Base}, ReadOnoff)
  <2>1. ASSUME NEW j \in DOMAIN q,
               q[j] \in ({c \in Call : c.op = "read"} \ {ReadOnoff}) \union {Base}
        PROVE  j < 5
    BY <1>2, <1>3, <2>1 DEF LedWord
  <2>2. 5 \in DOMAIN q
    BY <1>2
  <2> QED BY <1>2, <2>1, <2>2 DEF After
<1>7. Never(q, LastAt("onoff"), ReadOnoff)
  <2>1. ASSUME NEW j \in DOMAIN q, q[j] = LastAt("onoff") PROVE j = 6
    BY <1>2, <1>3, <2>1 DEF LedWord
  <2>2. ASSUME NEW j \in DOMAIN q, q[j] = ReadOnoff PROVE j < 6
    BY <1>2, <1>3, <2>2 DEF LedWord
  <2> QED BY <2>1, <2>2 DEF Never
<1> QED BY <1>2, <1>4, <1>5, <1>6, <1>7 DEF PlanOfWords, q

\* Every command of micon_startup.py that matters is among its calls, and none undoes
\* one that has come before for good.
LEMMA StartupWords ==
  ASSUME ver = 2
  PROVE  /\ PlanOfWords(micon_startup)
         /\ {Command("boot_end"), Base, LastAt("cpu"), LastAt("blink"), LastAt("onoff")}
              \subseteq Elements(micon_startup)
<1> DEFINE a == <<Read("version"), Command("boot_end"), Command("console"), Command("console")>>
           o == cmd_set_led("OFF", {"red", "green", "blue", "bay"})
           l == <<lcd, lcd, lcd, lcd>>
           g == IF model # "HTGL" THEN set_lcd_color(LCD_COLOR_GREEN) ELSE <<>>
           q == cmd_set_led("ON", {"power"})
           others == CallsAt("onoff") \ {Base, LastAt("onoff")}
<1>0. /\ Read("version").at = "version" /\ Command("boot_end").at = "boot_end"
      /\ Command("console").at = "console" /\ lcd.at = "lcd"
  BY CallsDiffer DEF lcd
<1>1. micon_startup = (((a \o o) \o l) \o g) \o q
  BY DEF micon_startup
<1>2. /\ a \in Seq(Call)
      /\ Elements(a) = {Read("version"), Command("boot_end"), Command("console")}
  <2>1. /\ Read("version") \in Call /\ Command("boot_end") \in Call /\ Command("console") \in Call
    BY CallTypes
  <2>2. DOMAIN a = 1..4 /\ \A j \in 1..4 : j = 1 \/ j = 2 \/ j = 3 \/ j = 4
    OBVIOUS
  <2>3. a[1] = Read("version") /\ a[2] = Command("boot_end") /\ a[3] = Command("console")
        /\ a[4] = Command("console")
    OBVIOUS
  <2>4. a \in Seq(Call)
    BY <2>1
  <2> HIDE DEF a
  <2>5. 1 \in DOMAIN a /\ 2 \in DOMAIN a /\ 3 \in DOMAIN a
    BY <2>2
  <2>6. {a[1], a[2], a[3]} \subseteq Elements(a)
    BY <2>5, Zenon DEF Elements
  <2>7. \A j \in DOMAIN a : a[j] \in {Read("version"), Command("boot_end"), Command("console")}
    BY <2>2, <2>3
  <2>8. Elements(a) \subseteq {Read("version"), Command("boot_end"), Command("console")}
    BY <2>7, Zenon DEF Elements
  <2> QED BY <2>3, <2>4, <2>6, <2>8
<1>3. {"red", "green", "blue", "bay"} \in SUBSET Bit
  BY DEF Bit
<1>4. /\ o \in Seq(Call)
      /\ Elements(o) = {Read("cpu"), SetBits("cpu", {"red", "green", "blue", "bay"}), Read("blink"),
                        ClearBits("blink", {"red", "green", "blue", "bay"}), Read("onoff"),
                        ClearBits("onoff", {"red", "green", "blue", "bay"})}
  BY <1>3, LedElements
<1>5. l \in Seq(Call) /\ Elements(l) = {lcd}
  <2>1. lcd \in Call
    BY CallTypes DEF lcd
  <2>2. l \in Seq(Call) /\ DOMAIN l = 1..4 /\ \A j \in 1..4 : l[j] = lcd
    BY <2>1
  <2>3. 1 \in DOMAIN l /\ \A j \in DOMAIN l : l[j] = lcd
    BY <2>2
  <2> QED BY <2>2, <2>3 DEF Elements
<1>6. /\ g \in Seq(Call)
      /\ Elements(g) = IF model = "HTGL" THEN {} ELSE {Write("cpu", {"red", "green", "blue"}), Base}
  <2>1. CASE model = "HTGL"
    <3>1. g = <<>>
      BY <2>1
    <3>2. <<>> \in Seq(Call) /\ DOMAIN <<>> = {}
      OBVIOUS
    <3> QED BY <2>1, <3>1, <3>2 DEF Elements
  <2>2. CASE model # "HTGL"
    <3>1. g = <<Write("cpu", {"red", "green", "blue"}), Base>>
      BY <2>2 DEF set_lcd_color, Base, LCD_COLOR_GREEN
    <3>2. g \in Seq(Call)
      BY <2>2, LedCalls DEF Bit, LCD_COLOR_GREEN
    <3> HIDE DEF g
    <3>3. DOMAIN g = 1..2 /\ g[1] = Write("cpu", {"red", "green", "blue"}) /\ g[2] = Base
          /\ 1 \in DOMAIN g /\ 2 \in DOMAIN g /\ \A j \in DOMAIN g : j = 1 \/ j = 2
      BY <3>1
    <3>4. {g[1], g[2]} \subseteq Elements(g) /\ Elements(g) \subseteq {g[1], g[2]}
      BY <3>3, Zenon DEF Elements
    <3> QED BY <2>2, <3>2, <3>3, <3>4
  <2> QED BY <2>1, <2>2
<1>7. /\ q \in Seq(Call) /\ PlanOfWords(q)
      /\ Elements(q) = {Read("cpu"), LastAt("cpu"), Read("blink"), LastAt("blink"),
                        ReadOnoff, LastAt("onoff")}
  BY PowerLed
<1> HIDE DEF a, o, l, g, q, others
<1> DEFINE ao == a \o o
           aol == ao \o l
           p == aol \o g
<1>8. ao \in Seq(Call) /\ Elements(ao) = Elements(a) \union Elements(o)
  BY <1>2, <1>4, Joined
<1>9. aol \in Seq(Call) /\ Elements(aol) = Elements(ao) \union Elements(l)
  <2> HIDE DEF ao
  <2> QED BY <1>5, <1>8, Joined
<1>10. p \in Seq(Call) /\ Elements(p) = Elements(aol) \union Elements(g)
  <2> HIDE DEF aol
  <2> QED BY <1>6, <1>9, Joined
<1>11. /\ \A w \in LedWord : LastAt(w).at = w /\ LastAt(w).op # "read" /\ LastAt(w).val = {"power"}
       /\ Base.at = "onoff" /\ Base.op # "read"
       /\ ReadOnoff.op = "read"
  BY CallsDiffer DEF LedWord, LastAt, ReadOnoff, Base
\* Base is in what comes before, and no other change of onoff follows it there.
<1>12. After(p, others, Base) /\ Base \in Elements(p)
  <2>1. CASE model = "HTGL"
    <3>1. Base = ClearBits("onoff", {"red", "green", "blue", "bay"})
      BY <2>1 DEF Base
    <3>2. Elements(o) \intersect others = {} /\ Base \in Elements(o)
      BY <1>4, <3>1, CallsDiffer DEF others, CallsAt
    <3>3. Elements(a) \intersect others = {} /\ Elements(l) \intersect others = {}
      <4>1. \A c \in others : c.at = "onoff"
        BY DEF others, CallsAt
      <4> QED BY <1>2, <1>5, <1>0, <4>1
    <3>4. Elements(g) = {}
      BY <1>6, <2>1
    <3>5. Elements(p) \intersect others = {}
      BY <1>8, <1>9, <1>10, <3>2, <3>3, <3>4
    <3> QED BY <1>8, <1>9, <1>10, <3>2, <3>5, NoneAfter
  <2>2. CASE model # "HTGL"
    <3>1. Base \in Elements(g)
      BY <1>6, <2>2
    <3>2. Elements(g) \intersect others = {}
      BY <1>6, <2>2, CallsDiffer DEF others, CallsAt
    <3>3. After(g, others, Base)
      BY <3>2, NoneAfter
    <3> HIDE DEF aol
    <3> QED BY <1>6, <1>9, <1>10, <3>1, <3>3, Joined
  <2> QED BY <2>1, <2>2
<1>13. LastAt("onoff") \notin Elements(p)
  <2>1. LastAt("onoff") \notin Elements(a) \union Elements(l)
    <3>1. LastAt("onoff").at = "onoff"
      BY <1>11 DEF LedWord
    <3> QED BY <1>0, <1>2, <1>5, <3>1
  <2>2. LastAt("onoff").at = "onoff" /\ LastAt("onoff").op = "set"
    BY CallsDiffer DEF LastAt
  <2>3. LastAt("onoff") \notin Elements(o)
    <3>1. /\ Read("cpu").op = "read" /\ Read("blink").op = "read" /\ Read("onoff").op = "read"
          /\ SetBits("cpu", {"red", "green", "blue", "bay"}).at = "cpu"
          /\ ClearBits("blink", {"red", "green", "blue", "bay"}).op = "clear"
          /\ ClearBits("onoff", {"red", "green", "blue", "bay"}).op = "clear"
      BY CallsDiffer
    <3> QED BY <1>4, <2>2, <3>1
  <2>4. LastAt("onoff") \notin Elements(g)
    <3>1. LastAt("onoff").op = "set"
      BY CallsDiffer DEF LastAt
    <3>2. model # "HTGL" => Base.op = "write"
      BY CallsDiffer DEF Base
    <3> QED BY <1>6, <3>1, <3>2, CallsDiffer
  <2> QED BY <1>8, <1>9, <1>10, <2>1, <2>3, <2>4
<1> HIDE DEF ao, aol, p
<1>14. micon_startup = p \o q
  BY <1>1 DEF p, aol, ao
<1>15. Elements(micon_startup) = Elements(p) \union Elements(q)
  BY <1>7, <1>10, <1>14, Joined
<1>16. \A w \in LedWord : After(micon_startup, CallsAt(w) \ {LastAt(w)}, LastAt(w))
  <2>1. \A w \in LedWord : LastAt(w) \in Elements(q)
    BY <1>7 DEF LedWord
  <2> QED BY <1>7, <1>10, <1>14, <2>1, Joined DEF PlanOfWords
<1>17. After(micon_startup, others, Base)
  BY <1>7, <1>10, <1>12, <1>14, Joined DEF PlanOfWords, others
<1>18. After(micon_startup, ({c \in Call : c.op = "read"} \ {ReadOnoff}) \union {Base}, ReadOnoff)
  BY <1>7, <1>10, <1>14, Joined DEF PlanOfWords
<1>19. Never(micon_startup, LastAt("onoff"), ReadOnoff)
  BY <1>7, <1>10, <1>13, <1>14, Joined DEF PlanOfWords
<1>20. Command("boot_end") \in Elements(p)
  BY <1>2, <1>8, <1>9, <1>10
<1> QED BY <1>7, <1>12, <1>15, <1>16, <1>17, <1>18, <1>19, <1>20 DEF PlanOfWords, others

\* boot_end comes before the words of LEDs are read.
BootEndFirst(s) == \A w \in LedWord : Never(s, Read(w), Command("boot_end"))

LEMMA StartupFirst ==
  ASSUME ver = 2
  PROVE  BootEndFirst(micon_startup)
<1> DEFINE a == <<Read("version"), Command("boot_end"), Command("console"), Command("console")>>
           o == cmd_set_led("OFF", {"red", "green", "blue", "bay"})
           l == <<lcd, lcd, lcd, lcd>>
           g == IF model # "HTGL" THEN set_lcd_color(LCD_COLOR_GREEN) ELSE <<>>
           q == cmd_set_led("ON", {"power"})
           b == Command("boot_end")
<1> SUFFICES ASSUME NEW w \in LedWord PROVE Never(micon_startup, Read(w), b)
  BY DEF BootEndFirst
<1>1. micon_startup = (((a \o o) \o l) \o g) \o q
  BY DEF micon_startup
<1>2. /\ b.at = "boot_end" /\ b.op = "write" /\ Read(w).op = "read" /\ Read(w).at = w
      /\ Read("version").at = "version" /\ Command("console").op = "write"
      /\ lcd.at = "lcd"
  BY CallsDiffer DEF lcd
<1>3. a \in Seq(Call) /\ Never(a, Read(w), b)
  <2>1. /\ Read("version") \in Call /\ b \in Call /\ Command("console") \in Call
    BY CallTypes
  <2>2. /\ DOMAIN a = 1..4 /\ a[1] = Read("version") /\ a[2] = b
        /\ a[3] = Command("console") /\ a[4] = Command("console") /\ a \in Seq(Call)
    BY <2>1
  <2> HIDE DEF a, b
  <2>3. \A j \in DOMAIN a : j = 1 \/ j = 2 \/ j = 3 \/ j = 4
    BY <2>2
  <2>4. "version" \notin LedWord
    BY DEF LedWord
  <2>5. \A j \in DOMAIN a : a[j] # Read(w)
    BY <1>2, <2>2, <2>3, <2>4
  <2> QED BY <2>2, <2>5 DEF Never
<1>4. {"red", "green", "blue", "bay"} \in SUBSET Bit /\ {"power"} \in SUBSET Bit
  BY DEF Bit
<1>5. \A mode \in {"ON", "OFF"}, led \in SUBSET Bit :
        cmd_set_led(mode, led) \in Seq(Call) /\ b \notin Elements(cmd_set_led(mode, led))
  <2> SUFFICES ASSUME NEW mode \in {"ON", "OFF"}, NEW led \in SUBSET Bit
               PROVE  /\ cmd_set_led(mode, led) \in Seq(Call)
                      /\ b \notin Elements(cmd_set_led(mode, led))
    OBVIOUS
  <2>1. \A c \in Elements(cmd_set_led(mode, led)) : c.at \in LedWord
    <3>1. /\ \A u : Read(u).at = u
          /\ \A u, v : SetBits(u, v).at = u /\ ClearBits(u, v).at = u
      BY CallsDiffer
    <3>2. Elements(cmd_set_led(mode, led)) \subseteq
            {Read("cpu"), SetBits("cpu", led), Read("blink"), ClearBits("blink", led),
             Read("onoff"), ClearBits("onoff", led), SetBits("onoff", led)}
      BY LedElements
    <3> QED BY <3>1, <3>2 DEF LedWord
  <2>2. "boot_end" \notin LedWord
    BY DEF LedWord
  <2> QED BY <1>2, <2>1, <2>2, LedElements
<1>6. o \in Seq(Call) /\ b \notin Elements(o) /\ q \in Seq(Call) /\ b \notin Elements(q)
  BY <1>4, <1>5
<1>7. l \in Seq(Call) /\ b \notin Elements(l)
  <2>1. lcd \in Call
    BY CallTypes DEF lcd
  <2>2. l \in Seq(Call) /\ \A j \in DOMAIN l : l[j] = lcd
    BY <2>1
  <2> HIDE DEF l
  <2> QED BY <1>2, <2>2 DEF Elements
<1>8. g \in Seq(Call) /\ b \notin Elements(g)
  <2>1. CASE model = "HTGL"
    <3>1. g = <<>>
      BY <2>1
    <3>2. <<>> \in Seq(Call) /\ DOMAIN <<>> = {}
      OBVIOUS
    <3> QED BY <3>1, <3>2 DEF Elements
  <2>2. CASE model # "HTGL"
    <3>1. g = <<Write("cpu", {"red", "green", "blue"}), Write("onoff", {"green"})>>
      BY <2>2 DEF set_lcd_color, LCD_COLOR_GREEN
    <3>2. g \in Seq(Call)
      BY <2>2, LedCalls DEF Bit, LCD_COLOR_GREEN
    <3> HIDE DEF g
    <3>3. \A j \in DOMAIN g : g[j].at \in LedWord
      <4>1. DOMAIN g = 1..2 /\ \A j \in 1..2 : j = 1 \/ j = 2
        BY <3>1
      <4>2. g[1].at = "cpu" /\ g[2].at = "onoff"
        BY <3>1, CallsDiffer
      <4> QED BY <4>1, <4>2 DEF LedWord
    <3>4. "boot_end" \notin LedWord
      BY DEF LedWord
    <3> QED BY <1>2, <3>2, <3>3, <3>4 DEF Elements
  <2> QED BY <2>1, <2>2
<1> HIDE DEF a, o, l, g, q, b
<1> DEFINE ao == a \o o
           aol == ao \o l
           p == aol \o g
<1>9. ao \in Seq(Call) /\ Never(ao, Read(w), b)
  BY <1>3, <1>6, Joined, JoinedFirst
<1> HIDE DEF ao
<1>10. aol \in Seq(Call) /\ Never(aol, Read(w), b)
  BY <1>7, <1>9, Joined, JoinedFirst
<1> HIDE DEF aol
<1>11. p \in Seq(Call) /\ Never(p, Read(w), b)
  BY <1>8, <1>10, Joined, JoinedFirst
<1> HIDE DEF p
<1>12. micon_startup = p \o q
  BY <1>1 DEF p, aol, ao
<1> QED BY <1>6, <1>11, <1>12, JoinedFirst

\* A program of a single call
LEMMA OneCall ==
  ASSUME NEW c \in Call
  PROVE  <<c>> \in Seq(Call) /\ Elements(<<c>>) = {c}
<1> DEFINE s == <<c>>
<1>1. s \in Seq(Call) /\ 1 \in DOMAIN s /\ \A j \in DOMAIN s : s[j] = c
  OBVIOUS
<1> HIDE DEF s
<1>2. Elements(s) = {c}
  BY <1>1 DEF Elements
<1> QED BY <1>1, <1>2 DEF s

\* One more call at the end
LEMMA OneMore ==
  ASSUME NEW s \in Seq(Call), NEW c \in Call
  PROVE  /\ s \o <<c>> \in Seq(Call) /\ Elements(s \o <<c>>) = Elements(s) \union {c}
         /\ \A X : c \notin X => After(s \o <<c>>, X, c)
<1> DEFINE t == <<c>>
<1>1. t \in Seq(Call) /\ Elements(t) = {c}
  BY OneCall
<1> HIDE DEF t
<1>2. \A X : c \notin X => After(t, X, c)
  BY <1>1, NoneAfter
<1>3. \A X : c \notin X => After(s \o t, X, c)
  BY <1>1, <1>2, Joined
<1>4. s \o t \in Seq(Call) /\ Elements(s \o t) = Elements(s) \union {c}
  BY <1>1, Joined
<1> QED BY <1>3, <1>4 DEF t

\* The program of version 3: each of its lamps is set for good after all that undoes it.
LEMMA StartupLamps ==
  ASSUME ver = 3
  PROVE  /\ PlanOfLamps(micon_startup)
         /\ Command("boot_end") \in Elements(micon_startup)
         /\ \A l \in Lamp : l < 7 => LastOf(l) \in Elements(micon_startup)
         /\ BootEndFirst(micon_startup)
<1> DEFINE On(l) == SetBits("lamps", {l})
           Off(l) == ClearBits("lamps", {l})
           a == <<Command("boot_end")>>
           d == <<lcd, lcd>>
           h == [j \in 1..8 |-> Command("hdd_on")]
           s1 == a \o <<On(3)>>
           s2 == s1 \o <<On(4)>>
           s3 == s2 \o <<Off(5)>>
           s4 == s3 \o d
           s5 == s4 \o h
           s6 == s5 \o <<Off(0)>>
           s7 == s6 \o <<Off(1)>>
           s8 == s7 \o <<Off(2)>>
           s9 == s8 \o <<Off(6)>>
<1>1. micon_startup = s9 \o <<On(0)>>
  BY DEF micon_startup, set_led
<1>2. \A l \in {0, 1, 2, 3, 4, 5, 6} : l \in Lamp
  BY DEF Lamp
<1>3. \A l \in {0, 1, 2, 3, 4, 5, 6} : On(l) \in Call /\ Off(l) \in Call
  BY <1>2, CallTypes
<1>4. a \in Seq(Call) /\ Elements(a) = {Command("boot_end")}
  BY CallTypes, OneCall
<1>5. d \in Seq(Call) /\ Elements(d) = {lcd}
  <2>1. lcd \in Call
    BY CallTypes DEF lcd
  <2>2. d \in Seq(Call) /\ 1 \in DOMAIN d /\ \A j \in DOMAIN d : d[j] = lcd
    BY <2>1
  <2> QED BY <2>2 DEF Elements
<1>6. h \in Seq(Call) /\ Elements(h) = {Command("hdd_on")}
  <2>1. Command("hdd_on") \in Call
    BY CallTypes
  <2>2. h \in Seq(Call) /\ 1 \in DOMAIN h /\ \A j \in DOMAIN h : h[j] = Command("hdd_on")
    BY <2>1
  <2> QED BY <2>2 DEF Elements
<1> HIDE DEF On, Off, a, d, h
<1>7. s1 \in Seq(Call) /\ Elements(s1) = {Command("boot_end"), On(3)}
  BY <1>3, <1>4, OneMore
<1> HIDE DEF s1
<1>8. s2 \in Seq(Call) /\ Elements(s2) = Elements(s1) \union {On(4)}
  BY <1>3, <1>7, OneMore
<1> HIDE DEF s2
<1>9. s3 \in Seq(Call) /\ Elements(s3) = Elements(s2) \union {Off(5)}
  BY <1>3, <1>8, OneMore
<1> HIDE DEF s3
<1>10. s4 \in Seq(Call) /\ Elements(s4) = Elements(s3) \union {lcd}
  BY <1>5, <1>9, Joined
<1> HIDE DEF s4
<1>11. s5 \in Seq(Call) /\ Elements(s5) = Elements(s4) \union {Command("hdd_on")}
  BY <1>6, <1>10, Joined
<1> HIDE DEF s5
<1>12. s6 \in Seq(Call) /\ Elements(s6) = Elements(s5) \union {Off(0)}
  BY <1>3, <1>11, OneMore
<1> HIDE DEF s6
<1>13. s7 \in Seq(Call) /\ Elements(s7) = Elements(s6) \union {Off(1)}
  BY <1>3, <1>12, OneMore
<1> HIDE DEF s7
<1>14. s8 \in Seq(Call) /\ Elements(s8) = Elements(s7) \union {Off(2)}
  BY <1>3, <1>13, OneMore
<1> HIDE DEF s8
<1>15. s9 \in Seq(Call) /\ Elements(s9) = Elements(s8) \union {Off(6)}
  BY <1>3, <1>14, OneMore
<1> HIDE DEF s9
<1>16. Elements(s9) = {Command("boot_end"), On(3), On(4), Off(5), lcd, Command("hdd_on"),
                       Off(0), Off(1), Off(2), Off(6)}
  BY <1>7, <1>8, <1>9, <1>10, <1>11, <1>12, <1>13, <1>14, <1>15
<1>17. Elements(micon_startup) = Elements(s9) \union {On(0)}
  BY <1>1, <1>3, <1>15, OneMore
<1>18. /\ Command("boot_end").at = "boot_end" /\ lcd.at = "lcd" /\ Command("hdd_on").at = "hdd_on"
       /\ \A l : /\ On(l).at = "lamps" /\ On(l).op = "set" /\ On(l).val = {l}
                 /\ Off(l).at = "lamps" /\ Off(l).op = "clear" /\ Off(l).val = {l}
  BY CallsDiffer DEF lcd, On, Off
<1>19. \A l : LastOf(l) = (IF l \in LampOn THEN On(l) ELSE Off(l))
             /\ Undo(l) = (IF l \in LampOn THEN Off(l) ELSE On(l))
  BY DEF LastOf, Undo, On, Off
<1>20. ASSUME NEW l \in Lamp, l # 0 PROVE After(micon_startup, {Undo(l)}, LastOf(l))
  <2>1. Undo(l).at = "lamps" /\ Undo(l).val = {l}
        /\ Undo(l).op = IF l \in LampOn THEN "clear" ELSE "set"
    BY <1>18, <1>19
  <2>2. Undo(l) \notin {Command("boot_end"), lcd, Command("hdd_on")}
    BY <1>18, <2>1
  <2>3. Undo(l) \notin {On(3), On(4), On(0)}
    BY <1>18, <1>20, <2>1 DEF LampOn
  <2>4. Undo(l) \notin {Off(0), Off(1), Off(2), Off(5), Off(6)}
    BY <1>18, <1>20, <2>1 DEF LampOn
  <2>5. Undo(l) \notin Elements(micon_startup)
    BY <1>16, <1>17, <2>2, <2>3, <2>4
  <2> QED BY <2>5, NoneAfter
<1>21. After(micon_startup, {Undo(0)}, LastOf(0))
  <2>1. LastOf(0) = On(0) /\ Undo(0) = Off(0) /\ On(0) # Off(0)
    BY <1>18, <1>19 DEF LampOn
  <2> QED BY <1>1, <1>3, <1>15, <2>1, OneMore
<1>22. ASSUME NEW l \in Lamp, l < 7 PROVE LastOf(l) \in Elements(micon_startup)
  <2>1. l = 0 \/ l = 1 \/ l = 2 \/ l = 3 \/ l = 4 \/ l = 5 \/ l = 6
    BY <1>22 DEF Lamp
  <2> QED BY <1>16, <1>17, <1>19, <2>1 DEF LampOn
<1>23. BootEndFirst(micon_startup)
  <2>1. \A w \in LedWord : Read(w).op = "read"
    BY CallsDiffer
  <2>2. \A c \in Elements(micon_startup) : c.op # "read"
    <3>1. Command("boot_end").op = "write" /\ lcd.op = "write" /\ Command("hdd_on").op = "write"
      BY CallsDiffer DEF lcd
    <3> QED BY <1>16, <1>17, <1>18, <3>1
  <2> QED BY <2>1, <2>2 DEF BootEndFirst, Never, Elements
<1> QED BY <1>16, <1>17, <1>20, <1>21, <1>22, <1>23 DEF PlanOfLamps
-----------------------------------------------------------------------------
(* What micon_startup.py has reached.                                      *)

\* What a command does to the fields that matter
LEMMA ObeyFields ==
  ASSUME TypeOK, NEW call \in Call, call.op # "read"
  PROVE  /\ Obey(call).booting \in {mcu.booting, FALSE}
         /\ call = Command("boot_end") => ~Obey(call).booting
         /\ \A w \in LedWord :
              Obey(call)[w] = IF call.at = w THEN Value(call) ELSE mcu[w]
         /\ Obey(call).lamps = IF call.at = "lamps" THEN NewLamps(call) ELSE mcu.lamps
<1> DEFINE v == Value(call)
           n == NewLamps(call)
<1>0. mcu \in Mcu
  BY DEF TypeOK
<1> HIDE DEF v, n
<1>1. CASE call.at \in {"cpu", "blink", "onoff", "fan"}
  <2>1. Obey(call) = [mcu EXCEPT ![call.at] = v]
    BY <1>1 DEF Obey, v
  <2>2. call # Command("boot_end")
    BY <1>1, CallsDiffer
  <2> QED BY <1>0, <1>1, <2>1, <2>2 DEF Mcu, LedWord, v
<1>2. CASE call.at = "lamps"
  <2>1. Obey(call) = [mcu EXCEPT !.lamps = n]
    BY <1>2 DEF Obey, n
  <2>2. call # Command("boot_end")
    BY <1>2, CallsDiffer
  <2> QED BY <1>0, <1>2, <2>1, <2>2 DEF Mcu, LedWord, n
<1>3. CASE call.at = "boot_end"
  <2>1. Obey(call) = [mcu EXCEPT !.booting = FALSE]
    BY <1>3 DEF Obey
  <2> QED BY <1>0, <1>3, <2>1 DEF Mcu, LedWord
<1>4. CASE call.at \notin {"cpu", "blink", "onoff", "fan", "lamps", "boot_end"}
  <2>1. call # Command("boot_end")
    BY <1>4, CallsDiffer
  <2>2. CASE call.at = "console"
    <3>1. Obey(call) = [mcu EXCEPT !.console = ~@]
      BY <2>2 DEF Obey
    <3> QED BY <1>0, <1>4, <2>1, <3>1 DEF Mcu, LedWord
  <2>3. CASE call.at \in {"power_off", "reboot"}
    <3>1. PICK p : Obey(call) = [mcu EXCEPT !.power = p]
      BY <2>3 DEF Obey
    <3> QED BY <1>0, <1>4, <2>1, <3>1 DEF Mcu, LedWord
  <2>4. CASE call.at \notin {"console", "power_off", "reboot"}
    <3>1. Obey(call) = mcu
      BY <1>4, <2>4 DEF Obey
    <3> QED BY <1>0, <1>4, <2>1, <3>1 DEF Mcu, LedWord
  <2> QED BY <2>2, <2>3, <2>4
<1> QED BY <1>1, <1>2, <1>3, <1>4

Others(bits) == bits \ {"power", "error"}

\* What the calls of s, the first of them executed m times, have still to do, or has
\* been done
BootEnds(s, m) == Pending(s, m, Command("boot_end")) \/ ~mcu.booting

PowerLit(s, m, w) == Pending(s, m, LastAt(w)) \/ ("power" \in mcu[w] <=> w # "blink")

OthersLit(s, m) ==
  \/ Pending(s, m, Base)
  \/ /\ Others(mcu.onoff) = Lit
     /\ ReadOnoff \in Elements(s) \/ Others(word) = Lit

LampSet(s, m, l) == Pending(s, m, LastOf(l)) \/ (l \in mcu.lamps <=> l \in LampOn)

StartupInv ==
  prog = "startup" /\ ~missed =>
    /\ todo # <<>> /\ Head(todo).op = "read" => times = 0
    /\ BootEnds(todo, times)
    /\ BootEndFirst(todo)
    /\ ver = 2 => /\ PlanOfWords(todo) /\ OthersLit(todo, times)
                  /\ \A w \in LedWord : PowerLit(todo, times, w)
    /\ ver = 3 => PlanOfLamps(todo) /\ \A l \in Lamp : LampSet(todo, times, l)

Reached ==
  /\ ~mcu.booting
  /\ ver = 2 => /\ Others(mcu.onoff) = Lit
                /\ \A w \in LedWord : "power" \in mcu[w] <=> w # "blink"
  /\ ver = 3 => \A l \in Lamp : l \in mcu.lamps <=> l \in LampOn

DoneInv == done /\ prog = "daemon" => Reached

\* With nothing left, all has been done.
LEMMA NothingLeft ==
  ASSUME StartupInv, prog = "startup", ~missed, todo = <<>>
  PROVE  Reached
<1>1. \A m, c : ~Pending(todo, m, c)
  BY DEF Pending
<1>2. ReadOnoff \notin Elements(todo)
  BY DEF Elements
<1> QED BY <1>1, <1>2 DEF StartupInv, BootEnds, PowerLit, OthersLit, LampSet, Reached

\* The program starts with everything still to do.
LEMMA StartsPending ==
  ASSUME ver \in {2, 3}
  PROVE  /\ micon_startup # <<>>
         /\ Pending(micon_startup, 0, Command("boot_end"))
         /\ BootEndFirst(micon_startup)
         /\ ver = 2 => /\ PlanOfWords(micon_startup) /\ Pending(micon_startup, 0, Base)
                       /\ \A w \in LedWord : Pending(micon_startup, 0, LastAt(w))
         /\ ver = 3 => /\ PlanOfLamps(micon_startup)
                       /\ \A l \in Lamp : l < 7 => Pending(micon_startup, 0, LastOf(l))
<1>1. \A c \in Elements(micon_startup) : Pending(micon_startup, 0, c)
  BY DEF Elements, Pending
<1>2. Command("boot_end") \in Elements(micon_startup)
  BY StartupWords, StartupLamps
<1>3. ASSUME ver = 2, NEW w \in LedWord PROVE LastAt(w) \in Elements(micon_startup)
  BY <1>3, StartupWords DEF LedWord
<1>4. micon_startup # <<>>
  BY <1>2 DEF Elements
<1> QED BY <1>1, <1>2, <1>3, <1>4, StartupWords, StartupFirst, StartupLamps

\* A boot lights none of the lamps that the program says nothing of.
LEMMA BootedLamps ==
  ASSUME NEW toggled, NEW m \in Booted(toggled), NEW l \in Lamp, ~(l < 7)
  PROVE  l \in m.lamps <=> l \in LampOn
<1>1. m.lamps \in {{}, {1, 4}}
  BY DEF Booted, Bare, Prepared
<1> QED BY <1>1 DEF LampOn, Lamp
-----------------------------------------------------------------------------
(* The steps of micon_startup.py.                                          *)

\* The calls that matter in the end, told apart
LEMMA OfCalls ==
  /\ \A w \in LedWord : LastAt(w).at = w /\ LastAt(w).op # "read"
  /\ Base # LastAt("onoff") /\ Base.at = "onoff" /\ Base.op # "read"
  /\ ReadOnoff.at = "onoff" /\ ReadOnoff.op = "read"
  /\ Command("boot_end").op = "write" /\ Command("boot_end").at = "boot_end"
  /\ \A l \in Lamp : LastOf(l).at = "lamps" /\ LastOf(l).op # "read" /\ LastOf(l).val = {l}
<1>1. Base # LastAt("onoff")
  BY CallsDiffer DEF Base, LastAt
<1> QED BY <1>1, CallsDiffer DEF LedWord, LastAt, ReadOnoff, Base, LastOf

\* A command that is executed does its part, or is followed by the one that does.
LEMMA ExecutedKeeps ==
  ASSUME TypeOK, StartupInv, prog = "startup", ~missed, Executed
  PROVE  StartupInv'
<1> DEFINE c == Head(todo)
           n == times'
<1>1. /\ todo \in Seq(Call) /\ todo # <<>> /\ c \in Call /\ c.op # "read" /\ mcu' = Obey(c)
      /\ UNCHANGED <<ver, model, prog, todo, word, missed>>
      /\ ver \in {2, 3} /\ word \in SUBSET Bit /\ mcu \in Mcu
  BY DEF Executed, TypeOK
<1>2. /\ mcu'.booting \in {mcu.booting, FALSE}
      /\ c = Command("boot_end") => ~mcu'.booting
      /\ \A w \in LedWord : mcu'[w] = IF c.at = w THEN Value(c) ELSE mcu[w]
      /\ mcu'.lamps = IF c.at = "lamps" THEN NewLamps(c) ELSE mcu.lamps
  BY <1>1, ObeyFields
<1>3. /\ \A m, d : Pending(todo, m, d) /\ c # d => Pending(todo, n, d)
      /\ \A X, d : After(todo, X, d) /\ c \in X => Pending(todo, n, d)
  BY <1>1, FirstGoesOn
<1>4. /\ BootEnds(todo, times)
      /\ BootEndFirst(todo)
      /\ ver = 2 => /\ PlanOfWords(todo) /\ OthersLit(todo, times)
                    /\ \A w \in LedWord : PowerLit(todo, times, w)
      /\ ver = 3 => PlanOfLamps(todo) /\ \A l \in Lamp : LampSet(todo, times, l)
  BY DEF StartupInv
<1> HIDE DEF c, n
<1>5. Pending(todo, n, Command("boot_end")) \/ ~mcu'.booting
  BY <1>2, <1>3, <1>4 DEF BootEnds
<1>6. ASSUME ver = 2, NEW w \in LedWord
      PROVE  Pending(todo, n, LastAt(w)) \/ ("power" \in mcu'[w] <=> w # "blink")
  <2>1. CASE c.at # w
    BY <1>2, <1>3, <1>4, <1>6, <2>1, OfCalls DEF PowerLit
  <2>2. CASE c.at = w /\ c # LastAt(w)
    BY <1>1, <1>3, <1>4, <1>6, <2>2 DEF PlanOfWords, CallsAt
  <2>3. CASE c = LastAt(w)
    <3>1. mcu'[w] = Value(c)
      BY <1>2, <2>3, OfCalls
    <3>2. "power" \in Value(c) <=> w # "blink"
      BY <2>3, CallsDiffer DEF Value, LastAt
    <3> QED BY <3>1, <3>2
  <2> QED BY <2>1, <2>2, <2>3
<1>7. ASSUME ver = 2
      PROVE  \/ Pending(todo, n, Base)
             \/ /\ Others(mcu'.onoff) = Lit
                /\ ReadOnoff \in Elements(todo) \/ Others(word) = Lit
  <2>0. "onoff" \in LedWord /\ mcu'.onoff = mcu'["onoff"] /\ mcu.onoff = mcu["onoff"]
    BY DEF LedWord
  <2>1. CASE c.at # "onoff"
    <3>1. c # Base /\ mcu'.onoff = mcu.onoff
      BY <1>2, <2>0, <2>1, OfCalls
    <3> QED BY <1>3, <1>4, <1>7, <3>1 DEF OthersLit
  <2>2. CASE c.at = "onoff" /\ c \notin {Base, LastAt("onoff")}
    BY <1>1, <1>3, <1>4, <1>7, <2>2 DEF PlanOfWords, CallsAt
  <2>3. CASE c = Base
    <3>1. mcu'.onoff = Value(c)
      BY <1>2, <2>0, <2>3, OfCalls
    <3>2. Others(Value(c)) = Lit
      <4>1. CASE model = "HTGL"
        <5>1. Value(c) = word \ {"red", "green", "blue", "bay"}
          BY <2>3, <4>1, CallsDiffer DEF Value, Base
        <5> QED BY <1>1, <4>1, <5>1 DEF Others, Lit, Bit
      <4>2. CASE model # "HTGL"
        <5>1. Value(c) = {"green"}
          BY <2>3, <4>2, CallsDiffer DEF Value, Base
        <5> QED BY <4>2, <5>1 DEF Others, Lit
      <4> QED BY <4>1, <4>2
    <3>3. Pending(todo, n, ReadOnoff)
      BY <1>3, <1>4, <1>7, <2>3 DEF PlanOfWords
    <3>4. ReadOnoff \in Elements(todo)
      BY <3>3 DEF Pending, Elements
    <3> QED BY <3>1, <3>2, <3>4
  <2>4. CASE c = LastAt("onoff")
    <3>1. mcu'.onoff = Value(c)
      BY <1>2, <2>0, <2>4, OfCalls
    <3>2. Value(c) = word \union {"power"}
      BY <2>4, CallsDiffer DEF Value, LastAt
    <3>3. ReadOnoff \notin Elements(todo)
      <4>1. 1 \in DOMAIN todo /\ todo[1] = c /\ \A k \in DOMAIN todo : k \in Int /\ k >= 1
        BY <1>1 DEF c
      <4>2. \A k \in DOMAIN todo : todo[k] = ReadOnoff => k < 1
        BY <1>4, <1>7, <2>4, <4>1 DEF PlanOfWords, Never
      <4> QED BY <4>1, <4>2 DEF Elements
    <3>4. CASE Pending(todo, times, Base)
      BY <1>3, <2>4, <3>4, OfCalls
    <3>5. CASE Others(word) = Lit
      BY <3>1, <3>2, <3>5 DEF Others
    <3> QED BY <1>4, <1>7, <3>3, <3>4, <3>5 DEF OthersLit
  <2> QED BY <2>1, <2>2, <2>3, <2>4
<1>8. ASSUME ver = 3, NEW l \in Lamp
      PROVE  Pending(todo, n, LastOf(l)) \/ (l \in mcu'.lamps <=> l \in LampOn)
  <2>1. CASE c.at # "lamps"
    <3>1. c # LastOf(l)
      BY <2>1, OfCalls
    <3> QED BY <1>2, <1>3, <1>4, <1>8, <2>1, <3>1 DEF LampSet
  <2>2. CASE c.at = "lamps"
    <3>1. PICK i \in Lamp : c.val = {i} /\ c.op \in {"set", "clear"}
      BY <1>1, <2>2 DEF Call
    <3>2. mcu'.lamps = IF c.op = "set" THEN mcu.lamps \union {i} ELSE mcu.lamps \ {i}
      BY <1>2, <2>2, <3>1 DEF NewLamps
    <3>3. CASE i # l
      <4>1. c # LastOf(l)
        BY <3>1, <3>3, OfCalls
      <4>2. l \in mcu'.lamps <=> l \in mcu.lamps
        BY <3>2, <3>3
      <4> QED BY <1>3, <1>4, <1>8, <4>1, <4>2 DEF LampSet
    <3>4. CASE i = l /\ c = Undo(l)
      BY <1>3, <1>4, <1>8, <3>4 DEF PlanOfLamps
    <3>5. CASE i = l /\ c # Undo(l)
      <4>1. c = [op |-> c.op, at |-> "lamps", val |-> {l}]
        BY <1>1, <2>2, <3>1, <3>5 DEF Call
      <4>2. c = LastOf(l)
        BY <3>1, <3>5, <4>1 DEF LastOf, Undo, SetBits, ClearBits
      <4>3. c.op = "set" <=> l \in LampOn
        BY <4>2, CallsDiffer DEF LastOf
      <4> QED BY <3>2, <3>5, <4>3
    <3> QED BY <3>3, <3>4, <3>5
  <2> QED BY <2>1, <2>2
<1>9. /\ Base' = Base /\ Lit' = Lit /\ PlanOfWords(todo)' = PlanOfWords(todo)
      /\ PlanOfLamps(todo)' = PlanOfLamps(todo) /\ BootEndFirst(todo)' = BootEndFirst(todo)
  BY <1>1 DEF Base, Lit, PlanOfWords, PlanOfLamps, BootEndFirst, After, Never
<1>10. Head(todo)' .op # "read"
  BY <1>1 DEF c
<1>11. BootEnds(todo, times)'
  BY <1>1, <1>5 DEF BootEnds, Pending, n
<1>12. ver = 2 => OthersLit(todo, times)' /\ \A w \in LedWord : PowerLit(todo, times, w)'
  BY <1>1, <1>6, <1>7, <1>9 DEF OthersLit, PowerLit, Pending, n, Elements
<1>13. ver = 3 => \A l \in Lamp : LampSet(todo, times, l)'
  BY <1>1, <1>8 DEF LampSet, Pending, n
<1> QED BY <1>1, <1>4, <1>9, <1>10, <1>11, <1>12, <1>13 DEF StartupInv

\* What is not the first call is still there when that one has returned, and of a command
\* that was executed nothing is left to do.
LEMMA ReturnKeeps ==
  ASSUME StartupInv, prog = "startup", ~missed, todo \in Seq(Call), todo # <<>>,
         times # 0 \/ Head(todo).op = "read",
         UNCHANGED <<ver, model, mcu, prog>>, todo' = Tail(todo), times' = 0,
         /\ Head(todo).op # "read" => word' = word
         /\ Head(todo).op = "read" /\ Head(todo) = ReadOnoff => word' = mcu.onoff
  PROVE  StartupInv'
<1> DEFINE c == Head(todo)
           r == Tail(todo)
<1>1. c \in Call /\ r \in Seq(Call)
  OBVIOUS
<1>2. /\ \A d : Pending(todo, times, d) /\ (times # 0 \/ c # d) => Pending(r, 0, d)
      /\ \A X, d : After(todo, X, d) => After(r, X, d)
      /\ \A d, x : Never(todo, d, x) => Never(r, d, x)
      /\ \A x \in Elements(todo) : x # c => x \in Elements(r)
      /\ \A X, d : After(todo, X, d) /\ c \in X => d \in Elements(r)
  BY TailKeeps
<1>3. /\ BootEnds(todo, times)
      /\ BootEndFirst(todo)
      /\ ver = 2 => /\ PlanOfWords(todo) /\ OthersLit(todo, times)
                    /\ \A w \in LedWord : PowerLit(todo, times, w)
      /\ ver = 3 => PlanOfLamps(todo) /\ \A l \in Lamp : LampSet(todo, times, l)
  BY DEF StartupInv
<1> HIDE DEF c, r
\* A read is none of the commands that are waited for.
<1>4. \A d : d.op # "read" /\ Pending(todo, times, d) => Pending(r, 0, d)
  BY <1>2 DEF c
<1>5. BootEnds(r, 0)
  BY <1>3, <1>4, OfCalls DEF BootEnds
<1>6. ASSUME ver = 2 PROVE PlanOfWords(r) /\ \A w \in LedWord : PowerLit(r, 0, w)
  <2>1. PlanOfWords(r)
    BY <1>2, <1>3, <1>6 DEF PlanOfWords
  <2>2. \A w \in LedWord : PowerLit(r, 0, w)
    BY <1>3, <1>4, <1>6, OfCalls DEF PowerLit
  <2> QED BY <2>1, <2>2
<1>7. ASSUME ver = 2
      PROVE  \/ Pending(r, 0, Base)
             \/ /\ Others(mcu.onoff) = Lit
                /\ ReadOnoff \in Elements(r) \/ Others(word') = Lit
  <2>1. CASE Pending(todo, times, Base)
    BY <1>4, <2>1, OfCalls
  <2>2. CASE /\ Others(mcu.onoff) = Lit
             /\ ReadOnoff \in Elements(todo) \/ Others(word) = Lit
    <3>1. CASE c = ReadOnoff
      <4>1. word' = mcu.onoff
        BY <3>1, OfCalls DEF c
      <4> QED BY <2>2, <4>1
    <3>2. CASE c # ReadOnoff /\ c.op = "read"
      BY <1>1, <1>2, <1>3, <1>7, <2>2, <3>2 DEF PlanOfWords
    <3>3. CASE c # ReadOnoff /\ c.op # "read"
      <4>1. word' = word
        BY <3>3 DEF c
      <4> QED BY <1>2, <2>2, <3>3, <4>1
    <3> QED BY <3>1, <3>2, <3>3
  <2> QED BY <1>3, <1>7, <2>1, <2>2 DEF OthersLit
<1>8. ASSUME ver = 3 PROVE PlanOfLamps(r) /\ \A l \in Lamp : LampSet(r, 0, l)
  <2>1. PlanOfLamps(r)
    BY <1>2, <1>3, <1>8 DEF PlanOfLamps
  <2>2. \A l \in Lamp : LampSet(r, 0, l)
    BY <1>3, <1>4, <1>8, OfCalls DEF LampSet
  <2> QED BY <2>1, <2>2
<1>9. todo' = r /\ times' = 0 /\ UNCHANGED <<ver, model, mcu, prog>>
  BY DEF r
<1>10. /\ Base' = Base /\ Lit' = Lit /\ PlanOfWords(todo)' = PlanOfWords(r)
       /\ PlanOfLamps(todo)' = PlanOfLamps(r) /\ BootEndFirst(todo)' = BootEndFirst(r)
  BY <1>9 DEF Base, Lit, PlanOfWords, PlanOfLamps, BootEndFirst, After, Never
<1>11. BootEnds(todo, times)'
  BY <1>5, <1>9 DEF BootEnds, Pending
<1>12. ver = 2 => OthersLit(todo, times)' /\ \A w \in LedWord : PowerLit(todo, times, w)'
  BY <1>6, <1>7, <1>9, <1>10 DEF OthersLit, PowerLit, Pending, Elements
<1>13. ver = 3 => \A l \in Lamp : LampSet(todo, times, l)'
  BY <1>8, <1>9 DEF LampSet, Pending
<1>14. BootEndFirst(r)
  BY <1>2, <1>3 DEF BootEndFirst
<1> QED BY <1>6, <1>8, <1>9, <1>10, <1>11, <1>12, <1>13, <1>14 DEF StartupInv

-----------------------------------------------------------------------------
(* The invariant of micon_startup.py.                                      *)

\* It holds when the program starts,
LEMMA InitStartup == Init => StartupInv /\ DoneInv
<1> SUFFICES ASSUME Init PROVE StartupInv /\ DoneInv
  OBVIOUS
<1>1. /\ ver \in {2, 3} /\ mcu \in Booted(FALSE) /\ todo = micon_startup /\ times = 0
      /\ prog = "startup"
  BY DEF Init
<1>2. BootEnds(todo, times)
  BY <1>1, StartsPending DEF BootEnds
<1>3. ver = 2 => OthersLit(todo, times) /\ \A w \in LedWord : PowerLit(todo, times, w)
  BY <1>1, StartsPending DEF OthersLit, PowerLit
<1>4. ver = 3 => \A l \in Lamp : LampSet(todo, times, l)
  BY <1>1, StartsPending, BootedLamps DEF LampSet
<1> QED BY <1>1, <1>2, <1>3, <1>4, StartsPending DEF StartupInv, DoneInv

\* A boot starts over, whatever was left of the last one.
LEMMA BootKeeps ==
  ASSUME TypeOK, Boot
  PROVE  StartupInv'
<1> DEFINE s == micon_startup
<1>1. /\ ver \in {2, 3} /\ UNCHANGED <<ver, model>> /\ mcu' \in Booted(mcu.console)
      /\ todo' = s /\ times' = 0
  BY DEF Boot, Start, TypeOK
<1>2. /\ s # <<>> /\ Pending(s, 0, Command("boot_end"))
      /\ BootEndFirst(s)
      /\ ver = 2 => /\ PlanOfWords(s) /\ Pending(s, 0, Base)
                    /\ \A w \in LedWord : Pending(s, 0, LastAt(w))
      /\ ver = 3 => PlanOfLamps(s) /\ \A l \in Lamp : l < 7 => Pending(s, 0, LastOf(l))
  BY <1>1, StartsPending
<1> HIDE DEF s
<1>3. /\ Base' = Base /\ PlanOfWords(todo)' = PlanOfWords(s) /\ PlanOfLamps(todo)' = PlanOfLamps(s)
      /\ BootEndFirst(todo)' = BootEndFirst(s)
  BY <1>1 DEF Base, PlanOfWords, PlanOfLamps, BootEndFirst, After, Never
<1>4. BootEnds(todo, times)'
  BY <1>1, <1>2 DEF BootEnds, Pending
<1>5. ver = 2 => OthersLit(todo, times)' /\ \A w \in LedWord : PowerLit(todo, times, w)'
  BY <1>1, <1>2, <1>3 DEF OthersLit, PowerLit, Pending
<1>6. ver = 3 => \A l \in Lamp : LampSet(todo, times, l)'
  BY <1>1, <1>2, BootedLamps DEF LampSet, Pending
<1> QED BY <1>1, <1>2, <1>3, <1>4, <1>5, <1>6 DEF StartupInv

\* What has been reached depends on the microcontroller alone.
LEMMA ReachedKept ==
  ASSUME UNCHANGED <<ver, model>>, mcu'.booting \in {mcu.booting, FALSE},
         \A w \in LedWord : mcu'[w] = mcu[w], mcu'.lamps = mcu.lamps, Reached
  PROVE  Reached'
<1>1. mcu'.onoff = mcu.onoff
  BY DEF LedWord
<1> QED BY <1>1 DEF Reached, Lit

\* and every step keeps it.
LEMMA StepStartup == IInv /\ StartupInv /\ DoneInv /\ [Next]_vars => StartupInv' /\ DoneInv'
<1> SUFFICES ASSUME IInv, StartupInv, DoneInv, [Next]_vars PROVE StartupInv' /\ DoneInv'
  OBVIOUS
<1>0. TypeOK /\ DaemonInv /\ todo \in Seq(Call)
  BY DEF IInv, TypeOK
<1>a. UNCHANGED <<ver, model, mcu>> /\ Reached => Reached'
  BY DEF Reached, Lit
<1>1. CASE Executed
  <2>1. prog = "startup" /\ ~missed => StartupInv'
    BY <1>0, <1>1, ExecutedKeeps
  <2>2. ~(prog = "startup" /\ ~missed) => StartupInv'
    BY <1>1 DEF Executed, StartupInv
  <2>3. ASSUME done, prog = "daemon" PROVE Reached'
    <3>1. Head(todo) = Write("fan", Speed(pwm)) /\ Head(todo) \in Call /\ Head(todo).op # "read"
      BY <1>0, <1>1, <2>3, FanCall DEF Executed, DaemonInv, TypeOK
    <3>2. Head(todo).at = "fan"
      BY <3>1, CallsDiffer
    <3>3. /\ mcu'.booting \in {mcu.booting, FALSE} /\ mcu'.lamps = mcu.lamps
          /\ \A w \in LedWord : mcu'[w] = mcu[w]
      BY <1>0, <1>1, <3>1, <3>2, ObeyFields DEF Executed, LedWord
    <3>4. UNCHANGED <<ver, model>> /\ Reached
      BY <1>1, <2>3 DEF Executed, DoneInv
    <3> QED BY <3>3, <3>4, ReachedKept
  <2> QED BY <1>1, <2>1, <2>2, <2>3 DEF Executed, DoneInv
<1>2. CASE WriteReturns
  <2>1. /\ todo # <<>> /\ Head(todo).op # "read" /\ todo' = Tail(todo) /\ times' = 0
        /\ UNCHANGED <<ver, model, mcu, prog, word, done>>
    BY <1>2 DEF WriteReturns
  <2>2. ~missed' => ~missed /\ times # 0
    BY <1>2, Zenon DEF WriteReturns
  <2>3. prog = "startup" /\ ~missed' => StartupInv'
    BY <1>0, <2>1, <2>2, ReturnKeeps
  <2>4. ~(prog = "startup" /\ ~missed') => StartupInv'
    BY <2>1 DEF StartupInv
  <2> QED BY <1>a, <2>1, <2>3, <2>4 DEF DoneInv
<1>3. CASE ReadReturns
  <2>1. /\ todo # <<>> /\ Head(todo).op = "read" /\ todo' = Tail(todo) /\ times' = times
        /\ UNCHANGED <<ver, model, mcu, prog, missed, done>>
        /\ Head(todo) = ReadOnoff => word' = mcu.onoff
    BY <1>3, OfCalls DEF ReadReturns
  <2>2. prog = "startup" /\ ~missed => StartupInv'
    <3>1. prog = "startup" /\ ~missed => times = 0
      BY <2>1 DEF StartupInv
    <3> QED BY <1>0, <2>1, <3>1, ReturnKeeps
  <2>3. ~(prog = "startup" /\ ~missed) => StartupInv'
    BY <2>1 DEF StartupInv
  <2> QED BY <1>a, <2>1, <2>2, <2>3 DEF DoneInv
<1>4. CASE ReadFails
  <2>1. missed' = TRUE /\ UNCHANGED <<ver, model, mcu, prog, done>>
    BY <1>4 DEF ReadFails
  <2>2. StartupInv'
    BY <2>1 DEF StartupInv
  <2> QED BY <1>a, <2>1, <2>2 DEF DoneInv
<1>5. CASE StartDaemon
  <2>1. prog' = "daemon" /\ UNCHANGED <<ver, model, mcu>>
    BY <1>5 DEF StartDaemon, Start
  <2>2. CASE prog = "startup"
    <3>1. todo = <<>> /\ done' = ~missed
      BY <1>5, <2>2 DEF StartDaemon
    <3>2. ~missed => Reached
      BY <2>2, <3>1, NothingLeft
    <3>3. done' => ~missed
      BY <3>1, Zenon
    <3>4. DoneInv'
      BY <1>a, <2>1, <3>2, <3>3 DEF DoneInv
    <3> QED BY <2>1, <3>4 DEF StartupInv
  <2>3. CASE prog = "daemon"
    <3>1. done' = done
      BY <1>5, <2>3 DEF StartDaemon
    <3> QED BY <1>a, <2>1, <2>3, <3>1 DEF StartupInv, DoneInv
  <2> QED BY <1>5, <2>2, <2>3 DEF StartDaemon
<1>6. ASSUME NEW t \in Temps, Measure(t)
      PROVE  StartupInv' /\ DoneInv'
  <2>1. prog = "daemon" /\ prog' = "daemon" /\ UNCHANGED <<ver, model, mcu, done>>
    BY <1>6 DEF Measure, Start
  <2> QED BY <1>a, <2>1 DEF StartupInv, DoneInv
<1>7. ASSUME NEW halt \in BOOLEAN, Shutdown(halt)
      PROVE  StartupInv' /\ DoneInv'
  BY <1>7 DEF Shutdown, Start, StartupInv, DoneInv
<1>8. CASE Boot
  <2>1. DoneInv'
    BY <1>8 DEF Boot, Start, DoneInv
  <2> QED BY <1>0, <1>8, <2>1, BootKeeps
<1>9. CASE UNCHANGED vars
  <2>1. StartupInv'
    BY <1>9 DEF vars, StartupInv, BootEnds, PowerLit, OthersLit, LampSet, PlanOfWords, PlanOfLamps,
         BootEndFirst, Base, Lit, Pending, After, Never, Elements
  <2> QED BY <1>a, <1>9, <2>1 DEF vars, DoneInv
<1> QED BY <1>1, <1>2, <1>3, <1>4, <1>5, <1>6, <1>7, <1>8, <1>9 DEF Next
-----------------------------------------------------------------------------
(* The theorems.                                                           *)

THEOREM Invariant == Spec => []IInv
  BY InitIInv, Step, PTL DEF Spec

\* The programs only ever make calls that exist, and no duty cycle leaves the range
\* micon_fan.conf gives.
THEOREM TypeCorrect == Spec => []TypeOK
<1>1. IInv => TypeOK
  BY DEF IInv
<1> QED BY <1>1, Invariant, PTL

\* For every configuration and every temperature the fan has the speed for the last
\* reading whenever the daemon sleeps, unless that speed's command was never executed.
THEOREM FanIsRight == Spec => []FanFollows
<1>1. IInv => FanFollows
  BY DEF IInv, DaemonInv, FanFollows
<1> QED BY <1>1, Invariant, PTL

LEMMA StartupInvariant == Spec => [](StartupInv /\ DoneInv)
<1>1. Spec => []IInv
  BY Invariant
<1> QED BY <1>1, InitStartup, StepStartup, PTL DEF Spec

\* Wherever micon_startup.py can die but for its first read, the boot watchdog is disabled
\* already, for every microcontroller and any number of executions of each command.
THEOREM BootEndedBefore == Spec => []EndsBootFirst
<1>1. IInv /\ StartupInv => EndsBootFirst
  <2> SUFFICES ASSUME IInv, StartupInv, prog = "startup", todo # <<>>, Head(todo).op = "read",
                      Head(todo).at # "version", ~missed
               PROVE  ~mcu.booting
    BY DEF EndsBootFirst
  <2>1. todo \in Seq(Call) /\ ver \in {2, 3}
    BY DEF IInv, TypeOK
  <2>2. 1 \in DOMAIN todo /\ Head(todo) = todo[1] /\ Head(todo) \in Call
        /\ \A j \in DOMAIN todo : j \in Int /\ j >= 1
    BY <2>1
  <2>3. PICK w \in LedWord : todo[1] = Read(w)
    BY <2>2 DEF Call, Read, LedWord
  <2>4. ~Pending(todo, times, Command("boot_end"))
    <3>1. Never(todo, Read(w), Command("boot_end"))
      BY DEF StartupInv, BootEndFirst
    <3> QED BY <2>2, <2>3, <3>1 DEF Never, Pending
  <2> QED BY <2>1, <2>4 DEF StartupInv, BootEnds
<1> QED BY <1>1, Invariant, StartupInvariant, PTL

\* Whatever the boot left, whichever microcontroller it is, and however often each
\* command was executed: when none was missed the LEDs are as asked for, from the end
\* of micon_startup.py until the shutdown.
THEOREM StartupWorks == Spec => []StartupTakesEffect
<1>1. Spec => [](StartupInv /\ DoneInv)
  BY StartupInvariant
<1>2. IInv /\ DoneInv => StartupTakesEffect
  <2> SUFFICES ASSUME IInv, DoneInv, done, prog = "daemon"
               PROVE  /\ ~mcu.booting
                      /\ ver = 2 => /\ "power" \in (mcu.cpu \intersect mcu.onoff) \ mcu.blink
                                    /\ mcu.onoff \ {"power", "error"}
                                         = IF model = "HTGL" THEN {} ELSE {"green"}
                      /\ ver = 3 => mcu.lamps = {0, 3, 4}
    BY DEF StartupTakesEffect
  <2>1. Reached /\ mcu \in Mcu
    BY DEF DoneInv, IInv, TypeOK
  <2>2. ASSUME ver = 2 PROVE "power" \in (mcu.cpu \intersect mcu.onoff) \ mcu.blink
    <3>1. \A w \in {"cpu", "blink", "onoff"} : "power" \in mcu[w] <=> w # "blink"
      BY <2>1, <2>2 DEF Reached, LedWord
    <3>2. "power" \in mcu["cpu"] /\ "power" \in mcu["onoff"] /\ "power" \notin mcu["blink"]
      BY <3>1
    <3> QED BY <3>2
  <2>3. ASSUME ver = 3 PROVE mcu.lamps = {0, 3, 4}
    <3>1. mcu.lamps \subseteq Lamp /\ \A l \in Lamp : l \in mcu.lamps <=> l \in {0, 3, 4}
      BY <2>1, <2>3 DEF Reached, LampOn, Mcu
    <3>2. {0, 3, 4} \subseteq Lamp
      BY DEF Lamp
    <3> QED BY <3>1, <3>2
  <2> QED BY <2>1, <2>2, <2>3 DEF Reached, Others, Lit
<1> QED BY <1>1, <1>2, Invariant, PTL
=============================================================================
