---------------------------- MODULE MiconPrograms ----------------------------
(***************************************************************************)
(* The programs that talk to the microcontroller, over either of its two   *)
(* protocols: micon_startup.py, then hdd_fan_daemon.py, which is restarted *)
(* when it ends, then micon_shutdown.py; with the commands of libmicon.py  *)
(* they are made of.  The init scripts run them one after the other.       *)
(*                                                                         *)
(* The link is as MiconCalls says: a command is executed at most           *)
(* RetryCount times, perhaps never, and in the order of the calls.  So it  *)
(* is enough to let a command be executed while its call is in progress.   *)
(* A program is the sequence of the calls it has still to make.            *)
(***************************************************************************)
EXTENDS Integers, Sequences

CONSTANTS RetryCount, \* retry_count; a command of the version 3 is sent once
          Model,      \* the kinds of microcontroller, told apart by their version string
          MinPWM, MaxPWM, MinTemp, MaxTemp, \* micon_fan.conf
          Temps,      \* what hddtemp may read
          Short       \* the temperatures at which a float product falls short, see Ramp

ASSUME RetryAssumption == RetryCount \in Nat \ {0}
ASSUME ModelAssumption == Model \subseteq {"HTGL", "TS-XEL", "TS1400", "other"}
\* The program does not check micon_fan.conf; equal temperatures end it at line 61.
ASSUME ConfigAssumption ==
  /\ {MinPWM, MaxPWM} \subseteq 0..100
  /\ {MinTemp, MaxTemp} \subseteq Int /\ MinTemp # MaxTemp
  /\ Temps \subseteq Int \ {0}

\* The bits of the LED words the programs name; "power" stands for the two bits of
\* POWER_LED, "bay" for 0x08 of the second byte.
Bit == {"power", "error", "red", "green", "blue", "bay"}
LCD_COLOR_GREEN == {"green"}
Lamp == 0..15  \* the LEDs of the version 3
NoTemp == 0

VARIABLES
  ver, model, \* the microcontroller
  mcu,        \* its state
  prog,       \* the program that runs
  todo,       \* the calls it has still to make, the first one being in progress
  times,      \* how often the command of that call was executed
  word,       \* led_status
  pwm, temp,  \* hdd_fan_daemon.py's variables; temp is NoTemp before the first reading
  \* history
  missed,     \* some command of this program, or the last of the daemon, was not executed
  done        \* micon_startup.py came to its end, and none of its commands was missed

vars == <<ver, model, mcu, prog, todo, times, word, pwm, temp, missed, done>>

Mcu == [booting : BOOLEAN,      \* waiting for boot_end
        console : BOOLEAN,      \* the serial console is connected
        cpu : SUBSET Bit,       \* CMD_LED_CPU: the LEDs under the host's control
        blink : SUBSET Bit, onoff : SUBSET Bit,
        lamps : SUBSET Lamp,
        fan : 0..100,
        power : {"on", "off", "reboot"}]
-----------------------------------------------------------------------------
(* Calls.                                                                  *)

\* send_read_cmd; send_write_cmd of a value, and of the word that was read with some
\* bits changed
Read(at) == [op |-> "read", at |-> at, val |-> {}]
Write(at, val) == [op |-> "write", at |-> at, val |-> val]
SetBits(at, mask) == [op |-> "set", at |-> at, val |-> mask]
ClearBits(at, mask) == [op |-> "clear", at |-> at, val |-> mask]
Command(at) == Write(at, {})

\* Mutant: the word is read once.
cmd_set_led_once(mode, led) ==
  <<Read("cpu"), SetBits("cpu", led),
    IF mode # "BLINK" THEN ClearBits("blink", led) ELSE SetBits("blink", led),
    IF mode = "OFF" THEN ClearBits("onoff", led) ELSE SetBits("onoff", led)>>

cmd_set_led(mode, led) ==
  <<Read("cpu"), SetBits("cpu", led),
    Read("blink"), IF mode # "BLINK" THEN ClearBits("blink", led) ELSE SetBits("blink", led),
    Read("onoff"), IF mode = "OFF" THEN ClearBits("onoff", led) ELSE SetBits("onoff", led)>>

set_lcd_color(color) == <<Write("cpu", {"red", "green", "blue"}), Write("onoff", color)>>

\* micon_api_v3.set_led
set_led(lamp, on) ==
  <<IF on THEN SetBits("lamps", {lamp}) ELSE ClearBits("lamps", {lamp})>>

\* What is shown on the display is left out.
lcd == Command("lcd")

\* Mutant: the power LED is lit before anything else.
micon_startup_led_first ==
  cmd_set_led("ON", {"power"}) \o <<Read("version"), Command("boot_end")>>

micon_startup ==
  IF ver = 2
  THEN <<Read("version"), Command("boot_end"), Command("console"), Command("console")>>
       \o cmd_set_led("OFF", {"red", "green", "blue", "bay"})
       \o <<lcd, lcd, lcd, lcd>>
       \o (IF model # "HTGL" THEN set_lcd_color(LCD_COLOR_GREEN) ELSE <<>>)
       \o cmd_set_led("ON", {"power"})
  ELSE <<Command("boot_end")>>
       \o set_led(3, TRUE) \o set_led(4, TRUE) \o set_led(5, FALSE)
       \o <<lcd, lcd>> \o [i \in 1..8 |-> Command("hdd_on")]
       \o set_led(0, FALSE) \o set_led(1, FALSE) \o set_led(2, FALSE) \o set_led(6, FALSE)
       \o set_led(0, TRUE)

\* The microcontroller of a TS-XEL is told to reboot with its power setting cleared,
\* that of a TS1400 nothing more than ups_linefail_on.
Halt ==
  <<lcd, lcd, lcd>> \o cmd_set_led("OFF", {"red", "green", "blue"})
  \o <<Command("power_state")>>
  \o (IF model = "TS-XEL" THEN <<Command("power_state"), Command("reboot")>> ELSE <<>>)
  \o (IF model = "TS1400" THEN <<Command("ups_linefail_on")>> ELSE <<>>)
  \o (IF model \notin {"TS-XEL", "TS1400"} THEN <<Command("power_off")>> ELSE <<>>)

Restart == <<lcd, lcd, Command("power_state"), Command("watchdog"), Command("reboot")>>

micon_shutdown(halt) ==
  IF ver = 2
  THEN <<Read("version"), Command("watchdog"), Command("boot_end"), Command("shutdown_wait")>>
       \o (IF halt THEN Halt ELSE Restart)
  ELSE [i \in 1..16 |-> ClearBits("lamps", {i - 1})]
       \o <<lcd, Command(IF halt THEN "power_off" ELSE "reboot")>>

\* lowmedhigh in setMiconPWM
Level(value) == (value + 30) \div 33

\* What setMiconPWM(value) asks the microcontroller for
Speed(value) == IF ver = 2 THEN Level(value) ELSE value
setMiconPWM(value) == <<Write("fan", Speed(value))>>

\* int(minpwm + ratio*(temp-mintemp)).  Where the quotient is a whole number the float
\* product may be one rounding less, which int makes one less: between 10 and 78 %,
\* 28 and 56 degrees, 49 degrees give 60 and not 61.
Ramp(t) ==
  LET product == (MaxPWM - MinPWM) * (t - MinTemp)
      exact == MinPWM + product \div (MaxTemp - MinTemp)
  IN IF t \in Short /\ MinPWM # MaxPWM /\ product % (MaxTemp - MinTemp) = 0
     THEN exact - 1 ELSE exact

\* Mutant: the ends of the range are forgotten.
TargetUnclamped(t) == Ramp(t)

Target(t) == IF t >= MaxTemp THEN MaxPWM ELSE IF t <= MinTemp THEN MinPWM ELSE Ramp(t)

\* The duty cycles between the two configured ones, whichever is the larger
Duty == MinPWM..MaxPWM \union MaxPWM..MinPWM
-----------------------------------------------------------------------------

\* What the command of a call writes
Value(call) == CASE call.op = "set" -> word \union call.val
                 [] call.op = "clear" -> word \ call.val
                 [] OTHER -> call.val

\* The commands of the version 3 change one LED and leave the others.
NewLamps(call) == IF call.op = "set" THEN mcu.lamps \union call.val ELSE mcu.lamps \ call.val

\* What the microcontroller does (external): it toggles the console.
Obey(call) ==
  CASE call.at \in {"cpu", "blink", "onoff", "fan"} -> [mcu EXCEPT ![call.at] = Value(call)]
    [] call.at = "lamps" -> [mcu EXCEPT !.lamps = NewLamps(call)]
    [] call.at = "boot_end" -> [mcu EXCEPT !.booting = FALSE]
    [] call.at = "console" -> [mcu EXCEPT !.console = ~@]
    [] call.at = "power_off" -> [mcu EXCEPT !.power = "off"]
    [] call.at = "reboot" -> [mcu EXCEPT !.power = "reboot"]
    [] OTHER -> mcu

Start(program, calls) ==
  /\ prog' = program /\ todo' = calls /\ times' = 0 /\ word' = {}

\* The states a boot may leave: the boot loader's, and that of the initrd, which takes
\* the LEDs of the display and makes it green.  It sends boot_end to the version 2 only.
Bare == [booting |-> TRUE, console |-> FALSE, cpu |-> {}, blink |-> {"power"}, onoff |-> {"bay"},
         lamps |-> {}, fan |-> 0, power |-> "on"]
Prepared == [booting |-> ver = 3, console |-> FALSE, cpu |-> {"red", "green", "blue"},
             blink |-> {}, onoff |-> {"green"}, lamps |-> {1, 4}, fan |-> 0, power |-> "on"]
Booted(toggled) == {[b EXCEPT !.console = toggled] : b \in {Bare, Prepared}}

Init ==
  /\ ver \in {2, 3} /\ model \in Model /\ mcu \in Booted(FALSE)
  /\ prog = "startup" /\ todo = micon_startup /\ times = 0 /\ word = {}
  /\ pwm = MinPWM /\ temp = NoTemp /\ missed = FALSE /\ done = FALSE

Executed ==
  /\ todo # <<>> /\ Head(todo).op # "read" /\ mcu.power = "on"
  /\ times < (IF ver = 2 THEN RetryCount ELSE 1)
  /\ mcu' = Obey(Head(todo))
  /\ times' = times + 1
  /\ UNCHANGED <<ver, model, prog, todo, word, pwm, temp, missed, done>>

\* send_write_cmd and send_miconv3 return; nobody looks at the answer.
WriteReturns ==
  /\ todo # <<>> /\ Head(todo).op # "read"
  /\ todo' = Tail(todo) /\ times' = 0
  /\ missed' = (missed \/ times = 0)
  /\ UNCHANGED <<ver, model, mcu, prog, word, pwm, temp, done>>

ReadReturns ==
  /\ todo # <<>> /\ Head(todo).op = "read" /\ mcu.power = "on"
  /\ todo' = Tail(todo)
  /\ word' = IF Head(todo).at = "version" THEN word ELSE mcu[Head(todo).at]
  /\ UNCHANGED <<ver, model, mcu, prog, times, pwm, temp, missed, done>>

\* send_read_cmd returns None: the program cannot index or decode it, and dies.
ReadFails ==
  /\ todo # <<>> /\ Head(todo).op = "read"
  /\ todo' = <<>> /\ missed' = TRUE
  /\ UNCHANGED <<ver, model, mcu, prog, times, word, pwm, temp, done>>

\* hdd_fan_daemon.py starts, after micon_startup.py or after it has died itself.
StartDaemon ==
  /\ mcu.power = "on"
  /\ prog = "daemon" \/ (prog = "startup" /\ todo = <<>>)
  /\ Start("daemon", setMiconPWM(MinPWM))
  /\ pwm' = MinPWM /\ temp' = NoTemp
  /\ done' = IF prog = "startup" THEN ~missed ELSE done
  /\ missed' = FALSE
  /\ UNCHANGED <<ver, model, mcu>>

\* Mutant: the speed is only ever raised.
HasRisen(old, new) == new > old

HasChanged(old, new) == new # old

\* One round of the daemon's loop; getHDDtemp is False without a reading, and for 0.
Measure(t) ==
  /\ prog = "daemon" /\ todo = <<>> /\ mcu.power = "on"
  /\ temp' = t /\ pwm' = Target(t)
  /\ IF HasChanged(pwm, Target(t))
     THEN Start("daemon", setMiconPWM(Target(t))) /\ missed' = FALSE
     ELSE UNCHANGED <<prog, todo, times, word, missed>>
  /\ UNCHANGED <<ver, model, mcu, done>>

Shutdown(halt) ==
  /\ prog = "daemon" /\ mcu.power = "on"
  /\ Start("shutdown", micon_shutdown(halt))
  /\ missed' = FALSE
  /\ UNCHANGED <<ver, model, mcu, pwm, temp, done>>

\* The board starts again, by the microcontroller or because the kernel resets it.
Boot ==
  /\ mcu.power # "on" \/ (prog = "shutdown" /\ todo = <<>>)
  /\ mcu' \in Booted(mcu.console)
  /\ Start("startup", micon_startup)
  /\ pwm' = MinPWM /\ temp' = NoTemp /\ missed' = FALSE /\ done' = FALSE
  /\ UNCHANGED <<ver, model>>

Next ==
  \/ Executed \/ WriteReturns \/ ReadReturns \/ ReadFails
  \/ StartDaemon \/ \E t \in Temps : Measure(t)
  \/ \E halt \in BOOLEAN : Shutdown(halt)
  \/ Boot

Spec == Init /\ [][Next]_vars
-----------------------------------------------------------------------------

Call == [op : {"read"}, at : {"version", "cpu", "blink", "onoff"}, val : {{}}]
        \union [op : {"set", "clear"}, at : {"cpu", "blink", "onoff"}, val : SUBSET Bit]
        \union [op : {"set", "clear"}, at : {"lamps"}, val : {{i} : i \in Lamp}]
        \union [op : {"write"}, at : {"cpu", "onoff"}, val : SUBSET Bit]
        \union [op : {"write"}, at : {"fan"}, val : 0..100]
        \union [op : {"write"}, val : {{}},
                at : {"boot_end", "console", "lcd", "hdd_on", "watchdog", "shutdown_wait",
                      "power_state", "power_off", "reboot", "ups_linefail_on"}]

\* Every variable has its type.
TypeOK ==
  /\ ver \in {2, 3} /\ model \in Model /\ mcu \in Mcu
  /\ prog \in {"startup", "daemon", "shutdown"} /\ todo \in Seq(Call)
  /\ times \in 0..RetryCount /\ word \in SUBSET Bit
  /\ pwm \in Duty /\ temp \in Temps \union {NoTemp}
  /\ missed \in BOOLEAN /\ done \in BOOLEAN

\* When micon_startup.py has come to its end and each of its commands was executed,
\* however often, the microcontroller no longer waits for the end of the boot and the
\* LEDs are as asked for, whatever the boot left: the power LED on, not blinking and
\* the host's; the display green, or dark on an HTGL; the red drive LEDs off.
StartupTakesEffect ==
  done /\ prog = "daemon" =>
    /\ ~mcu.booting
    /\ ver = 2 => /\ "power" \in (mcu.cpu \intersect mcu.onoff) \ mcu.blink
                  /\ mcu.onoff \ {"power", "error"} = IF model = "HTGL" THEN {} ELSE {"green"}
    /\ ver = 3 => mcu.lamps = {0, 3, 4}

\* While the daemon sleeps the fan has the speed for the temperature read last, unless
\* the command that set it was never executed: speeds that were not sent because they
\* had not changed, restarts of the daemon and repeated commands do not make it differ.
FanFollows ==
  prog = "daemon" /\ todo = <<>> /\ temp # NoTemp /\ ~missed => mcu.fan = Speed(Target(temp))

\* Where micon_startup.py can die but for its first read, the boot watchdog is disabled
\* already: when it reads a word of LEDs boot_end was executed, if none of the commands
\* before was missed.
EndsBootFirst ==
  prog = "startup" /\ todo # <<>> /\ Head(todo).op = "read" /\ Head(todo).at # "version"
    /\ ~missed => ~mcu.booting
=============================================================================
