------------------------------ MODULE GpioIt87 ------------------------------
(***************************************************************************)
(* The GPIO lines of an ITE Super-I/O chip: gpio-it87ts.c, together with   *)
(* what it87ts.c does to the configuration ports the two modules share.    *)
(*                                                                         *)
(* The direction of a line is a bit of a configuration register, reached   *)
(* through the index and data ports 0x2e and 0x2f.  The drivers reserve    *)
(* those ports as a muxed region; the register that answers depends on the *)
(* logical device selected last, which both modules select.  The level of  *)
(* a line is a bit of a data port.  Both are changed by reading a byte and *)
(* writing it back: under the spinlock for directions, without it in       *)
(* it87_gpio_set.                                                          *)
(***************************************************************************)
EXTENDS Naturals, FiniteSets

CONSTANTS Thread,   \* the threads that use lines
          NoThread, \* neither a thread nor the it87ts module
          It87ts,   \* the it87ts module being loaded
          Line,     \* the lines
          GroupOf,  \* the group of 8 lines a line belongs to
          Simple,   \* the lines with a Simple I/O switch: group < simple_size
          Activated \* the environment controller is activated and has a base address

ASSUME ThreadAssumption == {NoThread, It87ts} \cap Thread = {} /\ NoThread # It87ts
ASSUME ActivatedAssumption == Activated \in BOOLEAN
ASSUME LineAssumption == Simple \subseteq Line /\ DOMAIN GroupOf = Line

GPIO == "gpio"  \* logical device 7
PME == "pme"    \* logical device 4, the environment controller
Ldn == {GPIO, PME, "other"}

VARIABLES
  \* the chip
  ldn,       \* the logical device selected by LDNREG
  oe,        \* Output Enable: for each logical device, the lines whose bit is set
  simple,    \* Simple I/O Enable, likewise
  latch,     \* the data ports: the lines driven high when they are outputs
  \* the kernel
  region,    \* who reserved ports 0x2e and 0x2f
  lock,      \* who holds it87_gpio_chip.lock
  ready,     \* gpiochip_add_data has been called
  find,      \* how far it87_find is
  pc, op, got, \* each thread's place in its operation, the operation, the byte read
  \* history
  direction, \* each line's direction as last set with success
  level,     \* and the level last written
  atRisk     \* the lines written while another thread held an older byte

chip == <<ldn, oe, simple, latch>>
kernel == <<region, lock, ready, find>>
history == <<direction, level, atRisk>>
vars == <<chip, kernel, pc, op, got, history>>

Unset == "unset"
NoOp == [name |-> "none"]
Operation == [name : {"request", "in"}, line : Line]
               \union [name : {"out", "set"}, line : Line, val : {"low", "high"}]

Group(l) == {m \in Line : GroupOf[m] = GroupOf[l]}

\* The lines of l's group that have their bit set in register r (a set of lines)
Byte(r, l) == r \cap Group(l)

\* Register r after the byte b is written to l's group
Stored(r, l, b) == (r \ Group(l)) \union b

Init ==
  /\ ldn \in Ldn
  /\ oe \in {[d \in Ldn |-> {}], [d \in Ldn |-> Line]} /\ simple = [d \in Ldn |-> {}]
  /\ latch \in {{}, Line}
  /\ region = NoThread /\ lock = NoThread
  /\ ready = FALSE
  /\ find = "none"
  /\ pc = [t \in Thread |-> "idle"]
  /\ op = [t \in Thread |-> NoOp]
  /\ got = [t \in Thread |-> {}]
  /\ direction = [l \in Line |-> Unset]
  /\ level = [l \in Line |-> Unset]
  /\ atRisk = {}
-----------------------------------------------------------------------------
(* Loading the modules.                                                    *)

\* it87_gpio_init: the only place where this driver selects a logical device.
\* Before gpiochip_add_data there is no other operation, and the region keeps
\* it87_find out.
GpioInit ==
  /\ ~ready /\ region = NoThread
  /\ ldn' = GPIO
  /\ ready' = TRUE
  /\ UNCHANGED <<oe, simple, latch, region, lock, find, pc, op, got, history>>

\* it87_find reserves the ports, selects the environment controller, and, if
\* that is in use, the GPIO device, of which it reads the pin configuration.
FindEnter ==
  /\ find = "none" /\ region = NoThread
  /\ region' = It87ts
  /\ find' = "enter"
  /\ UNCHANGED <<chip, lock, ready, pc, op, got, history>>

FindSelectPme ==
  /\ find = "enter"
  /\ ldn' = PME
  /\ find' = IF Activated THEN "pme" ELSE "exit"
  /\ UNCHANGED <<oe, simple, latch, region, lock, ready, pc, op, got, history>>

\* Mutant: the GPIO configuration is read from the device selected before.
FindStaysOnPme ==
  /\ find = "pme"
  /\ find' = "exit"
  /\ UNCHANGED <<chip, region, lock, ready, pc, op, got, history>>

\* Mutant: the logical device that the IT8705F has for its GPIO pins.
FindSelectsFive ==
  /\ find = "pme"
  /\ ldn' = "ldn5"
  /\ find' = "exit"
  /\ UNCHANGED <<oe, simple, latch, region, lock, ready, pc, op, got, history>>

FindSelectGpio ==
  /\ find = "pme"
  /\ ldn' = GPIO
  /\ find' = "exit"
  /\ UNCHANGED <<oe, simple, latch, region, lock, ready, pc, op, got, history>>

FindExit ==
  /\ find = "exit"
  /\ region' = NoThread
  /\ find' = "done"
  /\ UNCHANGED <<chip, lock, ready, pc, op, got, history>>

Find == FindEnter \/ FindSelectPme \/ FindSelectGpio \/ FindExit
-----------------------------------------------------------------------------
(* The operations of the gpio_chip.  get reads one data port and changes   *)
(* nothing.                                                                *)

Goto(t, label) == pc' = [pc EXCEPT ![t] = label]

Return(t) ==
  /\ Goto(t, "idle")
  /\ op' = [op EXCEPT ![t] = NoOp]

\* gpiolib gives a line to one consumer at a time, and asks for a direction or
\* a level only after a request has succeeded.
Begin(t, o) ==
  /\ ready
  /\ pc[t] = "idle"
  /\ \A u \in Thread : pc[u] # "idle" => op[u].line # o.line
  /\ o.name # "request" => direction[o.line] # Unset
  /\ op' = [op EXCEPT ![t] = o]
  /\ Goto(t, IF o.name = "set" THEN "read" ELSE "lock")
  /\ UNCHANGED <<chip, kernel, got, history>>

\* spin_lock
Lock(t) ==
  /\ pc[t] = "lock" /\ lock = NoThread
  /\ lock' = t
  /\ Goto(t, "enter")
  /\ UNCHANGED <<chip, region, ready, find, op, got, history>>

\* superio_enter: wait for another muxed owner of the ports
Enter(t) ==
  /\ pc[t] = "enter" /\ region = NoThread
  /\ region' = t
  /\ Goto(t, IF op[t].name = "request" /\ op[t].line \in Simple THEN "simple" ELSE "oeRead")
  /\ UNCHANGED <<chip, lock, ready, find, op, got, history>>

\* Mutant: the error path returns with the lock held.
EnterFailsLocked(t) ==
  /\ pc[t] = "enter"
  /\ Return(t)
  /\ UNCHANGED <<chip, kernel, got, history>>

\* or return -EBUSY when the owner is not muxed
EnterFails(t) ==
  /\ pc[t] = "enter"
  /\ lock' = NoThread
  /\ Return(t)
  /\ UNCHANGED <<chip, region, ready, find, got, history>>

\* superio_set_mask of the Simple I/O switch, in the selected logical device
SetSimple(t) ==
  /\ pc[t] = "simple"
  /\ simple' = [simple EXCEPT ![ldn] = @ \union {op[t].line}]
  /\ Goto(t, "oeRead")
  /\ UNCHANGED <<ldn, oe, latch, kernel, op, got, history>>

\* superio_set_mask and superio_clear_mask of the Output Enable bit: read,
\* and write back if the bit changes
ReadOe(t) ==
  /\ pc[t] = "oeRead"
  /\ got' = [got EXCEPT ![t] = Byte(oe[ldn], op[t].line)]
  /\ Goto(t, "oeWrite")
  /\ UNCHANGED <<chip, kernel, op, history>>

NewOe(o, b) == IF o.name = "out" THEN b \union {o.line} ELSE b \ {o.line}

WriteOe(t) ==
  /\ pc[t] = "oeWrite"
  /\ oe' = [oe EXCEPT ![ldn] = Stored(@, op[t].line, NewOe(op[t], got[t]))]
  /\ Goto(t, IF op[t].name = "out" THEN "read" ELSE "exit")
  /\ direction' = [direction EXCEPT ![op[t].line] = IF op[t].name = "out" THEN "out" ELSE "in"]
  /\ got' = [got EXCEPT ![t] = {}]
  /\ UNCHANGED <<ldn, simple, latch, kernel, op, level, atRisk>>

\* it87_gpio_set: inb of the group's data port, which shows the level on the
\* pin of the lines that are inputs
ReadData(t) ==
  /\ pc[t] = "read"
  /\ \E pins \in SUBSET (Group(op[t].line) \ oe[GPIO]) :
       got' = [got EXCEPT ![t] = Byte(latch \cap oe[GPIO], op[t].line) \union pins]
  /\ Goto(t, "write")
  /\ UNCHANGED <<chip, kernel, op, history>>

\* Mutant: the mask is not inverted when the bit is cleared.
NewDataNotInverted(o, b) == IF o.val = "high" THEN b \union {o.line} ELSE b \cap {o.line}

NewData(o, b) == IF o.val = "high" THEN b \union {o.line} ELSE b \ {o.line}

\* the outb
WriteData(t) ==
  /\ pc[t] = "write"
  /\ LET l == op[t].line
         behind == {u \in Thread \ {t} : pc[u] = "write" /\ GroupOf[op[u].line] = GroupOf[l]}
     IN /\ latch' = Stored(latch, l, NewData(op[t], got[t]))
        /\ level' = [level EXCEPT ![l] = op[t].val]
        /\ atRisk' = IF behind # {} THEN atRisk \union {l} ELSE atRisk \ {l}
  /\ got' = [got EXCEPT ![t] = {}]
  /\ IF op[t].name = "set" THEN Return(t) ELSE Goto(t, "exit") /\ UNCHANGED op
  /\ UNCHANGED <<ldn, oe, simple, kernel, direction>>

\* superio_exit, then spin_unlock
Exit(t) ==
  /\ pc[t] = "exit"
  /\ region' = NoThread
  /\ Goto(t, "unlock")
  /\ UNCHANGED <<chip, lock, ready, find, op, got, history>>

Unlock(t) ==
  /\ pc[t] = "unlock"
  /\ lock' = NoThread
  /\ Return(t)
  /\ UNCHANGED <<chip, region, ready, find, got, history>>

Step(t) ==
  \/ Lock(t) \/ Enter(t) \/ EnterFails(t)
  \/ SetSimple(t) \/ ReadOe(t) \/ WriteOe(t)
  \/ ReadData(t) \/ WriteData(t)
  \/ Exit(t) \/ Unlock(t)

Next ==
  \/ GpioInit
  \/ Find
  \/ \E t \in Thread : Step(t) \/ \E o \in Operation : Begin(t, o)

Spec == Init /\ [][Next]_vars
-----------------------------------------------------------------------------

Label == {"idle", "lock", "enter", "simple", "oeRead", "oeWrite", "read", "write",
          "exit", "unlock"}

TypeOK ==
  /\ ldn \in Ldn
  /\ oe \in [Ldn -> SUBSET Line] /\ simple \in [Ldn -> SUBSET Line]
  /\ latch \subseteq Line
  /\ region \in Thread \union {NoThread, It87ts}
  /\ lock \in Thread \union {NoThread}
  /\ ready \in BOOLEAN
  /\ find \in {"none", "enter", "pme", "exit", "done"}
  /\ pc \in [Thread -> Label]
  /\ op \in [Thread -> Operation \union {NoOp}]
  /\ \A t \in Thread : op[t] = NoOp <=> pc[t] = "idle"
  /\ got \in [Thread -> SUBSET Line]
  /\ direction \in [Line -> {"in", "out", Unset}]
  /\ level \in [Line -> {"low", "high", Unset}]
  /\ atRisk \subseteq Line

(***************************************************************************)
(* A line keeps the direction it was last given, whatever other threads do *)
(* to the lines of its group and whenever it87ts is loaded: no update of   *)
(* the shared Output Enable byte is lost, and it is the GPIO device's byte *)
(* that is changed although request and direction_* never select it.  This *)
(* needs it87_find to come as far as selecting the GPIO device itself.     *)
(* The pins with a Simple I/O switch are then GPIO lines, too.             *)
(***************************************************************************)
DirectionSticks ==
  Activated => \A l \in Line : direction[l] # Unset =>
                 /\ l \in oe[GPIO] <=> direction[l] = "out"
                 /\ l \in Simple => l \in simple[GPIO]

Driven(l) == direction[l] = "out" /\ level[l] # Unset /\ l \in oe[GPIO]
             /\ \A t \in Thread : pc[t] # "idle" => op[t].line # l

(***************************************************************************)
(* "A lock to avoid races between operations" (gpio-it87ts.c:63): an       *)
(* output keeps the level that was written to it, whatever is done to      *)
(* other lines meanwhile.                                                  *)
(***************************************************************************)
LevelSticks == \A l \in Line : Driven(l) => (l \in latch <=> level[l] = "high")

(***************************************************************************)
(* An output loses its level in one way only: it was written while another *)
(* thread was between the inb and the outb of it87_gpio_set on the group.  *)
(***************************************************************************)
LevelSticksUnlessRaced ==
  \A l \in Line \ atRisk : Driven(l) => (l \in latch <=> level[l] = "high")

(***************************************************************************)
(* The spinlock and the ports are held only by a thread that is inside the *)
(* part of its operation that needs them, or by it87_find: they are given  *)
(* back on every path, also when superio_enter fails.                      *)
(***************************************************************************)
Holding == {"enter", "simple", "oeRead", "oeWrite", "read", "write", "exit", "unlock"}
LocksGivenBack ==
  /\ lock # NoThread => pc[lock] \in Holding /\ op[lock].name # "set"
  /\ region \in Thread => region = lock /\ pc[region] \notin {"enter", "unlock"}
  /\ region = It87ts <=> find \in {"enter", "pme", "exit"}
-----------------------------------------------------------------------------
(* The inductive invariant of the proofs                                   *)

\* The part of an operation, other than set, that holds the ports
InRegion == {"simple", "oeRead", "oeWrite", "read", "write", "exit"}

\* Who is where holds what
PlaceInv ==
  \A t \in Thread :
    /\ pc[t] # "idle" => ready
    /\ op[t].name = "set" => pc[t] \in {"read", "write"}
    /\ pc[t] \in {"read", "write"} => op[t].name \in {"out", "set"}
    /\ pc[t] = "simple" => op[t].name = "request"
    /\ op[t].name \in {"in", "out", "set"} => direction[op[t].line] # Unset
    /\ pc[t] \in Holding /\ op[t].name # "set" => lock = t
    /\ pc[t] \in InRegion /\ op[t].name # "set" => region = t

\* The GPIO device is selected whenever it87_find is not about to select it.
SelectedInv == Activated /\ ready /\ find # "pme" => ldn = GPIO

\* What an operation has done before it writes the Output Enable bit
OperationInv ==
  Activated => \A t \in Thread :
    /\ pc[t] = "oeWrite" => got[t] = Byte(oe[GPIO], op[t].line)
    /\ pc[t] \in {"oeRead", "oeWrite"} /\ op[t].line \in Simple =>
         op[t].line \in simple[GPIO]

DirectionInv == \A l \in Line : direction[l] # Unset => ready

\* The outputs that nobody is about to give the level that goes with the direction
Settled(l) ==
  /\ l \notin atRisk /\ direction[l] = "out" /\ level[l] # Unset /\ l \in oe[GPIO]
  /\ \A t \in Thread : pc[t] \in {"read", "write"} /\ op[t].name = "out" => op[t].line # l

\* Such a line's bit is right in the data port and in each byte on its way there.
LevelInv ==
  /\ \A l \in Line : Settled(l) => (l \in latch <=> level[l] = "high")
  /\ \A t \in Thread : pc[t] = "write" =>
       /\ got[t] \subseteq Group(op[t].line)
       /\ \A l \in Group(op[t].line) \ {op[t].line} :
            Settled(l) => (l \in got[t] <=> level[l] = "high")
  /\ \A t \in Thread : pc[t] = "oeWrite" => got[t] = Byte(oe[ldn], op[t].line)

IInv ==
  /\ TypeOK /\ PlaceInv /\ LocksGivenBack
  /\ SelectedInv /\ OperationInv /\ DirectionInv /\ DirectionSticks
  /\ LevelInv
=============================================================================
