--------------------------- MODULE GpioIt87Proofs ---------------------------
(***************************************************************************)
(* Proofs about GpioIt87: its types, LocksGivenBack, DirectionSticks and   *)
(* LevelSticksUnlessRaced, for any number of threads, lines and groups.    *)
(* The invariant IInv says who holds the ports and the spinlock at each    *)
(* place of an operation; that the GPIO device is selected whenever        *)
(* somebody else than it87_find holds the ports; and that the byte a       *)
(* thread is about to write back is the register's, but for its own bit,   *)
(* of Output Enable always and of the data port unless raced.              *)
(***************************************************************************)
EXTENDS GpioIt87, TLAPS

\* The fields of an operation, and that there is one
LEMMA OperationFields ==
  ASSUME NEW o \in Operation
  PROVE  /\ o.line \in Line
         /\ o.name \in {"request", "in", "out", "set"}
         /\ o.name \in {"out", "set"} => o.val \in {"low", "high"}
         /\ o # NoOp
  BY DEF Operation, NoOp

LEMMA NoOpFields == NoOp.name = "none" /\ NoOp \notin Operation
  BY OperationFields DEF NoOp

\* A thread that is not idle has an operation.
LEMMA BusyOperation ==
  ASSUME TypeOK, NEW t \in Thread, pc[t] # "idle"
  PROVE  op[t] \in Operation
  BY DEF TypeOK

LEMMA InitIInv == Init => IInv
<1> SUFFICES ASSUME Init PROVE IInv
  OBVIOUS
<1> USE DEF Init
<1>1. TypeOK
  <2>1. oe \in [Ldn -> SUBSET Line] /\ simple \in [Ldn -> SUBSET Line]
    OBVIOUS
  <2> QED BY <2>1, NoOpFields DEF TypeOK, Label
<1>2. PlaceInv
  BY NoOpFields DEF PlaceInv, Holding, InRegion
<1>3. LocksGivenBack
  BY ThreadAssumption DEF LocksGivenBack
<1>4. SelectedInv /\ OperationInv /\ DirectionInv /\ DirectionSticks
  BY DEF SelectedInv, OperationInv, DirectionInv, DirectionSticks, Unset
<1>5. LevelInv
  BY DEF LevelInv, Settled
<1> QED BY <1>1, <1>2, <1>3, <1>4, <1>5 DEF IInv
-----------------------------------------------------------------------------
(* Types                                                                   *)

\* A step of one thread to another place keeps the types of pc and op.
LEMMA GotoType ==
  ASSUME TypeOK, NEW t \in Thread, NEW label \in Label \ {"idle"},
         pc[t] # "idle", Goto(t, label), UNCHANGED op
  PROVE  /\ pc' \in [Thread -> Label]
         /\ op' \in [Thread -> Operation \union {NoOp}]
         /\ \A u \in Thread : op'[u] = NoOp <=> pc'[u] = "idle"
  BY DEF TypeOK, Goto

LEMMA ReturnType ==
  ASSUME TypeOK, NEW t \in Thread, Return(t)
  PROVE  /\ pc' \in [Thread -> Label]
         /\ op' \in [Thread -> Operation \union {NoOp}]
         /\ \A u \in Thread : op'[u] = NoOp <=> pc'[u] = "idle"
  BY DEF TypeOK, Return, Goto, Label

\* What a byte is written to stays a set of lines.
LEMMA StoredType ==
  ASSUME NEW r \in SUBSET Line, NEW l \in Line, NEW b \in SUBSET Line
  PROVE  Stored(r, l, b) \in SUBSET Line /\ Byte(r, l) \in SUBSET Line
  BY DEF Stored, Byte

LEMMA TypeStep == IInv /\ [Next]_vars => TypeOK'
<1> SUFFICES ASSUME IInv, [Next]_vars PROVE TypeOK'
  OBVIOUS
<1> TypeOK /\ PlaceInv
  BY DEF IInv
<1> USE DEF TypeOK
<1>1. CASE GpioInit \/ Find
  BY <1>1 DEF GpioInit, Find, FindEnter, FindSelectPme, FindSelectGpio, FindExit,
              Ldn, GPIO, PME, history, chip
<1>2. ASSUME NEW t \in Thread, NEW o \in Operation, Begin(t, o)
      PROVE  TypeOK'
  <2>1. pc' \in [Thread -> Label] /\ op' \in [Thread -> Operation \union {NoOp}]
    BY <1>2 DEF Begin, Goto, Label
  <2>2. \A u \in Thread : op'[u] = NoOp <=> pc'[u] = "idle"
    BY <1>2, OperationFields DEF Begin, Goto
  <2> QED BY <1>2, <2>1, <2>2 DEF Begin, chip, kernel, history
<1>3. ASSUME NEW t \in Thread, Step(t)
      PROVE  TypeOK'
  <2> pc[t] # "idle" /\ op[t] \in Operation
    BY <1>3 DEF Step, Lock, Enter, EnterFails, SetSimple, ReadOe, WriteOe,
                ReadData, WriteData, Exit, Unlock
  <2> op[t].line \in Line
    BY OperationFields
  <2>1. CASE Lock(t)
    BY <2>1, GotoType DEF Lock, Label, chip, history
  <2>2. CASE Enter(t)
    <3>1. \E label \in Label \ {"idle"} : Goto(t, label)
      BY <2>2 DEF Enter, Label
    <3> QED BY <2>2, <3>1, GotoType DEF Enter, chip, history
  <2>3. CASE EnterFails(t) \/ Unlock(t)
    BY <2>3, ReturnType DEF EnterFails, Unlock, chip, history
  <2>4. CASE SetSimple(t)
    BY <2>4, GotoType DEF SetSimple, Label, kernel, history
  <2>5. CASE ReadOe(t)
    <3>1. Byte(oe[ldn], op[t].line) \in SUBSET Line
      BY StoredType
    <3> QED BY <2>5, <3>1, GotoType DEF ReadOe, Label, chip, kernel, history
  <2>6. CASE WriteOe(t)
    <3>1. NewOe(op[t], got[t]) \in SUBSET Line
      BY DEF NewOe
    <3>2. Stored(oe[ldn], op[t].line, NewOe(op[t], got[t])) \in SUBSET Line
      BY <3>1, StoredType
    <3>3. \E label \in Label \ {"idle"} : Goto(t, label)
      BY <2>6 DEF WriteOe, Label
    <3>4. oe' \in [Ldn -> SUBSET Line] /\ got' \in [Thread -> SUBSET Line]
      BY <2>6, <3>2 DEF WriteOe
    <3>5. direction' \in [Line -> {"in", "out", Unset}]
      BY <2>6 DEF WriteOe
    <3> QED BY <2>6, <3>3, <3>4, <3>5, GotoType DEF WriteOe, kernel
  <2>7. CASE ReadData(t)
    <3>1. PICK pins \in SUBSET (Group(op[t].line) \ oe[GPIO]) :
            got' = [got EXCEPT ![t] = Byte(latch \cap oe[GPIO], op[t].line) \union pins]
      BY <2>7 DEF ReadData
    <3>2. Byte(latch \cap oe[GPIO], op[t].line) \union pins \in SUBSET Line
      BY DEF Byte, Group
    <3> QED BY <2>7, <3>1, <3>2, GotoType DEF ReadData, Label, chip, kernel, history
  <2>8. CASE WriteData(t)
    <3>1. op[t].val \in {"low", "high"}
      BY <2>8, OperationFields DEF WriteData, PlaceInv
    <3>2. NewData(op[t], got[t]) \in SUBSET Line
      BY DEF NewData
    <3>3. latch' \subseteq Line
      BY <2>8, <3>2, StoredType DEF WriteData
    <3>4. level' \in [Line -> {"low", "high", Unset}] /\ atRisk' \subseteq Line
      BY <2>8, <3>1 DEF WriteData
    <3>5. Return(t) \/ \E label \in Label \ {"idle"} : Goto(t, label) /\ UNCHANGED op
      BY <2>8 DEF WriteData, Label
    <3>6. got' \in [Thread -> SUBSET Line]
      BY <2>8 DEF WriteData
    <3> QED BY <2>8, <3>3, <3>4, <3>5, <3>6, GotoType, ReturnType DEF WriteData, kernel
  <2>9. CASE Exit(t)
    BY <2>9, GotoType DEF Exit, Label, chip, history
  <2> QED BY <1>3, <2>1, <2>2, <2>3, <2>4, <2>5, <2>6, <2>7, <2>8, <2>9 DEF Step
<1>4. CASE UNCHANGED vars
  BY <1>4 DEF vars, chip, kernel, history
<1> QED BY <1>1, <1>2, <1>3, <1>4 DEF Next
-----------------------------------------------------------------------------
(* Who holds what                                                          *)

\* How a step of t looks to the other threads: they stay where they are, and
\* what they hold stays theirs.
LEMMA StepPlaces ==
  ASSUME IInv, NEW t \in Thread, Step(t)
  PROVE  (PlaceInv /\ LocksGivenBack)'
<1> TypeOK /\ PlaceInv /\ LocksGivenBack
  BY DEF IInv
<1> NoThread \notin Thread /\ It87ts \notin Thread /\ NoThread # It87ts
  BY ThreadAssumption
<1> USE DEF TypeOK, PlaceInv, LocksGivenBack, Holding, InRegion
<1>1. CASE Lock(t)
  <2>1. /\ pc'[t] = "enter"
        /\ \A u \in Thread \ {t} : pc'[u] = pc[u]
    BY <1>1 DEF Lock, Goto
  <2>2. op[t].name # "set"
    BY <1>1 DEF Lock
  <2>3. PlaceInv'
    BY <1>1, <2>1, <2>2 DEF Lock, chip, history
  <2>4. LocksGivenBack'
    BY <1>1, <2>1, <2>2 DEF Lock, chip, history
  <2> QED BY <2>3, <2>4
<1>2. CASE Enter(t)
  <2>1. /\ pc'[t] \in {"simple", "oeRead"}
        /\ pc'[t] = "simple" => op[t].name = "request"
        /\ \A u \in Thread \ {t} : pc'[u] = pc[u]
    BY <1>2 DEF Enter, Goto
  <2>2. op[t].name # "set" /\ lock = t /\ region = NoThread
    BY <1>2 DEF Enter
  <2>3. PlaceInv'
    BY <1>2, <2>1, <2>2 DEF Enter, chip, history
  <2>4. LocksGivenBack'
    BY <1>2, <2>1, <2>2 DEF Enter, chip, history
  <2> QED BY <2>3, <2>4
<1>3. CASE EnterFails(t)
  BY <1>3, NoOpFields DEF EnterFails, Return, Goto, chip, history
<1>4. CASE SetSimple(t)
  BY <1>4 DEF SetSimple, Goto, kernel, history
<1>5. CASE ReadOe(t)
  BY <1>5 DEF ReadOe, Goto, chip, kernel, history
<1>6. CASE WriteOe(t)
  <2>1. /\ pc'[t] = IF op[t].name = "out" THEN "read" ELSE "exit"
        /\ \A u \in Thread \ {t} : pc'[u] = pc[u]
    BY <1>6 DEF WriteOe, Goto
  <2>2. op[t].name # "set" /\ lock = t /\ region = t
    BY <1>6 DEF WriteOe
  <2>3. \A l \in Line : direction[l] # Unset => direction'[l] # Unset
    BY <1>6 DEF WriteOe, Unset
  <2>4. \A u \in Thread : op[u].name \in {"in", "out", "set"} => op[u].line \in Line
    BY OperationFields, NoOpFields
  <2>5. PlaceInv'
    BY <1>6, <2>1, <2>2, <2>3, <2>4 DEF WriteOe, kernel
  <2>6. LocksGivenBack'
    BY <1>6, <2>1, <2>2 DEF WriteOe, kernel
  <2> QED BY <2>5, <2>6
<1>7. CASE ReadData(t)
  BY <1>7 DEF ReadData, Goto, chip, kernel, history
<1>8. CASE WriteData(t)
  BY <1>8, NoOpFields DEF WriteData, Return, Goto, kernel
<1>9. CASE Exit(t)
  <2>1. /\ pc'[t] = "unlock"
        /\ \A u \in Thread \ {t} : pc'[u] = pc[u]
    BY <1>9 DEF Exit, Goto
  <2>2. op[t].name # "set"
    BY <1>9 DEF Exit
  <2>3. PlaceInv'
    BY <1>9, <2>1, <2>2 DEF Exit, chip, history
  <2>4. LocksGivenBack'
    BY <1>9, <2>1, <2>2 DEF Exit, chip, history
  <2> QED BY <2>3, <2>4
<1>10. CASE Unlock(t)
  BY <1>10, NoOpFields DEF Unlock, Return, Goto, chip, history
<1> QED BY <1>1, <1>2, <1>3, <1>4, <1>5, <1>6, <1>7, <1>8, <1>9, <1>10 DEF Step

LEMMA PlaceStep == IInv /\ [Next]_vars => (PlaceInv /\ LocksGivenBack)'
<1> SUFFICES ASSUME IInv, [Next]_vars PROVE (PlaceInv /\ LocksGivenBack)'
  OBVIOUS
<1> TypeOK /\ PlaceInv /\ LocksGivenBack
  BY DEF IInv
<1>1. CASE GpioInit \/ Find
  BY <1>1, ThreadAssumption DEF GpioInit, Find, FindEnter, FindSelectPme, FindSelectGpio,
     FindExit, history, chip, TypeOK, PlaceInv, LocksGivenBack, Holding, InRegion
<1>2. ASSUME NEW t \in Thread, NEW o \in Operation, Begin(t, o)
      PROVE  (PlaceInv /\ LocksGivenBack)'
  BY <1>2, OperationFields, NoOpFields, ThreadAssumption
     DEF Begin, Goto, chip, kernel, history, TypeOK, PlaceInv, LocksGivenBack,
         Holding, InRegion
<1>3. ASSUME NEW t \in Thread, Step(t)
      PROVE  (PlaceInv /\ LocksGivenBack)'
  BY <1>3, StepPlaces
<1>4. CASE UNCHANGED vars
  BY <1>4 DEF vars, chip, kernel, history, PlaceInv, LocksGivenBack
<1> QED BY <1>1, <1>2, <1>3, <1>4 DEF Next
-----------------------------------------------------------------------------
(* Directions                                                              *)

\* A thread that holds the ports for its operation finds the GPIO device
\* selected, and has the ports to itself.
LEMMA OwnsPorts ==
  ASSUME IInv, Activated, NEW t \in Thread, pc[t] \in InRegion, op[t].name # "set"
  PROVE  /\ ldn = GPIO
         /\ find \notin {"enter", "pme", "exit"}
         /\ \A u \in Thread : pc[u] \in InRegion /\ op[u].name # "set" => u = t
  BY ThreadAssumption DEF IInv, PlaceInv, LocksGivenBack, SelectedInv, InRegion

\* Writing back a byte that differs in one line changes that line alone.
LEMMA StoredByte ==
  ASSUME NEW r \in SUBSET Line, NEW l \in Line, NEW o, o.line = l
  PROVE  LET new == Stored(r, l, NewOe(o, Byte(r, l)))
         IN  /\ l \in new <=> o.name = "out"
             /\ \A m \in Line \ {l} : m \in new <=> m \in r
  BY DEF Stored, NewOe, Byte, Group

DirectionParts == SelectedInv /\ OperationInv /\ DirectionInv /\ DirectionSticks

LEMMA WriteOeDirections ==
  ASSUME IInv, NEW t \in Thread, WriteOe(t)
  PROVE  DirectionParts'
<1> TypeOK /\ PlaceInv /\ LocksGivenBack /\ SelectedInv /\ OperationInv
    /\ DirectionInv /\ DirectionSticks
  BY DEF IInv
<1> DEFINE l == op[t].line
<1>1. pc[t] = "oeWrite" /\ op[t].name # "set" /\ ready
  BY DEF WriteOe, PlaceInv
<1>2. op[t] \in Operation /\ l \in Line
  BY <1>1, BusyOperation, OperationFields
<1>3. SelectedInv' /\ DirectionInv'
  BY <1>1 DEF WriteOe, kernel, SelectedInv, DirectionInv
<1>4. OperationInv' /\ DirectionSticks'
  <2> SUFFICES ASSUME Activated PROVE OperationInv' /\ DirectionSticks'
    BY DEF OperationInv, DirectionSticks
  <2>1. /\ ldn = GPIO
        /\ \A u \in Thread : pc[u] \in InRegion /\ op[u].name # "set" => u = t
    BY <1>1, OwnsPorts DEF InRegion
  <2>2. oe'[GPIO] = Stored(oe[GPIO], l, NewOe(op[t], Byte(oe[GPIO], l)))
    BY <1>1, <2>1 DEF WriteOe, OperationInv, TypeOK
  <2>3. \A u \in Thread : pc'[u] \in {"oeRead", "oeWrite"} => u = t
    BY <2>1 DEF WriteOe, Goto, TypeOK, PlaceInv, InRegion
  <2>4. pc'[t] \notin {"oeRead", "oeWrite"}
    BY DEF WriteOe, Goto, TypeOK
  <2>5. OperationInv'
    BY <2>3, <2>4 DEF OperationInv
  <2>6. /\ l \in oe'[GPIO] <=> op[t].name = "out"
        /\ \A m \in Line \ {l} : m \in oe'[GPIO] <=> m \in oe[GPIO]
    <3>1. oe[GPIO] \in SUBSET Line
      BY DEF TypeOK, Ldn
    <3> QED BY <1>2, <2>2, <3>1, StoredByte
  <2>7. l \in Simple => l \in simple[GPIO]
    BY <1>1 DEF OperationInv
  <2>8. direction'[l] = (IF op[t].name = "out" THEN "out" ELSE "in")
        /\ \A m \in Line \ {l} : direction'[m] = direction[m]
    BY <1>2 DEF WriteOe, TypeOK
  <2>9. simple' = simple
    BY DEF WriteOe
  <2>10. DirectionSticks'
    BY <2>6, <2>7, <2>8, <2>9 DEF DirectionSticks
  <2> QED BY <2>5, <2>10
<1> QED BY <1>3, <1>4 DEF DirectionParts

LEMMA StepDirections ==
  ASSUME IInv, NEW t \in Thread, Step(t)
  PROVE  DirectionParts'
<1> TypeOK /\ PlaceInv /\ LocksGivenBack /\ SelectedInv /\ OperationInv
    /\ DirectionInv /\ DirectionSticks
  BY DEF IInv
<1> pc[t] # "idle" /\ op[t] \in Operation /\ op[t].line \in Line
  <2>1. pc[t] # "idle"
    BY DEF Step, Lock, Enter, EnterFails, SetSimple, ReadOe, WriteOe,
           ReadData, WriteData, Exit, Unlock
  <2> QED BY <2>1, BusyOperation, OperationFields
<1>1. CASE WriteOe(t)
  BY <1>1, WriteOeDirections
<1>2. CASE SetSimple(t)
  <2>1. op[t].name # "set"
    BY <1>2 DEF SetSimple, PlaceInv
  <2>2. Activated => ldn = GPIO
    BY <1>2, <2>1, OwnsPorts DEF SetSimple, InRegion
  <2>3. Activated => simple'[GPIO] = simple[GPIO] \union {op[t].line}
    BY <1>2, <2>2 DEF SetSimple, TypeOK, Ldn
  <2> QED
    BY <1>2, <2>3 DEF SetSimple, kernel, history, Goto, TypeOK, DirectionParts, SelectedInv,
       OperationInv, DirectionInv, DirectionSticks
<1>3. CASE ReadOe(t)
  <2>1. Activated => ldn = GPIO
    BY <1>3, OwnsPorts DEF ReadOe, InRegion, PlaceInv
  <2> QED
    BY <1>3, <2>1 DEF ReadOe, chip, kernel, history, Goto, TypeOK, DirectionParts,
       SelectedInv, OperationInv, DirectionInv, DirectionSticks
<1>4. CASE Enter(t)
  <2>1. op[t].line \in Simple /\ pc'[t] \in {"oeRead", "oeWrite"} => direction[op[t].line] # Unset
    BY <1>4, OperationFields DEF Enter, Goto, TypeOK, PlaceInv
  <2>2. Activated /\ op[t].line \in Simple /\ pc'[t] \in {"oeRead", "oeWrite"} =>
          op[t].line \in simple[GPIO]
    BY <2>1 DEF DirectionSticks
  <2> QED
    BY <1>4, <2>2 DEF Enter, chip, history, Goto, TypeOK, DirectionParts, SelectedInv,
       OperationInv, DirectionInv, DirectionSticks
<1>5. CASE Lock(t) \/ EnterFails(t) \/ Exit(t) \/ Unlock(t)
  BY <1>5, NoOpFields DEF Lock, EnterFails, Exit, Unlock, Return, Goto, chip, history, TypeOK,
     DirectionParts, SelectedInv, OperationInv, DirectionInv, DirectionSticks
<1>6. CASE ReadData(t)
  BY <1>6 DEF ReadData, Goto, chip, kernel, history, TypeOK,
     DirectionParts, SelectedInv, OperationInv, DirectionInv, DirectionSticks
<1>7. CASE WriteData(t)
  BY <1>7 DEF WriteData, Return, Goto, kernel, TypeOK,
     DirectionParts, SelectedInv, OperationInv, DirectionInv, DirectionSticks
<1> QED BY <1>1, <1>2, <1>3, <1>4, <1>5, <1>6, <1>7 DEF Step

LEMMA DirectionStep == IInv /\ [Next]_vars => DirectionParts'
<1> SUFFICES ASSUME IInv, [Next]_vars PROVE DirectionParts'
  OBVIOUS
<1> TypeOK /\ PlaceInv /\ LocksGivenBack /\ SelectedInv /\ OperationInv
    /\ DirectionInv /\ DirectionSticks
  BY DEF IInv
<1> USE DEF DirectionParts, SelectedInv, OperationInv, DirectionInv, DirectionSticks
<1>1. CASE GpioInit
  BY <1>1 DEF GpioInit, history, LocksGivenBack
<1>2. CASE Find
  BY <1>2 DEF Find, FindEnter, FindSelectPme, FindSelectGpio, FindExit, chip, history
<1>3. ASSUME NEW t \in Thread, NEW o \in Operation, Begin(t, o)
      PROVE  DirectionParts'
  BY <1>3 DEF Begin, Goto, chip, kernel, history, TypeOK
<1>4. ASSUME NEW t \in Thread, Step(t)
      PROVE  DirectionParts'
  BY <1>4, StepDirections
<1>5. CASE UNCHANGED vars
  BY <1>5 DEF vars, chip, kernel, history
<1> QED BY <1>1, <1>2, <1>3, <1>4, <1>5 DEF Next
-----------------------------------------------------------------------------
(* Levels                                                                  *)

\* Thread t is about to give line l the level that goes with its direction.
Giving(t, l) == pc[t] \in {"read", "write"} /\ op[t].name = "out" /\ op[t].line = l

\* A step that writes neither the data port nor the Output Enable bits, and after
\* which each thread has the byte it had, or none it is about to write
LEMMA LevelsLeftAlone ==
  ASSUME IInv, UNCHANGED <<oe, latch, direction, level, atRisk>>,
         \A t \in Thread : \A l \in Line : Giving(t, l) => Giving(t, l)',
         \A t \in Thread : pc'[t] = "write" =>
           pc[t] = "write" /\ got'[t] = got[t] /\ op'[t].line = op[t].line,
         \A t \in Thread : pc'[t] = "oeWrite" =>
           pc[t] = "oeWrite" /\ got'[t] = got[t] /\ op'[t].line = op[t].line /\ ldn' = ldn
  PROVE  LevelInv'
<1>1. \A l \in Line : Settled(l)' => Settled(l)
  BY DEF Settled, Giving
<1>2. \A t \in Thread : Group(op[t].line) \subseteq Line
  BY DEF Group
<1> QED BY <1>1, <1>2 DEF IInv, LevelInv, Group, Byte

\* The steps at which only the thread's place changes, or what it holds
LEMMA PlaceLevels ==
  ASSUME IInv, NEW t \in Thread,
         Lock(t) \/ Enter(t) \/ EnterFails(t) \/ SetSimple(t) \/ Exit(t) \/ Unlock(t)
  PROVE  LevelInv'
<1> TypeOK
  BY DEF IInv
<1>1. /\ UNCHANGED <<oe, latch, direction, level, atRisk, got, ldn>>
      /\ \A u \in Thread \ {t} : pc'[u] = pc[u] /\ op'[u] = op[u]
      /\ pc[t] \notin {"read", "write"} /\ pc'[t] \notin {"read", "write", "oeWrite"}
  BY DEF Lock, Enter, EnterFails, SetSimple, Exit, Unlock, Return, Goto, chip, history, TypeOK
<1> QED BY <1>1, LevelsLeftAlone DEF Giving

\* The Output Enable bit is that of the operation's own line, in any logical device.
LEMMA WriteOeLevels ==
  ASSUME IInv, NEW t \in Thread, WriteOe(t)
  PROVE  LevelInv'
<1> TypeOK /\ PlaceInv /\ LevelInv
  BY DEF IInv
<1> DEFINE l == op[t].line
<1>1. pc[t] = "oeWrite" /\ op[t].name # "set" /\ region = t /\ op[t] \in Operation /\ l \in Line
  <2>1. pc[t] = "oeWrite" /\ op[t].name # "set"
    BY DEF WriteOe, PlaceInv
  <2> QED BY <2>1, BusyOperation, OperationFields DEF PlaceInv, InRegion
<1>2. /\ UNCHANGED <<ldn, latch, op, level, atRisk>>
      /\ \A u \in Thread \ {t} : pc'[u] = pc[u] /\ got'[u] = got[u]
      /\ pc'[t] = IF op[t].name = "out" THEN "read" ELSE "exit"
      /\ \A m \in Line \ {l} : direction'[m] = direction[m]
      /\ direction'[l] = IF op[t].name = "out" THEN "out" ELSE "in"
  BY <1>1 DEF WriteOe, Goto, TypeOK
<1>3. \A m \in Line \ {l} : m \in oe'[GPIO] <=> m \in oe[GPIO]
  <2>1. oe[ldn] \in SUBSET Line /\ GPIO \in Ldn
    BY DEF TypeOK, Ldn
  <2>2. oe' = [oe EXCEPT ![ldn] = Stored(oe[ldn], l, NewOe(op[t], Byte(oe[ldn], l)))]
    BY <1>1 DEF WriteOe, LevelInv
  <2>3. \A m \in Line \ {l} :
          m \in Stored(oe[ldn], l, NewOe(op[t], Byte(oe[ldn], l))) <=> m \in oe[ldn]
    BY <1>1, <2>1, StoredByte
  <2> QED BY <2>1, <2>2, <2>3 DEF TypeOK
<1>4. ASSUME NEW m \in Line, Settled(m)' PROVE m # l /\ Settled(m)
  <2>1. m # l
    BY <1>1, <1>2, <1>4 DEF Settled
  <2> QED BY <1>1, <1>2, <1>3, <1>4, <2>1 DEF Settled
<1>5. \A u \in Thread : pc'[u] = "write" => pc[u] = "write" /\ got'[u] = got[u]
  BY <1>2
<1>6. \A u \in Thread : pc'[u] # "oeWrite"
  <2>1. \A u \in Thread : pc[u] = "oeWrite" => op[u].name # "set" /\ region = u
    BY DEF PlaceInv, InRegion
  <2> QED BY <1>1, <1>2, <2>1
<1>7. \A u \in Thread : Group(op[u].line) \subseteq Line
  BY DEF Group
<1> QED BY <1>2, <1>4, <1>5, <1>6, <1>7 DEF LevelInv, Group

\* The byte read has the level of every output of the group.
LEMMA ReadDataLevels ==
  ASSUME IInv, NEW t \in Thread, ReadData(t)
  PROVE  LevelInv'
<1> TypeOK /\ LevelInv
  BY DEF IInv
<1> DEFINE l == op[t].line
<1>1. PICK pins \in SUBSET (Group(l) \ oe[GPIO]) :
        got' = [got EXCEPT ![t] = Byte(latch \cap oe[GPIO], l) \union pins]
  BY DEF ReadData
<1>2. /\ UNCHANGED <<ldn, oe, latch, op, direction, level, atRisk>>
      /\ pc[t] = "read" /\ pc' = [pc EXCEPT ![t] = "write"]
  BY DEF ReadData, Goto, chip, history
<1>3. \A m \in Line : Settled(m)' => Settled(m)
  BY <1>2 DEF Settled, TypeOK
<1>4. /\ got'[t] = (latch \cap oe[GPIO] \cap Group(l)) \union pins
      /\ \A u \in Thread \ {t} : got'[u] = got[u] /\ pc'[u] = pc[u]
  BY <1>1, <1>2 DEF Byte, TypeOK
<1>5. got'[t] \subseteq Group(l)
  BY <1>1, <1>4
<1>6. ASSUME NEW m \in Group(l), Settled(m)' PROVE m \in got'[t] <=> level'[m] = "high"
  <2>1. m \in Line /\ Settled(m) /\ m \in oe[GPIO]
    BY <1>3, <1>6 DEF Group, Settled
  <2>2. m \in got'[t] <=> m \in latch
    BY <1>1, <1>4, <1>6, <2>1
  <2> QED BY <1>2, <2>1, <2>2 DEF LevelInv
<1>7. \A u \in Thread : Group(op[u].line) \subseteq Line
  BY DEF Group
<1>8. pc'[t] = "write"
  BY <1>2 DEF TypeOK
<1> QED BY <1>2, <1>3, <1>4, <1>5, <1>6, <1>7, <1>8 DEF LevelInv, Group, Byte

\* The byte written has its own line's new level, and the level of every other
\* output of the group; a thread with an older byte puts the line at risk.
LEMMA WriteDataLevels ==
  ASSUME IInv, NEW t \in Thread, WriteData(t)
  PROVE  LevelInv'
<1> TypeOK /\ PlaceInv /\ LevelInv
  BY DEF IInv
<1> DEFINE l == op[t].line
           behind == {u \in Thread \ {t} : pc[u] = "write" /\ GroupOf[op[u].line] = GroupOf[l]}
<1>1. /\ pc[t] = "write" /\ op[t] \in Operation /\ l \in Line
      /\ op[t].val \in {"low", "high"} /\ got[t] \subseteq Group(l)
  <2>1. pc[t] = "write"
    BY DEF WriteData
  <2> QED BY <2>1, BusyOperation, OperationFields DEF PlaceInv, LevelInv
<1>2. /\ latch' = Stored(latch, l, NewData(op[t], got[t]))
      /\ level' = [level EXCEPT ![l] = op[t].val]
      /\ atRisk' = IF behind # {} THEN atRisk \union {l} ELSE atRisk \ {l}
      /\ UNCHANGED <<ldn, oe, direction>>
      /\ pc'[t] \in {"idle", "exit"}
      /\ \A u \in Thread \ {t} : pc'[u] = pc[u] /\ op'[u] = op[u] /\ got'[u] = got[u]
  BY DEF WriteData, Return, Goto, TypeOK
<1>3. /\ level'[l] = op[t].val
      /\ \A m \in Line \ {l} : level'[m] = level[m] /\ (m \in atRisk' <=> m \in atRisk)
  BY <1>1, <1>2 DEF TypeOK
<1>4. ASSUME NEW m \in Line \ {l}, Settled(m)' PROVE Settled(m)
  BY <1>1, <1>2, <1>3, <1>4 DEF Settled
<1>5. ASSUME NEW m \in Line, Settled(m)' PROVE m \in latch' <=> level'[m] = "high"
  <2>1. CASE m = l
    <3>1. m \in latch' <=> op[t].val = "high"
      BY <1>1, <1>2, <2>1 DEF Stored, NewData, Group
    <3> QED BY <1>3, <2>1, <3>1
  <2>2. CASE m # l /\ m \in Group(l)
    <3>1. m \in latch' <=> m \in got[t]
      BY <1>2, <2>2 DEF Stored, NewData
    <3>2. Settled(m)
      BY <1>4, <1>5, <2>2
    <3>3. m \in got[t] <=> level[m] = "high"
      BY <1>1, <2>2, <3>2 DEF LevelInv
    <3> QED BY <1>3, <2>2, <3>1, <3>3
  <2>3. CASE m # l /\ m \notin Group(l)
    <3>1. m \in latch' <=> m \in latch
      BY <1>1, <1>2, <2>3 DEF Stored, NewData
    <3>2. Settled(m)
      BY <1>4, <1>5, <2>3
    <3> QED BY <1>3, <2>3, <3>1, <3>2 DEF LevelInv
  <2> QED BY <2>1, <2>2, <2>3
<1>6. ASSUME NEW u \in Thread, pc'[u] = "write"
      PROVE  /\ got'[u] \subseteq Group(op'[u].line)
             /\ \A m \in Group(op'[u].line) \ {op'[u].line} :
                  Settled(m)' => (m \in got'[u] <=> level'[m] = "high")
  <2>1. u # t /\ pc[u] = "write" /\ got'[u] = got[u] /\ op'[u] = op[u]
    BY <1>2, <1>6
  <2>2. SUFFICES ASSUME NEW m \in Group(op[u].line) \ {op[u].line}, Settled(m)'
                 PROVE  m \in got[u] <=> level'[m] = "high"
    BY <2>1 DEF LevelInv
  <2>3. m \in Line /\ GroupOf[m] = GroupOf[op[u].line]
    BY <2>2 DEF Group
  <2>4. m # l
    <3> SUFFICES ASSUME m = l PROVE FALSE
      OBVIOUS
    <3>1. u \in behind
      BY <2>1, <2>3
    <3>2. l \in atRisk'
      BY <1>2, <3>1
    <3> QED BY <2>2, <3>2 DEF Settled
  <2> QED BY <1>3, <1>4, <2>1, <2>2, <2>3, <2>4 DEF LevelInv
<1>7. ASSUME NEW u \in Thread, pc'[u] = "oeWrite" PROVE got'[u] = Byte(oe'[ldn'], op'[u].line)
  <2>1. u # t /\ pc[u] = "oeWrite" /\ got'[u] = got[u] /\ op'[u] = op[u]
    BY <1>2, <1>7
  <2> QED BY <1>2, <2>1 DEF LevelInv, Byte, Group
<1> QED BY <1>5, <1>6, <1>7 DEF LevelInv, Group, Byte

LEMMA LevelStep == IInv /\ [Next]_vars => LevelInv'
<1> SUFFICES ASSUME IInv, [Next]_vars PROVE LevelInv'
  OBVIOUS
<1> TypeOK /\ PlaceInv /\ LocksGivenBack
  BY DEF IInv
<1>1. CASE GpioInit \/ Find
  <2>1. /\ UNCHANGED <<oe, latch, direction, level, atRisk, pc, op, got>>
        /\ \A u \in Thread : pc[u] = "oeWrite" => ldn' = ldn
    BY <1>1, ThreadAssumption DEF GpioInit, Find, FindEnter, FindSelectPme, FindSelectGpio,
       FindExit, chip, history, PlaceInv, LocksGivenBack, InRegion
  <2> QED BY <2>1, LevelsLeftAlone DEF Giving
<1>2. ASSUME NEW t \in Thread, NEW o \in Operation, Begin(t, o)
      PROVE  LevelInv'
  <2>1. /\ UNCHANGED <<ldn, oe, latch, direction, level, atRisk, got>>
        /\ \A u \in Thread \ {t} : pc'[u] = pc[u] /\ op'[u] = op[u]
        /\ pc[t] = "idle" /\ pc'[t] \in {"read", "lock"}
    BY <1>2 DEF Begin, Goto, chip, history, TypeOK
  <2> QED BY <2>1, LevelsLeftAlone DEF Giving
<1>3. ASSUME NEW t \in Thread, Step(t)
      PROVE  LevelInv'
  <2>1. CASE ReadOe(t)
    <3>1. /\ UNCHANGED <<ldn, oe, latch, direction, level, atRisk, op>>
          /\ \A u \in Thread \ {t} : pc'[u] = pc[u] /\ got'[u] = got[u]
          /\ pc[t] = "oeRead" /\ pc'[t] = "oeWrite"
          /\ got'[t] = Byte(oe[ldn], op[t].line)
      BY <2>1 DEF ReadOe, Goto, chip, history, TypeOK
    <3>2. \A l \in Line : Settled(l)' => Settled(l)
      BY <3>1 DEF Settled
    <3>3. \A u \in Thread : Group(op[u].line) \subseteq Line
      BY DEF Group
    <3> QED BY <3>1, <3>2, <3>3 DEF IInv, LevelInv, Group, Byte
  <2> QED BY <1>3, <2>1, PlaceLevels, WriteOeLevels, ReadDataLevels, WriteDataLevels DEF Step
<1>4. CASE UNCHANGED vars
  BY <1>4, LevelsLeftAlone DEF vars, chip, kernel, history, Giving
<1> QED BY <1>1, <1>2, <1>3, <1>4 DEF Next
-----------------------------------------------------------------------------

LEMMA Inductive == Spec => []IInv
<1>1. IInv /\ [Next]_vars => IInv'
  BY TypeStep, PlaceStep, DirectionStep, LevelStep DEF IInv, DirectionParts
<1> QED BY <1>1, InitIInv, PTL DEF Spec

(***************************************************************************)
(* Every variable of the GPIO driver, and of the it87_find that shares its *)
(* ports, keeps its type, for any number of threads, lines and groups.     *)
(***************************************************************************)
THEOREM TypeCorrect == Spec => []TypeOK
<1>1. IInv => TypeOK
  BY DEF IInv
<1> QED BY <1>1, Inductive, PTL

(***************************************************************************)
(* The spinlock and the ports of gpio-it87ts.c are given back on every     *)
(* path, superio_enter's failure included.                                 *)
(***************************************************************************)
THEOREM LocksReturned == Spec => []LocksGivenBack
<1>1. IInv => LocksGivenBack
  BY DEF IInv
<1> QED BY <1>1, Inductive, PTL

(***************************************************************************)
(* A line keeps the direction it was last given: the Output Enable byte is *)
(* changed in the GPIO device and no update of it is lost, whenever it87ts *)
(* is loaded, if it87_find comes as far as selecting the GPIO device.      *)
(***************************************************************************)
THEOREM DirectionsKept == Spec => []DirectionSticks
<1>1. IInv => DirectionSticks
  BY DEF IInv
<1> QED BY <1>1, Inductive, PTL

(***************************************************************************)
(* An output loses its level only to a thread that was between the inb and *)
(* the outb of it87_gpio_set on the same group when the level was written: *)
(* no other operation, no direction change of a neighbour and no loading   *)
(* of it87ts disturbs it.                                                  *)
(***************************************************************************)
THEOREM LevelsKeptUnlessRaced == Spec => []LevelSticksUnlessRaced
<1>1. IInv => LevelSticksUnlessRaced
  <2> SUFFICES ASSUME IInv, NEW l \in Line \ atRisk, Driven(l)
               PROVE  l \in latch <=> level[l] = "high"
    BY DEF LevelSticksUnlessRaced
  <2>1. Settled(l)
    BY DEF Driven, Settled
  <2> QED BY <2>1 DEF IInv, LevelInv
<1> QED BY <1>1, Inductive, PTL
=============================================================================
