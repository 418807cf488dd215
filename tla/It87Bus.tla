------------------------------ MODULE It87Bus ------------------------------
(***************************************************************************)
(* Register access in it87ts.c.  The chip exposes an address port and a    *)
(* data port; chips with FEAT_BANK_SEL put further registers behind a bank *)
(* number kept in bits 7-5 of IT87_REG_BANK, which the driver caches in    *)
(* data->bank.  An access is therefore up to six port operations, and only *)
(* data->update_lock keeps those of two threads apart.                     *)
(*                                                                         *)
(* A step is one port operation with the memory operations that precede it *)
(* since the previous one.  A handler is any sequence of register accesses *)
(* between mutex_lock and mutex_unlock; NextAsBuilt adds the callers that  *)
(* read registers without the lock (get_temp_type, and set_temp_type       *)
(* before its mutex_lock).                                                 *)
(***************************************************************************)
EXTENDS Integers

CONSTANTS Thread,     \* kernel threads inside sysfs handlers of one chip
          NoThread,   \* the value of update_lock when nobody holds it
          Reg,        \* 16-bit register addresses: bank * 256 + offset
          UnlockedReg,\* those among them that get_temp_type and set_temp_type read
          Value,      \* the bytes handlers write
          HasBankSel, \* FEAT_BANK_SEL: the chip has banks
          PowerOn     \* PowerOn[c]: what cell c holds when the driver loads

Byte == 0..255
IT87_REG_BANK == 6
BankOf(r) == r \div 256
OffsetOf(r) == r % 256
Offset == {OffsetOf(r) : r \in Reg}
Cell == (0..7) \X Offset

ASSUME NoThreadAssumption == NoThread \notin Thread
ASSUME ValueAssumption == Value \subseteq Byte /\ Value # {}
ASSUME BankSelAssumption == HasBankSel \in BOOLEAN
\* The chips without banks have all their registers in bank 0, and no handler
\* accesses the bank register itself.
ASSUME RegAssumption ==
  \A r \in Reg : /\ r \in 0..2047
                 /\ OffsetOf(r) # IT87_REG_BANK
                 /\ ~HasBankSel => r < 256
ASSUME UnlockedRegAssumption == UnlockedReg \subseteq Reg
ASSUME PowerOnAssumption == PowerOn \in [Cell -> Byte]

VARIABLES update_lock, \* data->update_lock: its holder, or NoThread
          pc,          \* pc[t]: where t is, see Phase
          req,         \* req[t]: the register access t is in, or was in last
          breg,        \* breg[t]: the local of it87_set_bank
          ret,         \* ret[t]: what t's last it87_read_value returned
          bank,        \* data->bank, 0xff until the first bank switch
          addr,        \* the chip's address latch
          bankReg,     \* the chip's bank register
          store        \* the chip's other registers

vars == <<update_lock, pc, req, breg, ret, bank, addr, bankReg, store>>
chip == <<addr, bankReg, store>>

Request == [reg : Reg, write : BOOLEAN, val : Value]

\* idle: outside any handler; held: in a handler, between accesses;
\* called: at the entry of an accessor; read_bank .. write_bank: in
\* it87_set_bank; select: bank set; data: register selected.
InAccess == {"called", "read_bank", "addr_bank", "write_bank", "select", "data"}
Phase == {"idle", "held"} \union InAccess

-----------------------------------------------------------------------------
(* The chip (external): what its two ports do.                             *)

CurBank == IF HasBankSel THEN bankReg \div 32 ELSE 0

SelectedCell == <<CurBank, addr>>

\* inb_p(addr + IT87_DATA_REG_OFFSET)
Inb == IF addr = IT87_REG_BANK THEN bankReg ELSE store[SelectedCell]

\* outb_p(v, addr + IT87_DATA_REG_OFFSET)
Outb(v) ==
  /\ bankReg' = IF addr = IT87_REG_BANK THEN v ELSE bankReg
  /\ store' = IF addr = IT87_REG_BANK THEN store ELSE [store EXCEPT ![SelectedCell] = v]
  /\ UNCHANGED addr

\* outb_p(o, addr + IT87_ADDR_REG_OFFSET)
OutbAddr(o) == addr' = o /\ UNCHANGED <<bankReg, store>>
-----------------------------------------------------------------------------

Init ==
  /\ update_lock = NoThread
  /\ pc = [t \in Thread |-> "idle"]
  /\ \E q \in Request : req = [t \in Thread |-> q]
  /\ breg = [t \in Thread |-> 0]
  /\ ret = [t \in Thread |-> 0]
  /\ bank = 255
  /\ addr \in Offset
  /\ bankReg \in {32 * b + 1 : b \in 0..7}
  /\ store = PowerOn

Goto(t, phase) == pc' = [pc EXCEPT ![t] = phase]

\* Mutant: mutex_lock does not wait.
LockFreeNoWait(t) == TRUE

LockFree(t) == update_lock = NoThread

\* mutex_lock(&data->update_lock), at the start of every locked handler
Lock(t) ==
  /\ pc[t] = "idle"
  /\ LockFree(t)
  /\ update_lock' = t
  /\ Goto(t, "held")
  /\ UNCHANGED <<req, breg, ret, bank, chip>>

\* mutex_unlock(&data->update_lock)
Unlock(t) ==
  /\ pc[t] = "held"
  /\ update_lock' = NoThread
  /\ Goto(t, "idle")
  /\ UNCHANGED <<req, breg, ret, bank, chip>>

\* A locked handler enters it87_read_value or it87_write_value.
Call(t) ==
  /\ pc[t] = "held"
  /\ \E q \in Request : req' = [req EXCEPT ![t] = q]
  /\ Goto(t, "called")
  /\ UNCHANGED <<update_lock, breg, ret, bank, chip>>

\* get_temp_type, and set_temp_type before its mutex_lock, enter
\* it87_read_value without the lock.
CallUnlocked(t) ==
  /\ pc[t] = "idle"
  /\ \E q \in Request :
       /\ q.reg \in UnlockedReg /\ ~q.write
       /\ req' = [req EXCEPT ![t] = q]
  /\ Goto(t, "called")
  /\ UNCHANGED <<update_lock, breg, ret, bank, chip>>

\* Mutant: the bank is never switched.
BankDiffersNever(t) == FALSE

\* it87_set_bank's condition
BankDiffers(t) == HasBankSel /\ BankOf(req[t].reg) # bank

\* it87_set_bank: _it87_read_value(data, IT87_REG_BANK) selects the register
SelectBankReg(t) ==
  /\ pc[t] = "called"
  /\ BankDiffers(t)
  /\ OutbAddr(IT87_REG_BANK)
  /\ Goto(t, "read_bank")
  /\ UNCHANGED <<update_lock, req, breg, ret, bank>>

\* ... and reads it
ReadBankReg(t) ==
  /\ pc[t] = "read_bank"
  /\ breg' = [breg EXCEPT ![t] = Inb]
  /\ Goto(t, "addr_bank")
  /\ UNCHANGED <<update_lock, req, ret, bank, chip>>

\* Mutants: the old bank is not masked out; the new one is not put in.
InsertBankUnmasked(b, k) == b + 32 * k
InsertBankDropped(b, k) == b % 32

\* breg &= 0x1f; breg |= bank << 5
InsertBank(b, k) == (b % 32) + 32 * k

\* ... computes the byte to write, assigns data->bank before the chip has been
\* told, and _it87_write_value selects the register again
ReselectBankReg(t) ==
  /\ pc[t] = "addr_bank"
  /\ breg' = [breg EXCEPT ![t] = InsertBank(@, BankOf(req[t].reg))]
  /\ bank' = BankOf(req[t].reg)
  /\ OutbAddr(IT87_REG_BANK)
  /\ Goto(t, "write_bank")
  /\ UNCHANGED <<update_lock, req, ret>>

WriteBankReg(t) ==
  /\ pc[t] = "write_bank"
  /\ Outb(breg[t])
  /\ Goto(t, "select")
  /\ UNCHANGED <<update_lock, req, breg, ret, bank>>

\* _it87_read_value(data, reg & 0xff) or _it87_write_value(data, reg & 0xff, v)
\* selects the register, once the bank is right
SelectReg(t) ==
  /\ \/ pc[t] = "called" /\ ~BankDiffers(t)
     \/ pc[t] = "select"
  /\ OutbAddr(OffsetOf(req[t].reg))
  /\ Goto(t, "data")
  /\ UNCHANGED <<update_lock, req, breg, ret, bank>>

\* Where an accessor returns to: a locked handler, or an unlocked caller.
Return(t) == Goto(t, IF update_lock = t THEN "held" ELSE "idle")

ReadData(t) ==
  /\ pc[t] = "data"
  /\ ~req[t].write
  /\ ret' = [ret EXCEPT ![t] = Inb]
  /\ Return(t)
  /\ UNCHANGED <<update_lock, req, breg, bank, chip>>

WriteData(t) ==
  /\ pc[t] = "data"
  /\ req[t].write
  /\ Outb(req[t].val)
  /\ Return(t)
  /\ UNCHANGED <<update_lock, req, breg, ret, bank>>

SetBank(t) ==
  SelectBankReg(t) \/ ReadBankReg(t) \/ ReselectBankReg(t) \/ WriteBankReg(t)

Access(t) == SetBank(t) \/ SelectReg(t) \/ ReadData(t) \/ WriteData(t)

Handler(t) == Lock(t) \/ Call(t) \/ Access(t) \/ Unlock(t)

Next == \E t \in Thread : Handler(t)

Spec == Init /\ [][Next]_vars

NextAsBuilt == \E t \in Thread : Handler(t) \/ CallUnlocked(t)

SpecAsBuilt == Init /\ [][NextAsBuilt]_vars
-----------------------------------------------------------------------------

TypeOK ==
  /\ update_lock \in Thread \union {NoThread}
  /\ pc \in [Thread -> Phase]
  /\ req \in [Thread -> Request]
  /\ breg \in [Thread -> Byte]
  /\ ret \in [Thread -> Byte]
  /\ bank \in 0..7 \union {255}
  /\ addr \in Offset \union {IT87_REG_BANK}
  /\ bankReg \in Byte
  /\ store \in [Cell -> Byte]

(***************************************************************************)
(* A port operation on the data port reaches the register its caller asked *)
(* for: the address latch and the chip's bank are still those the caller   *)
(* selected, whatever the other threads did in between.  This is what the  *)
(* comment on both accessors ("Must be called with data->update_lock       *)
(* held") is for.                                                          *)
(***************************************************************************)
AccessHitsRegister ==
  \A t \in Thread :
    /\ pc[t] = "data" =>
         SelectedCell = <<BankOf(req[t].reg), OffsetOf(req[t].reg)>>
    /\ pc[t] \in {"read_bank", "write_bank"} => addr = IT87_REG_BANK

(***************************************************************************)
(* The part of it that a handler which does hold the lock relies on most:  *)
(* what it writes lands in the register it names.  The comment requires    *)
(* the lock of every caller; this is what is lost when one does without.   *)
(***************************************************************************)
LockedWriteLands ==
  \A t \in Thread :
    pc[t] = "data" /\ update_lock = t /\ req[t].write =>
      SelectedCell = <<BankOf(req[t].reg), OffsetOf(req[t].reg)>>

(***************************************************************************)
(* data->bank may be trusted: whenever no bank switch is under way, it is  *)
(* the chip's bank, or 0xff before the first switch.  it87_set_bank skips  *)
(* the switch on the strength of this, and assigns data->bank before the   *)
(* chip is told.                                                           *)
(***************************************************************************)
BankCacheTrue ==
  (\A t \in Thread : pc[t] # "write_bank") =>
    ~HasBankSel \/ bank \in {255, CurBank}

\* The inductive invariant behind the three: who is past mutex_lock holds it,
\* and what each phase of an access has established so far.
LockInv == \A t \in Thread : pc[t] # "idle" => update_lock = t

PhaseInv ==
  \A t \in Thread :
    /\ pc[t] \in {"read_bank", "addr_bank", "write_bank", "select"} => HasBankSel
    /\ pc[t] \in {"read_bank", "write_bank"} => addr = IT87_REG_BANK
    /\ pc[t] = "write_bank" => breg[t] \div 32 = BankOf(req[t].reg)
    /\ pc[t] \in {"write_bank", "select"} => bank = BankOf(req[t].reg)
    /\ pc[t] \in {"select", "data"} => CurBank = BankOf(req[t].reg)
    /\ pc[t] = "data" => addr = OffsetOf(req[t].reg)

IInv == TypeOK /\ LockInv /\ PhaseInv /\ BankCacheTrue

\* The accessors implement an atomic register file: each access takes effect
\* at its data-port operation.
RF == INSTANCE RegFile WITH
        PowerOn <- [r \in Reg |-> PowerOn[<<BankOf(r), OffsetOf(r)>>]],
        mem <- [r \in Reg |-> store[<<BankOf(r), OffsetOf(r)>>]],
        busy <- {t \in Thread : pc[t] \in InAccess}

\* Every read returns the last value written to that register and every
\* write changes that register alone, for all interleavings of the handlers.
AtomicRegisters == RF!Spec
=============================================================================
