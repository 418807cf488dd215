--------------------------- MODULE It87BusProofs ---------------------------
(***************************************************************************)
(* Proofs about It87Bus, for any set of threads, registers and bytes: the  *)
(* inductive invariant, the three invariants that follow from it, and that *)
(* the accessors implement the atomic register file RegFile.               *)
(***************************************************************************)
EXTENDS It87Bus, TLAPS

LEMMA RegFacts ==
  ASSUME NEW r \in Reg
  PROVE  /\ BankOf(r) \in 0..7
         /\ OffsetOf(r) \in Offset
         /\ OffsetOf(r) # IT87_REG_BANK
         /\ ~HasBankSel => BankOf(r) = 0
         /\ <<BankOf(r), OffsetOf(r)>> \in Cell
<1>1. r \in 0..2047 /\ OffsetOf(r) # IT87_REG_BANK /\ (~HasBankSel => r < 256)
  BY RegAssumption
<1>2. BankOf(r) \in 0..7 /\ (~HasBankSel => BankOf(r) = 0)
  <2>1. r \in Int /\ 0 <= r /\ r < 8 * 256
    BY <1>1, SMT
  <2>2. r \div 256 \in Int /\ 0 <= r \div 256 /\ r \div 256 < 8 /\ (r < 256 => r \div 256 = 0)
    BY <2>1, SMT
  <2> QED BY <1>1, <2>2 DEF BankOf
<1>3. OffsetOf(r) \in Offset
  BY DEF Offset
<1> QED
  BY <1>1, <1>2, <1>3 DEF Cell

\* What it87_set_bank writes is a byte whose bank field is the wanted bank.
LEMMA InsertBankFacts ==
  ASSUME NEW b \in Byte, NEW k \in 0..7
  PROVE  InsertBank(b, k) \in Byte /\ InsertBank(b, k) \div 32 = k
BY DEF InsertBank, Byte

LEMMA ChipFacts ==
  ASSUME TypeOK
  PROVE  /\ CurBank \in 0..7
         /\ Inb \in Byte
         /\ addr # IT87_REG_BANK => SelectedCell \in Cell
<1>1. CurBank \in 0..7
  BY DEF TypeOK, CurBank, Byte
<1>2. addr # IT87_REG_BANK => SelectedCell \in Cell
  BY <1>1 DEF TypeOK, SelectedCell, Cell
<1> QED
  BY <1>1, <1>2 DEF TypeOK, Inb

LEMMA OutbType ==
  ASSUME TypeOK, NEW v \in Byte, Outb(v)
  PROVE  bankReg' \in Byte /\ store' \in [Cell -> Byte] /\ addr' = addr
<1>1. bankReg' \in Byte /\ addr' = addr
  BY DEF TypeOK, Outb
<1>2. store' \in [Cell -> Byte]
  BY ChipFacts DEF TypeOK, Outb
<1> QED
  BY <1>1, <1>2

LEMMA ReqType ==
  ASSUME TypeOK, NEW t \in Thread
  PROVE  /\ req[t] \in Request
         /\ req[t].reg \in Reg
         /\ req[t].val \in Byte
         /\ BankOf(req[t].reg) \in 0..7
         /\ OffsetOf(req[t].reg) \in Offset
         /\ OffsetOf(req[t].reg) # IT87_REG_BANK
         /\ ~HasBankSel => BankOf(req[t].reg) = 0
<1>1. req[t] \in Request /\ req[t].reg \in Reg
  BY DEF TypeOK, Request
<1>2. req[t].val \in Byte
  BY <1>1, ValueAssumption DEF Request
<1> QED
  BY <1>1, <1>2, RegFacts

\* Facts of one step that the preservation proofs share.
LEMMA OutbAddrType ==
  ASSUME TypeOK, NEW o \in Offset \union {IT87_REG_BANK}, OutbAddr(o)
  PROVE  /\ addr' = o
         /\ bankReg' = bankReg
         /\ store' = store
         /\ CurBank' = CurBank
BY DEF OutbAddr, CurBank

LEMMA InitIInv == Init => IInv
<1> SUFFICES ASSUME Init PROVE IInv
  OBVIOUS
<1>1. TypeOK
  <2>1. req \in [Thread -> Request]
    BY DEF Init
  <2>2. bankReg \in Byte
    BY DEF Init, Byte
  <2> QED
    BY <2>1, <2>2, PowerOnAssumption DEF Init, TypeOK, Phase, InAccess, Byte
<1>2. LockInv /\ PhaseInv /\ BankCacheTrue
  BY DEF Init, LockInv, PhaseInv, BankCacheTrue
<1> QED
  BY <1>1, <1>2 DEF IInv

LEMMA NextTypeOK == TypeOK /\ [Next]_vars => TypeOK'
<1> SUFFICES ASSUME TypeOK, [Next]_vars PROVE TypeOK'
  OBVIOUS
<1> USE DEF TypeOK, Goto, chip, Phase, InAccess
<1>1. CASE UNCHANGED vars
  BY <1>1 DEF vars
<1>2. ASSUME NEW t \in Thread, Lock(t) PROVE TypeOK'
  BY <1>2 DEF Lock
<1>3. ASSUME NEW t \in Thread, Unlock(t) PROVE TypeOK'
  BY <1>3 DEF Unlock
<1>4. ASSUME NEW t \in Thread, Call(t) PROVE TypeOK'
  BY <1>4 DEF Call
<1>5. ASSUME NEW t \in Thread, SelectBankReg(t) PROVE TypeOK'
  BY <1>5 DEF SelectBankReg, OutbAddr
<1>6. ASSUME NEW t \in Thread, ReadBankReg(t) PROVE TypeOK'
  BY <1>6, ChipFacts DEF ReadBankReg
<1>7. ASSUME NEW t \in Thread, ReselectBankReg(t) PROVE TypeOK'
  <2>1. breg[t] \in Byte
    OBVIOUS
  <2>2. BankOf(req[t].reg) \in 0..7
    BY ReqType
  <2>3. InsertBank(breg[t], BankOf(req[t].reg)) \in Byte
    BY <2>1, <2>2, InsertBankFacts
  <2> QED
    BY <1>7, <2>2, <2>3 DEF ReselectBankReg, OutbAddr
<1>8. ASSUME NEW t \in Thread, WriteBankReg(t) PROVE TypeOK'
  <2>1. breg[t] \in Byte
    OBVIOUS
  <2>2. Outb(breg[t])
    BY <1>8 DEF WriteBankReg
  <2> QED
    BY <1>8, <2>1, <2>2, OutbType DEF WriteBankReg
<1>9. ASSUME NEW t \in Thread, SelectReg(t) PROVE TypeOK'
  <2>1. OffsetOf(req[t].reg) \in Offset
    BY ReqType
  <2> QED
    BY <1>9, <2>1 DEF SelectReg, OutbAddr
<1>10. ASSUME NEW t \in Thread, ReadData(t) PROVE TypeOK'
  BY <1>10, ChipFacts DEF ReadData, Return
<1>11. ASSUME NEW t \in Thread, WriteData(t) PROVE TypeOK'
  <2>1. req[t].val \in Byte
    BY ReqType
  <2>2. Outb(req[t].val)
    BY <1>11 DEF WriteData
  <2> QED
    BY <1>11, <2>1, <2>2, OutbType DEF WriteData, Return
<1> QED
  BY <1>1, <1>2, <1>3, <1>4, <1>5, <1>6, <1>7, <1>8, <1>9, <1>10, <1>11
  DEF Next, Handler, Access, SetBank

\* What the three conjuncts beyond the types say of one thread.
ThreadInv(t) ==
  /\ pc[t] # "idle" => update_lock = t
  /\ pc[t] \in {"read_bank", "addr_bank", "write_bank", "select"} => HasBankSel
  /\ pc[t] \in {"read_bank", "write_bank"} => addr = IT87_REG_BANK
  /\ pc[t] = "write_bank" => breg[t] \div 32 = BankOf(req[t].reg)
  /\ pc[t] \in {"write_bank", "select"} => bank = BankOf(req[t].reg)
  /\ pc[t] \in {"select", "data"} => CurBank = BankOf(req[t].reg)
  /\ pc[t] = "data" => addr = OffsetOf(req[t].reg)

\* A step of t leaves every other thread idle, so PhaseInv only has to be
\* shown for t.
LEMMA OthersIdle ==
  ASSUME TypeOK, LockInv, NEW t \in Thread, update_lock = t,
         NEW phase, Goto(t, phase), NEW u \in Thread, u # t
  PROVE  pc[u] = "idle" /\ pc'[u] = "idle"
BY DEF TypeOK, LockInv, Goto

\* The inductive invariant is preserved by a step of a thread that holds the
\* lock and keeps it.
LEMMA LockedStep ==
  ASSUME IInv, NEW t \in Thread, update_lock = t, update_lock' = t,
         NEW phase, phase # "idle", Goto(t, phase), ThreadInv(t)',
         phase # "write_bank" => (~HasBankSel \/ bank \in {255, CurBank})'
  PROVE  (LockInv /\ PhaseInv /\ BankCacheTrue)'
<1>1. pc'[t] = phase /\ pc'[t] # "idle"
  BY DEF IInv, TypeOK, Goto
<1>2. \A u \in Thread : u # t => pc'[u] = "idle"
  BY OthersIdle DEF IInv
<1>3. LockInv'
  BY <1>2 DEF LockInv
<1>4. PhaseInv'
  BY <1>2 DEF PhaseInv, ThreadInv
<1>5. BankCacheTrue'
  BY <1>1 DEF BankCacheTrue
<1> QED
  BY <1>3, <1>4, <1>5

LEMMA NextIInv == IInv /\ [Next]_vars => (LockInv /\ PhaseInv /\ BankCacheTrue)'
<1> SUFFICES ASSUME IInv, [Next]_vars PROVE (LockInv /\ PhaseInv /\ BankCacheTrue)'
  OBVIOUS
<1> USE DEF InAccess
<1>1. CASE UNCHANGED vars
  BY <1>1 DEF vars, IInv, LockInv, PhaseInv, BankCacheTrue, CurBank
<1>2. ASSUME NEW t \in Thread, Lock(t) PROVE (LockInv /\ PhaseInv /\ BankCacheTrue)'
  <2>1. \A u \in Thread : pc[u] = "idle"
    BY <1>2, NoThreadAssumption DEF Lock, LockFree, IInv, LockInv
  <2>2. pc' = [pc EXCEPT ![t] = "held"] /\ update_lock' = t
    BY <1>2 DEF Lock, Goto
  <2>3. \A u \in Thread : pc'[u] = IF u = t THEN "held" ELSE "idle"
    BY <2>1, <2>2 DEF IInv, TypeOK
  <2>4. BankCacheTrue'
    BY <1>2, <2>1 DEF Lock, chip, IInv, BankCacheTrue, CurBank
  <2> QED
    BY <2>2, <2>3, <2>4 DEF LockInv, PhaseInv
<1>3. ASSUME NEW t \in Thread, Unlock(t) PROVE (LockInv /\ PhaseInv /\ BankCacheTrue)'
  <2>1. update_lock = t
    BY <1>3 DEF Unlock, IInv, LockInv
  <2>2. \A u \in Thread : pc[u] \in {"idle", "held"}
    BY <1>3, <2>1 DEF Unlock, IInv, LockInv
  <2>3. \A u \in Thread : pc'[u] = "idle"
    BY <1>3, <2>1 DEF Unlock, Goto, IInv, TypeOK, LockInv
  <2>4. BankCacheTrue'
    BY <1>3, <2>2 DEF Unlock, chip, IInv, BankCacheTrue, CurBank
  <2> QED
    BY <2>3, <2>4 DEF LockInv, PhaseInv
<1>4. ASSUME NEW t \in Thread, pc[t] # "idle", Call(t) \/ Access(t)
      PROVE (LockInv /\ PhaseInv /\ BankCacheTrue)'
  <2>1. update_lock = t /\ update_lock' = t
    BY <1>4 DEF IInv, LockInv, Call, Access, SetBank, SelectBankReg, ReadBankReg,
       ReselectBankReg, WriteBankReg, SelectReg, ReadData, WriteData
  <2>2. BankOf(req[t].reg) \in 0..7
    BY ReqType DEF IInv
  <2>3. \A u \in Thread : pc[u] = "write_bank" => u = t
    BY <2>1 DEF IInv, LockInv
  <2>4. pc[t] # "write_bank" => ~HasBankSel \/ bank \in {255, CurBank}
    BY <2>3 DEF IInv, BankCacheTrue
  <2>5. CASE Call(t)
    <3>1. pc[t] = "held" /\ Goto(t, "called") /\ UNCHANGED <<bank, bankReg>>
      BY <2>5 DEF Call, chip
    <3>2. ThreadInv(t)'
      BY <2>1, <3>1 DEF Goto, ThreadInv, IInv, TypeOK
    <3> QED
      BY <2>1, <2>4, <3>1, <3>2, LockedStep DEF CurBank
  <2>6. CASE SelectBankReg(t)
    <3>1. pc[t] = "called" /\ Goto(t, "read_bank") /\ UNCHANGED <<bank, bankReg>>
      BY <2>6 DEF SelectBankReg, OutbAddr
    <3>2. ThreadInv(t)'
      BY <2>1, <2>6, <3>1 DEF SelectBankReg, BankDiffers, OutbAddr, Goto, ThreadInv, IInv, TypeOK
    <3> QED
      BY <2>1, <2>4, <3>1, <3>2, LockedStep DEF CurBank
  <2>7. CASE ReadBankReg(t)
    <3>1. pc[t] = "read_bank" /\ Goto(t, "addr_bank") /\ UNCHANGED <<bank, bankReg>>
      BY <2>7 DEF ReadBankReg, chip
    <3>2. ThreadInv(t)'
      BY <2>1, <3>1 DEF Goto, ThreadInv, IInv, TypeOK, PhaseInv
    <3> QED
      BY <2>1, <2>4, <3>1, <3>2, LockedStep DEF CurBank
  <2>8. CASE ReselectBankReg(t)
    <3>1. pc[t] = "addr_bank" /\ Goto(t, "write_bank") /\ req' = req
      BY <2>8 DEF ReselectBankReg
    <3>2. breg'[t] \div 32 = BankOf(req[t].reg)
      <4>1. breg[t] \in Byte
        BY DEF IInv, TypeOK
      <4>2. breg'[t] = InsertBank(breg[t], BankOf(req[t].reg))
        BY <2>8 DEF ReselectBankReg, IInv, TypeOK
      <4> QED
        BY <2>2, <4>1, <4>2, InsertBankFacts
    <3>3. ThreadInv(t)'
      BY <2>1, <2>8, <3>1, <3>2 DEF ReselectBankReg, OutbAddr, Goto, ThreadInv, IInv, TypeOK, PhaseInv
    <3> QED
      BY <2>1, <3>1, <3>3, LockedStep
  <2>9. CASE WriteBankReg(t)
    <3>1. pc[t] = "write_bank" /\ Goto(t, "select") /\ UNCHANGED <<bank, req>>
      BY <2>9 DEF WriteBankReg
    <3>2. HasBankSel /\ CurBank' = BankOf(req[t].reg) /\ bank = BankOf(req[t].reg)
      BY <2>9, <3>1 DEF WriteBankReg, Outb, CurBank, IInv, PhaseInv
    <3>3. ThreadInv(t)'
      BY <2>1, <3>1, <3>2 DEF Goto, ThreadInv, IInv, TypeOK
    <3> QED
      BY <2>1, <3>1, <3>2, <3>3, LockedStep
  <2>10. CASE SelectReg(t)
    <3>1. Goto(t, "data") /\ UNCHANGED <<bank, bankReg, req>> /\ addr' = OffsetOf(req[t].reg)
      BY <2>10 DEF SelectReg, OutbAddr
    <3>2. CurBank = BankOf(req[t].reg) /\ pc[t] # "write_bank"
      <4>1. CASE pc[t] = "select"
        BY <4>1 DEF IInv, PhaseInv
      <4>2. CASE pc[t] = "called" /\ ~HasBankSel
        BY <4>2, ReqType DEF IInv, CurBank
      <4>3. CASE pc[t] = "called" /\ HasBankSel /\ BankOf(req[t].reg) = bank
        BY <2>2, <2>4, <4>3
      <4> QED
        BY <2>10, <4>1, <4>2, <4>3 DEF SelectReg, BankDiffers
    <3>3. ThreadInv(t)'
      BY <2>1, <3>1, <3>2 DEF Goto, ThreadInv, IInv, TypeOK, CurBank
    <3> QED
      BY <2>1, <2>4, <3>1, <3>2, <3>3, LockedStep DEF CurBank
  <2>11. CASE ReadData(t) \/ WriteData(t)
    <3>1. pc[t] = "data" /\ Goto(t, "held") /\ bank' = bank
      BY <2>1, <2>11 DEF ReadData, WriteData, Return
    <3>2. bankReg' = bankReg
      <4>1. addr # IT87_REG_BANK
        BY <3>1, ReqType DEF IInv, PhaseInv
      <4> QED
        BY <2>11, <4>1 DEF ReadData, WriteData, Outb, chip
    <3>3. ThreadInv(t)'
      BY <2>1, <3>1 DEF Goto, ThreadInv, IInv, TypeOK
    <3> QED
      BY <2>1, <2>4, <3>1, <3>2, <3>3, LockedStep DEF CurBank
  <2> QED
    BY <1>4, <2>5, <2>6, <2>7, <2>8, <2>9, <2>10, <2>11 DEF Access, SetBank
<1> QED
  BY <1>1, <1>2, <1>3, <1>4 DEF Next, Handler, Call, Access, SetBank, SelectBankReg,
     ReadBankReg, ReselectBankReg, WriteBankReg, SelectReg, ReadData, WriteData

LEMMA Inductive == Spec => []IInv
<1>1. IInv /\ [Next]_vars => IInv'
  BY NextTypeOK, NextIInv DEF IInv
<1> QED
  BY <1>1, InitIInv, PTL DEF Spec

\* Every variable keeps its type: in particular what it87_set_bank writes to
\* the bank register is a byte, and the bank it caches one of the eight.
THEOREM TypeCorrect == Spec => []TypeOK
<1>1. IInv => TypeOK
  BY DEF IInv
<1> QED
  BY <1>1, Inductive, PTL

\* With update_lock held by every caller, each port operation on the data port
\* reaches the register it is meant for (it87ts.c, the comment on both
\* accessors), for any number of threads and registers, banked chip or not.
THEOREM AccessCorrect == Spec => []AccessHitsRegister
<1>1. IInv => AccessHitsRegister
  BY DEF IInv, PhaseInv, AccessHitsRegister, SelectedCell
<1> QED
  BY <1>1, Inductive, PTL

\* it87_set_bank may skip the bank switch on the strength of data->bank.
THEOREM BankCacheCorrect == Spec => []BankCacheTrue
<1>1. IInv => BankCacheTrue
  BY DEF IInv
<1> QED
  BY <1>1, Inductive, PTL

-----------------------------------------------------------------------------
\* The refinement.  What a data-port operation of t does to the registers.
LEMMA DataPort ==
  ASSUME IInv, NEW t \in Thread, pc[t] = "data"
  PROVE  /\ addr # IT87_REG_BANK
         /\ SelectedCell = <<BankOf(req[t].reg), OffsetOf(req[t].reg)>>
         /\ SelectedCell \in Cell
BY ReqType, ChipFacts DEF IInv, PhaseInv, SelectedCell

\* Two registers share a cell only if they are the same register.
LEMMA CellInjective ==
  ASSUME NEW r \in Reg, NEW s \in Reg,
         <<BankOf(r), OffsetOf(r)>> = <<BankOf(s), OffsetOf(s)>>
  PROVE  r = s
<1>1. \A n \in Nat : n = 256 * (n \div 256) + (n % 256)
  OBVIOUS
<1>2. r \in 0..2047 /\ s \in 0..2047
  BY RegAssumption
<1>3. r \div 256 = s \div 256 /\ r % 256 = s % 256
  BY DEF BankOf, OffsetOf
<1> QED
  BY <1>1, <1>2, <1>3

Mem == [r \in Reg |-> store[<<BankOf(r), OffsetOf(r)>>]]
Busy == {t \in Thread : pc[t] \in InAccess}

\* A step that writes no register outside the bank register and moves t
\* from one phase to another on the same side of the accessor's interface.
LEMMA StutterStep ==
  ASSUME IInv, NEW t \in Thread, NEW phase, Goto(t, phase),
         (phase \in InAccess) = (pc[t] \in InAccess),
         UNCHANGED <<store, req, ret>>
  PROVE  UNCHANGED <<Mem, Busy, req, ret>>
<1>1. \A u \in Thread : (pc'[u] \in InAccess) = (pc[u] \in InAccess)
  BY DEF Goto, IInv, TypeOK
<1>2. Busy' = Busy
  BY <1>1 DEF Busy
<1>3. Mem' = Mem
  BY DEF Mem
<1> QED
  BY <1>2, <1>3

\* it87_read_value and it87_write_value implement the atomic register file:
\* initial states map to initial states, and every port operation maps to a
\* stutter but the last, which maps to the whole access.
THEOREM AccessorsAreAtomic == Spec => AtomicRegisters
<1> USE DEF RF!Request, Request
<1>1. Init => RF!Init
  <2> SUFFICES ASSUME Init PROVE RF!Init
    OBVIOUS
  <2>1. Busy = {}
    BY DEF Init, Busy, InAccess
  <2>2. Mem = [r \in Reg |-> PowerOn[<<BankOf(r), OffsetOf(r)>>]]
    BY DEF Init, Mem
  <2> QED
    BY <2>1, <2>2 DEF Init, RF!Init, Mem, Busy
<1>2. IInv /\ [Next]_vars => [RF!Next]_RF!vars
  <2> SUFFICES ASSUME IInv, [Next]_vars
               PROVE  RF!Next \/ UNCHANGED <<Mem, Busy, req, ret>>
    BY DEF RF!vars, Mem, Busy
  <2>1. CASE UNCHANGED vars
    BY <2>1 DEF vars, Mem, Busy
  <2>2. ASSUME NEW t \in Thread, Lock(t) \/ Unlock(t)
        PROVE  UNCHANGED <<Mem, Busy, req, ret>>
    BY <2>2, StutterStep DEF Lock, Unlock, chip, InAccess
  <2>3. ASSUME NEW t \in Thread, Call(t)
        PROVE  RF!Next
    <3>1. pc[t] = "held" /\ Goto(t, "called")
      BY <2>3 DEF Call
    <3>2. t \notin Busy /\ Busy' = Busy \union {t}
      BY <3>1 DEF Busy, Goto, InAccess, IInv, TypeOK
    <3>3. UNCHANGED <<Mem, ret>>
      BY <2>3 DEF Call, chip, Mem
    <3>4. RF!Call(t)
      BY <2>3, <3>2, <3>3 DEF Call, RF!Call, Busy, Mem
    <3> QED
      BY <3>4 DEF RF!Next
  <2>4. ASSUME NEW t \in Thread, SelectBankReg(t) \/ ReadBankReg(t) \/ ReselectBankReg(t)
        PROVE  UNCHANGED <<Mem, Busy, req, ret>>
    BY <2>4, StutterStep DEF SelectBankReg, ReadBankReg, ReselectBankReg, OutbAddr, chip, InAccess
  <2>5. ASSUME NEW t \in Thread, WriteBankReg(t)
        PROVE  UNCHANGED <<Mem, Busy, req, ret>>
    <3>1. store' = store
      BY <2>5 DEF WriteBankReg, Outb, IInv, PhaseInv
    <3> QED
      BY <2>5, <3>1, StutterStep DEF WriteBankReg, InAccess
  <2>6. ASSUME NEW t \in Thread, SelectReg(t)
        PROVE  UNCHANGED <<Mem, Busy, req, ret>>
    BY <2>6, StutterStep DEF SelectReg, OutbAddr, InAccess
  <2>7. ASSUME NEW t \in Thread, ReadData(t) \/ WriteData(t)
        PROVE  RF!Next
    <3>1. pc[t] = "data" /\ Goto(t, "held") /\ req' = req
      BY <2>7 DEF ReadData, WriteData, Return, IInv, LockInv
    <3>2. t \in Busy /\ Busy' = Busy \ {t}
      BY <3>1 DEF Busy, Goto, InAccess, IInv, TypeOK
    <3>3. req[t].reg \in Reg
      BY ReqType DEF IInv
    <3>4. CASE ReadData(t)
      <4>1. Inb = Mem[req[t].reg]
        BY <3>1, <3>3, DataPort DEF Inb, Mem
      <4>2. RF!Read(t)
        BY <3>4, <4>1 DEF ReadData, chip, RF!Read, Mem
      <4> QED
        BY <3>1, <3>2, <4>2 DEF RF!Perform, RF!Next, Busy
    <3>5. CASE WriteData(t)
      <4>1. store' = [store EXCEPT ![SelectedCell] = req[t].val]
        BY <3>1, <3>5, DataPort DEF WriteData, Outb
      <4>2. Mem' = [Mem EXCEPT ![req[t].reg] = req[t].val]
        <5>1. ASSUME NEW r \in Reg
              PROVE  Mem'[r] = IF r = req[t].reg THEN req[t].val ELSE Mem[r]
          BY <3>1, <3>3, <4>1, DataPort, CellInjective, RegFacts DEF Mem, IInv, TypeOK
        <5> QED
          BY <5>1 DEF Mem
      <4>3. RF!Write(t)
        BY <3>5, <4>2 DEF WriteData, RF!Write, Mem
      <4> QED
        BY <3>1, <3>2, <4>3 DEF RF!Perform, RF!Next, Busy
    <3> QED
      BY <2>7, <3>4, <3>5
  <2> QED
    BY <2>1, <2>2, <2>3, <2>4, <2>5, <2>6, <2>7 DEF Next, Handler, Access, SetBank
<1> QED
  BY <1>1, <1>2, Inductive, PTL DEF Spec, RF!Spec, AtomicRegisters
=============================================================================
