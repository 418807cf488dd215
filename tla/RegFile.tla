------------------------------ MODULE RegFile ------------------------------
(***************************************************************************)
(* What the register accessors it87_read_value and it87_write_value of    *)
(* it87ts.c promise their callers: a memory of one-byte registers in which *)
(* every read and every write happens at one instant between its call and  *)
(* its return.  The address port, the bank register and the cached bank    *)
(* number do not exist at this level; It87Bus implements it.               *)
(***************************************************************************)
EXTENDS Naturals

CONSTANTS Thread, \* the kernel threads inside sysfs handlers
          Reg,    \* the 16-bit register addresses the driver uses
          Value,  \* the bytes the handlers write
          PowerOn \* PowerOn[r]: what register r holds before the first access

VARIABLES mem,    \* mem[r]: the byte register r holds
          busy,   \* the threads inside an accessor
          req,    \* req[t]: the access t asked for last
          ret     \* ret[t]: what t's last read returned

vars == <<mem, busy, req, ret>>

Byte == 0..255

Request == [reg : Reg, write : BOOLEAN, val : Value]

Init ==
  /\ mem = PowerOn
  /\ busy = {}
  /\ \E q \in Request : req = [t \in Thread |-> q]
  /\ ret = [t \in Thread |-> 0]

Call(t) ==
  /\ t \notin busy
  /\ busy' = busy \union {t}
  /\ \E q \in Request : req' = [req EXCEPT ![t] = q]
  /\ UNCHANGED <<mem, ret>>

Read(t) ==
  /\ ~req[t].write
  /\ ret' = [ret EXCEPT ![t] = mem[req[t].reg]]
  /\ UNCHANGED mem

Write(t) ==
  /\ req[t].write
  /\ mem' = [mem EXCEPT ![req[t].reg] = req[t].val]
  /\ UNCHANGED ret

Perform(t) ==
  /\ t \in busy
  /\ Read(t) \/ Write(t)
  /\ busy' = busy \ {t}
  /\ UNCHANGED req

Next == \E t \in Thread : Call(t) \/ Perform(t)

Spec == Init /\ [][Next]_vars
=============================================================================
