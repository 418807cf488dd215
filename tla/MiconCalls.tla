----------------------------- MODULE MiconCalls -----------------------------
(***************************************************************************)
(* What the serial link to the microcontroller promises its callers: each  *)
(* command is executed a bounded number of times, perhaps never and        *)
(* perhaps after its call has returned, and never once a later one has     *)
(* been executed.  MiconLink implements it; MiconPrograms relies on it.    *)
(***************************************************************************)
EXTENDS Naturals

CONSTANTS RetryCount, MaxCalls

VARIABLES calls,    \* the number of calls made
          isRead,   \* the last one reads
          executed  \* how often each call's command was executed

vars == <<calls, isRead, executed>>
CallId == 1..MaxCalls

Init == calls = 0 /\ isRead = FALSE /\ executed = [c \in CallId |-> 0]

Call(read) ==
  /\ calls < MaxCalls
  /\ calls' = calls + 1 /\ isRead' = read
  /\ UNCHANGED executed

\* A read is retried in two nested loops.
Limit(c) == IF c = calls /\ ~isRead THEN RetryCount ELSE RetryCount * RetryCount

Execute(c) ==
  /\ c <= calls /\ executed[c] < Limit(c)
  /\ \A d \in CallId : d > c => executed[d] = 0
  /\ executed' = [executed EXCEPT ![c] = @ + 1]
  /\ UNCHANGED <<calls, isRead>>

Next == (\E read \in BOOLEAN : Call(read)) \/ \E c \in CallId : Execute(c)

Spec == Init /\ [][Next]_vars
=============================================================================
