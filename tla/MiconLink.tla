----------------------------- MODULE MiconLink -----------------------------
(***************************************************************************)
(* The serial link to the microcontroller (libmicon.py, class micon_api):  *)
(* send_read_cmd and send_write_cmd with their retries, get_response with  *)
(* its two timeouts, a line that loses and damages frames, and a           *)
(* microcontroller that may answer after the host has stopped waiting.     *)
(*                                                                         *)
(* A frame is the number of the call it belongs to; the host does not see  *)
(* the numbers.  Answers are never matched to commands: the first intact   *)
(* one read is the answer.                                                 *)
(***************************************************************************)
EXTENDS Naturals, Sequences

CONSTANTS RetryCount, \* retry_count
          MaxCalls    \* bound: the calls made before the host stops

ASSUME RetryAssumption == RetryCount \in Nat \ {0}
ASSUME CallsAssumption == MaxCalls \in Nat

CallId == 1..MaxCalls
Preamble == 0  \* 32 bytes 0xFF
Bad == 0       \* a damaged answer, or a piece of one
NoAnswer == MaxCalls + 1

VARIABLES
  phase,    \* the place in send_cmd, "closed" or "idle"
  isRead,   \* send_read_cmd, not send_write_cmd
  tries,    \* x in send_cmd
  outer,    \* x in send_read_cmd
  response, \* what get_response returned: the answers in it, one after the other
  wire,     \* what was written and has not reached the microcontroller's handler
  rx,       \* the answers that have arrived and were not read
  executed, \* how often each call's command was executed
  \* history
  calls,    \* the number of calls made, the last one being in progress
  answer,   \* for each call: the call whose answer it returned
  quiet,    \* the last call began with nothing on the line but preambles
  trouble   \* since the port was opened an answer was missing, damaged or refused

host == <<phase, isRead, tries, outer, response>>
line == <<wire, rx>>
history == <<calls, answer, quiet, trouble>>
vars == <<host, line, executed, history>>

\* calc_check_byte of bytes whose sum is s: the sum is inverted, plus one
CheckByte(s) == (255 - (s % 256) + 1) % 256

\* calc_checksum of bytes whose sum is s
Checksum(s) == s % 256

NothingOutstanding == rx = <<>> /\ \A i \in DOMAIN wire : wire[i] = Preamble

Init ==
  /\ phase = "closed" /\ isRead = FALSE /\ tries = 0 /\ outer = 0 /\ response = <<>>
  /\ wire = <<>> /\ rx = <<>>
  /\ executed = [c \in CallId |-> 0]
  /\ calls = 0 /\ answer = [c \in CallId |-> NoAnswer] /\ quiet = FALSE /\ trouble = FALSE
-----------------------------------------------------------------------------
(* The host                                                                *)

\* send_preamble; preambles in a row are as good as one
SentPreamble ==
  IF wire # <<>> /\ wire[Len(wire)] = Preamble THEN wire ELSE Append(wire, Preamble)

\* A call's local variables end with it.
Leave(place) ==
  /\ phase' = place
  /\ tries' = 0 /\ outer' = 0
  /\ response' = <<>>

Resend(t, o) ==
  /\ phase' = "send"
  /\ tries' = t /\ outer' = o
  /\ response' = <<>>

\* micon_api(): opening the port discards unread input; then the preamble
Open ==
  /\ phase = "closed"
  /\ phase' = "idle"
  /\ wire' = SentPreamble
  /\ rx' = <<>>
  /\ trouble' = ~NothingOutstanding
  /\ UNCHANGED <<isRead, tries, outer, response, executed, calls, answer, quiet>>

\* port.close(), or the process is killed or dies, at any point
Close ==
  /\ phase # "closed"
  /\ Leave("closed")
  /\ rx' = <<>>
  /\ UNCHANGED <<isRead, wire, executed, history>>

\* send_read_cmd, send_write_cmd
Call(read) ==
  /\ phase = "idle" /\ calls < MaxCalls
  /\ Resend(0, 0)
  /\ isRead' = read
  /\ calls' = calls + 1
  /\ quiet' = NothingOutstanding
  /\ UNCHANGED <<line, executed, answer, trouble>>

\* Mutant: a write does not read its acknowledgement.
TransmitOnly ==
  /\ phase = "send"
  /\ phase' = IF isRead THEN "await" ELSE "idle"
  /\ wire' = Append(wire, calls)
  /\ UNCHANGED <<isRead, tries, outer, response, rx, executed, history>>

\* send_bytes
Transmit ==
  /\ phase = "send"
  /\ phase' = "await"
  /\ wire' = Append(wire, calls)
  /\ UNCHANGED <<isRead, tries, outer, response, rx, executed, history>>

\* get_response: the first byte gives the length.  That of a damaged answer
\* can be anything: the read ends inside an answer or takes later ones along.
ReadResponse ==
  /\ phase = "await" /\ rx # <<>>
  /\ phase' = "check"
  /\ response' = <<Head(rx)>>
  /\ IF Head(rx) # Bad THEN rx' = Tail(rx)
     ELSE \E k \in 1..Len(rx) :
            LET rest == SubSeq(rx, k + 1, Len(rx)) IN rx' \in {rest, <<Bad>> \o rest}
  /\ UNCHANGED <<isRead, tries, outer, wire, executed, history>>

\* Mutant: the port is opened without a timeout.
NoTimeout == FALSE

\* No first byte within 0.25 s: read(32) waits as long again,
FirstByteTimeout ==
  /\ phase = "await" /\ rx = <<>>
  /\ phase' = "collect"
  /\ UNCHANGED <<isRead, tries, outer, response, line, executed, history>>

\* and returns what has arrived by then, at most 32 bytes: all of it, or whole
\* answers and perhaps a piece of one more.
SecondTimeout ==
  /\ phase = "collect"
  /\ phase' = "check"
  /\ \/ response' = rx /\ rx' = <<>>
     \/ \E k \in 1..Len(rx) :
          LET rest == SubSeq(rx, k + 1, Len(rx)) IN
            \/ response' = SubSeq(rx, 1, k) /\ rx' = rest
            \/ response' = SubSeq(rx, 1, k - 1) \o <<Bad>> /\ rx' = <<Bad>> \o rest
  /\ UNCHANGED <<isRead, tries, outer, wire, executed, history>>

Damaged == \E i \in DOMAIN response : response[i] = Bad

\* Mutant: send_cmd gives up one transmission late.
RetryOnceMore ==
  IF tries < RetryCount THEN Resend(tries + 1, outer)
  ELSE IF isRead /\ outer + 1 < RetryCount THEN Resend(0, outer + 1)
  ELSE Leave("idle")

\* After an unusable response: send_cmd tries again; when it has failed,
\* send_read_cmd calls it again, and when that has failed returns None.
Retry ==
  IF tries + 1 < RetryCount THEN Resend(tries + 1, outer)
  ELSE IF isRead /\ outer + 1 < RetryCount THEN Resend(0, outer + 1)
  ELSE Leave("idle")

NoResponse ==
  /\ phase = "check" /\ response = <<>>
  /\ Retry
  /\ trouble' = TRUE
  /\ UNCHANGED <<isRead, line, executed, calls, answer, quiet>>

InvalidResponse ==
  /\ phase = "check" /\ Damaged
  /\ wire' = SentPreamble
  /\ Retry
  /\ trouble' = TRUE
  /\ UNCHANGED <<isRead, rx, executed, calls, answer, quiet>>

\* The checksums of intact answers one after the other add up to zero:
\* send_cmd returns them all.  send_read_cmd refuses an acknowledgement (which
\* a microcontroller sends to a read it does not know) and a length that is
\* not that of one answer.
RefuseResponse ==
  /\ phase = "check" /\ response # <<>> /\ ~Damaged
  /\ isRead
  /\ IF outer + 1 < RetryCount THEN Resend(0, outer + 1) ELSE Leave("idle")
  /\ trouble' = TRUE
  /\ UNCHANGED <<isRead, line, executed, calls, answer, quiet>>

\* Mutant: the checksum of the response is not looked at.
AcceptUnchecked ==
  /\ phase = "check" /\ response # <<>>
  /\ isRead => Len(response) = 1
  /\ Leave("idle")
  /\ answer' = [answer EXCEPT ![calls] = Head(response)]
  /\ UNCHANGED <<isRead, line, executed, calls, quiet, trouble>>

AcceptResponse ==
  /\ phase = "check" /\ response # <<>> /\ ~Damaged
  /\ isRead => Len(response) = 1
  /\ Leave("idle")
  /\ answer' = [answer EXCEPT ![calls] = Head(response)]
  /\ UNCHANGED <<isRead, line, executed, calls, quiet, trouble>>

Host ==
  \/ Transmit \/ ReadResponse \/ FirstByteTimeout \/ SecondTimeout
  \/ NoResponse \/ InvalidResponse \/ RefuseResponse \/ AcceptResponse
-----------------------------------------------------------------------------
(* The line and the microcontroller (external)                             *)

Arrive(a) == rx' = IF phase = "closed" THEN rx ELSE Append(rx, a)

\* A command is executed and answered, however late; the answer may be lost
\* or damaged.
Execute ==
  /\ wire # <<>> /\ Head(wire) # Preamble
  /\ executed' = [executed EXCEPT ![Head(wire)] = @ + 1]
  /\ wire' = Tail(wire)
  /\ \/ Arrive(Head(wire)) \/ Arrive(Bad) \/ UNCHANGED rx
  /\ UNCHANGED <<host, history>>

\* A frame is lost, or not understood; a preamble has no answer.
Drop ==
  /\ wire # <<>>
  /\ wire' = Tail(wire)
  /\ UNCHANGED <<host, rx, executed, history>>

Next ==
  \/ Open \/ Close
  \/ \E read \in BOOLEAN : Call(read)
  \/ Host
  \/ Execute \/ Drop

Spec == Init /\ [][Next]_vars

\* The host computes, and its reads time out, whatever the line does.
FairSpec == Spec /\ WF_vars(Host)
-----------------------------------------------------------------------------

TypeOK ==
  /\ phase \in {"closed", "idle", "send", "await", "collect", "check"}
  /\ isRead \in BOOLEAN
  /\ tries \in 0..RetryCount - 1 /\ outer \in 0..RetryCount - 1
  /\ response \in Seq(0..MaxCalls)
  /\ wire \in Seq(0..MaxCalls) /\ rx \in Seq(0..MaxCalls)
  /\ executed \in [CallId -> Nat]
  /\ calls \in 0..MaxCalls
  /\ phase \notin {"closed", "idle"} => calls \in CallId
  /\ answer \in [CallId -> 0..NoAnswer]
  /\ quiet \in BOOLEAN /\ trouble \in BOOLEAN

Calls == INSTANCE MiconCalls

(***************************************************************************)
(* The link implements MiconCalls, however many answers are lost, damaged  *)
(* or late and whenever the port is closed: a write is executed at most    *)
(* RetryCount times and a read RetryCount * RetryCount times, not before   *)
(* the call, and a command that comes late never after a later one.        *)
(***************************************************************************)
CommandsInOrder == Calls!Spec

(***************************************************************************)
(* A call that begins on a quiet line and returns an answer returns its    *)
(* own, intact, and the command was executed, also after lost and damaged  *)
(* answers.                                                                *)
(***************************************************************************)
AnswerIsOwn ==
  quiet /\ answer[calls] # NoAnswer =>
    answer[calls] = calls /\ executed[calls] > 0

(***************************************************************************)
(* Commands and answers get out of step only after trouble: as long as     *)
(* each answer came in time, intact and of the right kind, nothing is left *)
(* over that the next call could take for its answer.                      *)
(***************************************************************************)
InStepWithoutTrouble == phase = "idle" /\ ~trouble => NothingOutstanding

(***************************************************************************)
(* Every call returns, also when the microcontroller is silent for good.   *)
(***************************************************************************)
CallReturns == phase \notin {"closed", "idle"} ~> phase \in {"closed", "idle"}
-----------------------------------------------------------------------------
(* The inductive invariant of the proofs                                   *)

\* What may arrive in a call that began on a quiet line
Own == {Bad} \union {c \in {calls} : executed[c] > 0}

OnlyPreambles == \A i \in DOMAIN wire : wire[i] = Preamble

QuietInv ==
  /\ \A c \in CallId : c > calls => answer[c] = NoAnswer
  /\ quiet => /\ calls \in CallId
              /\ wire \in Seq({Preamble, calls})
              /\ rx \in Seq(Own) /\ response \in Seq(Own)
              /\ AnswerIsOwn

OneOutstanding ==
  \/ rx = <<>> /\ \A i \in DOMAIN wire : i < Len(wire) => wire[i] = Preamble
  \/ Len(rx) = 1 /\ OnlyPreambles

StepInv ==
  ~trouble =>
    /\ phase \in {"idle", "send"} => rx = <<>> /\ OnlyPreambles
    /\ phase \in {"await", "collect"} => OneOutstanding
    /\ phase = "check" /\ response # <<>> /\ ~Damaged => rx = <<>> /\ OnlyPreambles

\* A bound on how often a call's command was sent
Sent == [c \in CallId |->
  IF c # calls THEN RetryCount * RetryCount
  ELSE IF phase \notin {"closed", "idle"}
       THEN outer * RetryCount + tries + (IF phase = "send" THEN 0 ELSE 1)
       ELSE IF isRead THEN RetryCount * RetryCount ELSE RetryCount]

\* n numbers the frames of each call on the line, from those already executed up to
\* those sent.
Numbers(n) ==
  \A i \in DOMAIN wire : wire[i] # Preamble =>
    /\ executed[wire[i]] <= n[i] /\ n[i] < Sent[wire[i]]
    /\ \A j \in DOMAIN wire : i < j /\ wire[j] = wire[i] => n[i] < n[j]

OrderInv ==
  /\ phase \notin {"closed", "idle"} /\ ~isRead => outer = 0
  /\ \A c \in CallId : IF c > calls THEN executed[c] = 0 ELSE executed[c] <= Sent[c]
  /\ \A i \in DOMAIN wire : wire[i] # Preamble =>
       /\ wire[i] <= calls
       /\ \A d \in CallId : d > wire[i] => executed[d] = 0
       /\ \A j \in DOMAIN wire : i < j /\ wire[j] # Preamble => wire[i] <= wire[j]
  /\ \E n \in [DOMAIN wire -> 0..RetryCount * RetryCount] : Numbers(n)

IInv == TypeOK /\ QuietInv /\ StepInv /\ OrderInv
=============================================================================
