-------------------------- MODULE MiconLinkProofs --------------------------
(***************************************************************************)
(* Proofs about MiconLink, for any retry count and number of calls: its    *)
(* types, that the answer of a call begun on a quiet line is its own, that *)
(* calls and answers stay in step until something goes wrong, that the     *)
(* link implements MiconCalls, and the arithmetic of the check byte.       *)
(***************************************************************************)
EXTENDS MiconLink, SequenceTheorems, TLAPS

\* The check byte makes the bytes of a frame add up to zero, which is what
\* calc_checksum is compared with (libmicon.py:184-204).
THEOREM CheckByteCompletes ==
  ASSUME NEW s \in Nat
  PROVE  CheckByte(s) \in 0..255 /\ Checksum(s + CheckByte(s)) = 0
BY DEF CheckByte, Checksum

\* send_read_cmd hands the same bytearray to send_cmd again, which appends one
\* more check byte each time: it is 0, and the sum stays right.
THEOREM RetriedReadAppendsZero ==
  ASSUME NEW s \in Nat, Checksum(s) = 0
  PROVE  CheckByte(s) = 0
BY DEF CheckByte, Checksum
-----------------------------------------------------------------------------
(* Sequences over a set                                                    *)

LEMMA AllInSeq ==
  ASSUME NEW T, NEW s \in Seq(T), NEW S, \A i \in DOMAIN s : s[i] \in S
  PROVE  s \in Seq(S)
<1>1. Len(s) \in Nat /\ DOMAIN s = 1..Len(s)
  BY LenProperties
<1>2. SubSeq(s, 1, Len(s)) \in Seq(S)
  BY <1>1, SubSeqProperties
<1> QED
  BY <1>2, SubSeqFull

LEMMA ElementInSet ==
  ASSUME NEW S, NEW s \in Seq(S)
  PROVE  \A i \in DOMAIN s : s[i] \in S
BY LenProperties

LEMMA SentPreambleSeq ==
  ASSUME NEW S, Preamble \in S, wire \in Seq(S)
  PROVE  SentPreamble \in Seq(S)
BY AppendProperties DEF SentPreamble

\* What a step can add to the line.
LEMMA WireStep ==
  ASSUME NEW S, Preamble \in S, wire \in Seq(S), [Next]_vars,
         Transmit => calls \in S
  PROVE  wire' \in Seq(S)
<1>1. CASE Open \/ InvalidResponse
  BY <1>1, SentPreambleSeq DEF Open, InvalidResponse
<1>2. CASE Transmit
  BY <1>2, AppendProperties DEF Transmit
<1>3. CASE Execute \/ Drop
  BY <1>3, HeadTailProperties DEF Execute, Drop
<1>4. CASE UNCHANGED wire
  BY <1>4
<1> QED
  BY <1>1, <1>2, <1>3, <1>4 DEF Next, Host, vars, line, Close, Call, ReadResponse,
     FirstByteTimeout, SecondTimeout, NoResponse, RefuseResponse, AcceptResponse

LEMMA RestSeq ==
  ASSUME NEW S, Bad \in S, NEW s \in Seq(S), NEW k \in 1..Len(s)
  PROVE  /\ SubSeq(s, k + 1, Len(s)) \in Seq(S)
         /\ <<Bad>> \o SubSeq(s, k + 1, Len(s)) \in Seq(S)
<1>1. Len(s) \in Nat /\ \A i \in 1..Len(s) : s[i] \in S
  BY LenProperties
<1>2. \A i \in k + 1 .. Len(s) : s[i] \in S
  BY <1>1
<1>3. SubSeq(s, k + 1, Len(s)) \in Seq(S)
  BY <1>1, <1>2, SubSeqProperties
<1>4. <<Bad>> \in Seq(S)
  OBVIOUS
<1> QED
  BY <1>3, <1>4, ConcatProperties

LEMMA StartSeq ==
  ASSUME NEW S, Bad \in S, NEW s \in Seq(S), NEW k \in 1..Len(s)
  PROVE  /\ SubSeq(s, 1, k) \in Seq(S)
         /\ SubSeq(s, 1, k - 1) \o <<Bad>> \in Seq(S)
<1>1. Len(s) \in Nat /\ \A i \in 1..Len(s) : s[i] \in S
  BY LenProperties
<1>2. k \in Nat /\ k - 1 \in 0..Len(s) /\ k \in 0..Len(s)
  BY <1>1
<1>3. (\A i \in 1..k : s[i] \in S) /\ (\A i \in 1 .. k - 1 : s[i] \in S)
  BY <1>1, <1>2
<1>4. SubSeq(s, 1, k) \in Seq(S)
  BY <1>2, <1>3, SubSeqProperties
<1>5. SubSeq(s, 1, k - 1) \in Seq(S)
  BY <1>2, <1>3, SubSeqProperties
<1>6. <<Bad>> \in Seq(S)
  OBVIOUS
<1> QED
  BY <1>4, <1>5, <1>6, ConcatProperties

\* What a step can add to the answers.
LEMMA AnswersStep ==
  ASSUME NEW S, Bad \in S, rx \in Seq(S), response \in Seq(S), [Next]_vars,
         Execute => Head(wire) \in S
  PROVE  rx' \in Seq(S) /\ response' \in Seq(S)
<1>0. <<>> \in Seq(S)
  OBVIOUS
<1>1. CASE ReadResponse
  <2>1. Head(rx) \in S /\ Tail(rx) \in Seq(S)
    BY <1>1, HeadTailProperties DEF ReadResponse
  <2>2. rx' \in Seq(S)
    BY <1>1, <2>1, RestSeq DEF ReadResponse
  <2> QED
    BY <1>1, <2>1, <2>2 DEF ReadResponse
<1>2. CASE SecondTimeout
  <2>1. CASE response' = rx /\ rx' = <<>>
    BY <1>0, <2>1
  <2>2. ASSUME NEW k \in 1..Len(rx),
               \/ response' = SubSeq(rx, 1, k) /\ rx' = SubSeq(rx, k + 1, Len(rx))
               \/ /\ response' = SubSeq(rx, 1, k - 1) \o <<Bad>>
                  /\ rx' = <<Bad>> \o SubSeq(rx, k + 1, Len(rx))
        PROVE  rx' \in Seq(S) /\ response' \in Seq(S)
    BY <2>2, StartSeq, RestSeq
  <2> QED
    BY <1>2, <2>1, <2>2 DEF SecondTimeout
<1>3. CASE Execute
  <2>1. Head(wire) \in S
    BY <1>3
  <2>2. Append(rx, Head(wire)) \in Seq(S) /\ Append(rx, Bad) \in Seq(S)
    BY <2>1, AppendProperties
  <2>3. rx' \in {rx, Append(rx, Head(wire)), Append(rx, Bad)} /\ response' = response
    BY <1>3 DEF Execute, Arrive, host
  <2> QED
    BY <2>2, <2>3
<1>4. CASE NoResponse \/ InvalidResponse \/ RefuseResponse \/ AcceptResponse
  BY <1>0, <1>4 DEF NoResponse, InvalidResponse, RefuseResponse, AcceptResponse,
     Retry, Resend, Leave, line
<1>5. CASE Open \/ Close \/ \E read \in BOOLEAN : Call(read)
  BY <1>0, <1>5 DEF Open, Close, Call, Resend, Leave, line
<1>6. CASE Transmit \/ FirstByteTimeout \/ Drop \/ UNCHANGED vars
  BY <1>6 DEF Transmit, FirstByteTimeout, Drop, vars, line, host
<1> QED
  BY <1>1, <1>2, <1>3, <1>4, <1>5, <1>6 DEF Next, Host
-----------------------------------------------------------------------------
(* Type correctness                                                        *)

LEMMA InitTypeOK == Init => TypeOK
<1> SUFFICES ASSUME Init PROVE TypeOK
  OBVIOUS
<1>1. <<>> \in Seq(0..MaxCalls)
  OBVIOUS
<1>2. tries \in 0..RetryCount - 1 /\ outer \in 0..RetryCount - 1 /\ calls \in 0..MaxCalls
  BY RetryAssumption, CallsAssumption DEF Init
<1>3. executed \in [CallId -> Nat] /\ answer \in [CallId -> 0..NoAnswer]
  BY CallsAssumption DEF Init, NoAnswer
<1> QED
  BY <1>1, <1>2, <1>3 DEF Init, TypeOK

LEMMA RetryStep ==
  ASSUME TypeOK, Retry
  PROVE  phase' \in {"idle", "send"} /\ tries' \in 0..RetryCount - 1 /\ outer' \in 0..RetryCount - 1
<1>1. RetryCount \in Nat \ {0} /\ tries \in 0..RetryCount - 1 /\ outer \in 0..RetryCount - 1
  BY RetryAssumption DEF TypeOK
<1>2. CASE tries + 1 < RetryCount
  BY <1>1, <1>2 DEF Retry, Resend
<1>3. CASE ~(tries + 1 < RetryCount) /\ isRead /\ outer + 1 < RetryCount
  BY <1>1, <1>3 DEF Retry, Resend
<1>4. CASE ~(tries + 1 < RetryCount) /\ ~(isRead /\ outer + 1 < RetryCount)
  BY <1>1, <1>4 DEF Retry, Leave
<1> QED
  BY <1>2, <1>3, <1>4

\* The places and counters of the calls.
LEMMA PlaceStep ==
  ASSUME TypeOK, [Next]_vars
  PROVE  /\ phase' \in {"closed", "idle", "send", "await", "collect", "check"}
         /\ isRead' \in BOOLEAN
         /\ tries' \in 0..RetryCount - 1 /\ outer' \in 0..RetryCount - 1
         /\ calls' \in 0..MaxCalls
         /\ phase' \notin {"closed", "idle"} => calls' \in CallId
<1> USE RetryAssumption, CallsAssumption DEF TypeOK, CallId, Resend, Leave
<1>1. CASE \E read \in BOOLEAN : Call(read)
  BY <1>1 DEF Call
<1>2. CASE NoResponse \/ InvalidResponse
  BY <1>2, RetryStep DEF NoResponse, InvalidResponse
<1>6. CASE RefuseResponse
  BY <1>6 DEF RefuseResponse
<1>7. CASE AcceptResponse
  BY <1>7 DEF AcceptResponse
<1>3. CASE Transmit \/ ReadResponse \/ FirstByteTimeout \/ SecondTimeout
  BY <1>3 DEF Transmit, ReadResponse, FirstByteTimeout, SecondTimeout, history
<1>4. CASE Open \/ Close
  BY <1>4 DEF Open, Close, history
<1>5. CASE Execute \/ Drop \/ UNCHANGED vars
  BY <1>5 DEF Execute, Drop, vars, host, history
<1> QED
  BY <1>1, <1>2, <1>3, <1>4, <1>5, <1>6, <1>7 DEF Next, Host

LEMMA HistoryStep ==
  ASSUME TypeOK, [Next]_vars
  PROVE  /\ executed' \in [CallId -> Nat]
         /\ answer' \in [CallId -> 0..NoAnswer]
         /\ quiet' \in BOOLEAN /\ trouble' \in BOOLEAN
<1> USE CallsAssumption DEF TypeOK
<1>1. CASE AcceptResponse
  <2>1. Head(response) \in 0..MaxCalls
    BY <1>1, HeadTailProperties DEF AcceptResponse
  <2>2. Head(response) \in 0..NoAnswer
    BY <2>1 DEF NoAnswer
  <2> QED
    BY <1>1, <2>2 DEF AcceptResponse
<1>2. CASE Execute
  <2>1. Head(wire) \in 0..MaxCalls /\ Head(wire) # 0
    BY <1>2, HeadTailProperties DEF Execute, Preamble
  <2>2. Head(wire) \in CallId
    BY <2>1 DEF CallId
  <2>3. executed[Head(wire)] + 1 \in Nat
    BY <2>2
  <2>4. executed' \in [CallId -> Nat]
    BY <1>2, <2>2, <2>3 DEF Execute
  <2> QED
    BY <1>2, <2>4 DEF Execute, history
<1>3. CASE Open \/ \E read \in BOOLEAN : Call(read)
  BY <1>3 DEF Open, Call, NothingOutstanding, line
<1>4. CASE NoResponse \/ InvalidResponse \/ RefuseResponse
  BY <1>4 DEF NoResponse, InvalidResponse, RefuseResponse
<1>5. CASE Close \/ Transmit \/ ReadResponse \/ FirstByteTimeout \/ SecondTimeout
  BY <1>5 DEF Close, Transmit, ReadResponse, FirstByteTimeout, SecondTimeout, history
<1>6. CASE Drop \/ UNCHANGED vars
  BY <1>6 DEF Drop, vars, history
<1> QED
  BY <1>1, <1>2, <1>3, <1>4, <1>5, <1>6 DEF Next, Host

LEMMA TypeStep ==
  ASSUME TypeOK, [Next]_vars
  PROVE  TypeOK'
<1>1. Transmit => calls \in 0..MaxCalls
  BY DEF TypeOK
<1>2. wire' \in Seq(0..MaxCalls)
  <2>1. Preamble \in 0..MaxCalls /\ wire \in Seq(0..MaxCalls)
    BY CallsAssumption DEF TypeOK, Preamble
  <2> QED
    BY <1>1, <2>1, WireStep
<1>3. Execute => Head(wire) \in 0..MaxCalls
  BY HeadTailProperties DEF TypeOK, Execute
<1>4. rx' \in Seq(0..MaxCalls) /\ response' \in Seq(0..MaxCalls)
  <2>1. Bad \in 0..MaxCalls /\ rx \in Seq(0..MaxCalls) /\ response \in Seq(0..MaxCalls)
    BY CallsAssumption DEF TypeOK, Bad
  <2> QED
    BY <1>3, <2>1, AnswersStep
<1> QED
  BY <1>2, <1>4, PlaceStep, HistoryStep DEF TypeOK, CallId, NoAnswer

\* Variables always have their types.
THEOREM TypeCorrect == Spec => []TypeOK
<1>1. TypeOK /\ [Next]_vars => TypeOK'
  BY TypeStep
<1> QED
  BY InitTypeOK, <1>1, PTL DEF Spec
-----------------------------------------------------------------------------
(* The answer of a call that began on a quiet line                         *)

LEMMA OnlyCallCounts ==
  ASSUME [Next]_vars, ~ \E read \in BOOLEAN : Call(read)
  PROVE  quiet' = quiet /\ calls' = calls
BY DEF Next, Host, vars, history, Open, Close, Transmit, ReadResponse, FirstByteTimeout,
   SecondTimeout, NoResponse, InvalidResponse, RefuseResponse, AcceptResponse, Execute, Drop

LEMMA OnlyAcceptAnswers ==
  ASSUME [Next]_vars, ~AcceptResponse
  PROVE  answer' = answer
BY DEF Next, Host, vars, history, Open, Close, Call, Transmit, ReadResponse, FirstByteTimeout,
   SecondTimeout, NoResponse, InvalidResponse, RefuseResponse, Execute, Drop

LEMMA ExecutedGrows ==
  ASSUME TypeOK, [Next]_vars
  PROVE  \A c \in CallId : executed[c] \in Nat /\ executed'[c] \in Nat /\ executed'[c] >= executed[c]
<1>1. executed \in [CallId -> Nat] /\ executed' \in [CallId -> Nat]
  BY TypeStep DEF TypeOK
<1>2. CASE Execute
  BY <1>1, <1>2 DEF Execute
<1>3. CASE UNCHANGED executed
  BY <1>1, <1>3
<1> QED
  BY <1>2, <1>3 DEF Next, Host, vars, Open, Close, Call, Transmit, ReadResponse,
     FirstByteTimeout, SecondTimeout, NoResponse, InvalidResponse, RefuseResponse,
     AcceptResponse, Drop

LEMMA UnansweredStep ==
  ASSUME TypeOK, \A c \in CallId : c > calls => answer[c] = NoAnswer, [Next]_vars
  PROVE  \A c \in CallId : c > calls' => answer'[c] = NoAnswer
<1>1. CASE AcceptResponse
  BY <1>1, CallsAssumption DEF AcceptResponse, TypeOK, CallId
<1>2. CASE \E read \in BOOLEAN : Call(read)
  BY <1>2, CallsAssumption DEF Call, TypeOK, CallId
<1>3. CASE ~AcceptResponse /\ ~ \E read \in BOOLEAN : Call(read)
  BY <1>3, OnlyCallCounts, OnlyAcceptAnswers
<1> QED
  BY <1>1, <1>2, <1>3

LEMMA QuietCall ==
  ASSUME TypeOK, QuietInv, \E read \in BOOLEAN : Call(read), quiet'
  PROVE  /\ calls' \in CallId
         /\ wire' \in Seq({Preamble, calls'})
         /\ rx' \in Seq(Own') /\ response' \in Seq(Own')
         /\ AnswerIsOwn'
<1>1. calls' = calls + 1 /\ calls < MaxCalls /\ NothingOutstanding
      /\ wire' = wire /\ rx' = rx /\ response' = <<>> /\ answer' = answer
  BY DEF Call, Resend, line
<1>2. calls' \in CallId /\ calls' > calls
  BY <1>1, CallsAssumption DEF TypeOK, CallId
<1>3. wire' \in Seq({Preamble, calls'})
  BY <1>1, AllInSeq DEF NothingOutstanding, TypeOK
<1>4. rx' = <<>> /\ <<>> \in Seq(Own')
  BY <1>1 DEF NothingOutstanding
<1>5. answer'[calls'] = NoAnswer
  BY <1>1, <1>2 DEF QuietInv
<1> QED
  BY <1>1, <1>2, <1>3, <1>4, <1>5 DEF AnswerIsOwn

LEMMA QuietElsewhere ==
  ASSUME TypeOK, QuietInv, [Next]_vars, ~ \E read \in BOOLEAN : Call(read), quiet'
  PROVE  /\ calls' \in CallId
         /\ wire' \in Seq({Preamble, calls'})
         /\ rx' \in Seq(Own') /\ response' \in Seq(Own')
         /\ AnswerIsOwn'
<1>1. quiet /\ calls' = calls
  BY OnlyCallCounts
<1>2. /\ calls \in CallId /\ calls # Preamble
      /\ wire \in Seq({Preamble, calls})
      /\ rx \in Seq(Own) /\ response \in Seq(Own) /\ AnswerIsOwn
  BY <1>1, CallsAssumption DEF QuietInv, CallId, Preamble
<1>3. wire' \in Seq({Preamble, calls'})
  BY <1>1, <1>2, WireStep
<1>4. executed[calls] \in Nat /\ executed'[calls] \in Nat /\ executed'[calls] >= executed[calls]
  BY <1>2, ExecutedGrows
<1>5. Own \subseteq Own' /\ Bad \in Own'
  BY <1>1, <1>4 DEF Own
<1>6. rx \in Seq(Own') /\ response \in Seq(Own')
  BY <1>2, <1>5, SeqMonotonic
<1>7. ASSUME Execute PROVE Head(wire) \in Own'
  <2>1. Head(wire) = calls
    BY <1>2, <1>7, HeadTailProperties DEF Execute
  <2>2. executed'[calls] = executed[calls] + 1
    BY <1>2, <1>7, <2>1 DEF Execute, TypeOK
  <2> QED
    BY <1>1, <1>4, <2>1, <2>2 DEF Own
<1>8. rx' \in Seq(Own') /\ response' \in Seq(Own')
  BY <1>5, <1>6, <1>7, AnswersStep
<1>9. AnswerIsOwn'
  <2>1. CASE AcceptResponse
    <3>1. Head(response) \in Own /\ Head(response) # Bad
      BY <1>2, <2>1, HeadTailProperties, LenProperties, EmptySeq DEF AcceptResponse, Damaged
    <3>2. Head(response) = calls /\ executed[calls] > 0
      BY <3>1 DEF Own
    <3>3. answer'[calls] = calls /\ executed' = executed
      BY <1>2, <2>1, <3>2 DEF AcceptResponse, TypeOK
    <3> QED
      BY <1>1, <3>2, <3>3 DEF AnswerIsOwn
  <2>2. CASE ~AcceptResponse
    BY <1>1, <1>2, <1>4, <2>2, OnlyAcceptAnswers DEF AnswerIsOwn
  <2> QED
    BY <2>1, <2>2
<1> QED
  BY <1>1, <1>2, <1>3, <1>8, <1>9

LEMMA QuietStep ==
  ASSUME TypeOK, QuietInv, [Next]_vars
  PROVE  QuietInv'
<1>1. \A c \in CallId : c > calls' => answer'[c] = NoAnswer
  BY UnansweredStep DEF QuietInv
<1> QED
  BY <1>1, QuietCall, QuietElsewhere DEF QuietInv, CallId

\* A call that begins on a quiet line and returns an answer returns its own,
\* intact, and its command was executed (send_cmd, libmicon.py:215-250).
THEOREM AnswersBelong == Spec => []AnswerIsOwn
<1>1. Init => QuietInv
  BY CallsAssumption DEF Init, QuietInv, CallId
<1>2. TypeOK /\ QuietInv /\ [Next]_vars => QuietInv'
  BY QuietStep
<1>3. QuietInv => AnswerIsOwn
  BY DEF QuietInv, AnswerIsOwn
<1> QED
  BY <1>1, <1>2, <1>3, TypeCorrect, PTL DEF Spec
-----------------------------------------------------------------------------
(* Calls and answers in step                                               *)

LEMMA PreamblesSeq ==
  ASSUME TypeOK
  PROVE  OnlyPreambles <=> wire \in Seq({Preamble})
BY AllInSeq, ElementInSet DEF OnlyPreambles, TypeOK

LEMMA PreamblesStep ==
  ASSUME TypeOK, OnlyPreambles, [Next]_vars, ~Transmit
  PROVE  OnlyPreambles'
<1>1. wire' \in Seq({Preamble})
  BY PreamblesSeq, WireStep
<1> QED
  BY <1>1, ElementInSet DEF OnlyPreambles

\* What is on the line is answered once, or lost.
LEMMA OneOutstandingStep ==
  ASSUME TypeOK, OneOutstanding, Execute \/ Drop, phase # "closed"
  PROVE  OneOutstanding'
<1>1. wire \in Seq(0..MaxCalls) /\ wire # <<>> /\ wire' = Tail(wire)
  BY DEF TypeOK, Execute, Drop
<1>2. /\ Len(wire) \in Nat \ {0} /\ DOMAIN wire = 1..Len(wire) /\ wire[1] = Head(wire)
      /\ wire' \in Seq(0..MaxCalls)
      /\ Len(wire') = Len(wire) - 1 /\ DOMAIN wire' = 1..Len(wire')
      /\ \A i \in DOMAIN wire' : wire'[i] = wire[i + 1]
  BY <1>1, HeadTailProperties, LenProperties, EmptySeq
<1>3. CASE Drop
  <2>1. rx' = rx
    BY <1>3 DEF Drop
  <2>2. CASE rx = <<>> /\ \A i \in DOMAIN wire : i < Len(wire) => wire[i] = Preamble
    BY <1>2, <2>1, <2>2 DEF OneOutstanding
  <2>3. CASE Len(rx) = 1 /\ OnlyPreambles
    BY <1>2, <2>1, <2>3 DEF OneOutstanding, OnlyPreambles
  <2> QED
    BY <2>2, <2>3 DEF OneOutstanding
<1>4. CASE Execute
  <2>1. Head(wire) # Preamble
    BY <1>4 DEF Execute
  <2>2. rx = <<>> /\ Len(wire) = 1
    BY <1>2, <2>1 DEF OneOutstanding, OnlyPreambles
  <2>3. DOMAIN wire' = {}
    BY <1>2, <2>2
  <2>4. rx' = <<>> \/ Len(rx') = 1
    <3>1. rx' \in {rx, Append(rx, Head(wire)), Append(rx, Bad)}
      BY <1>4 DEF Execute, Arrive
    <3> QED
      BY <2>2, <3>1
  <2> QED
    BY <2>3, <2>4 DEF OneOutstanding, OnlyPreambles
<1> QED
  BY <1>3, <1>4

LEMMA InStepHost ==
  ASSUME TypeOK, StepInv, Host
  PROVE  StepInv'
<1>1. CASE Transmit
  <2> SUFFICES ASSUME ~trouble' PROVE OneOutstanding'
    BY <1>1 DEF Transmit, StepInv
  <2>1. ~trouble /\ rx = <<>> /\ OnlyPreambles /\ rx' = rx /\ wire' = Append(wire, calls)
    BY <1>1 DEF Transmit, StepInv, history
  <2>2. wire \in Seq(0..MaxCalls) /\ calls \in 0..MaxCalls
    BY DEF TypeOK
  <2>3. /\ Len(wire) \in Nat /\ DOMAIN wire = 1..Len(wire)
        /\ Len(wire') = Len(wire) + 1 /\ DOMAIN wire' = 1..Len(wire')
        /\ \A i \in 1..Len(wire) : wire'[i] = wire[i]
    BY <2>1, <2>2, AppendProperties, LenProperties
  <2>4. \A i \in DOMAIN wire' : i < Len(wire') => wire'[i] = Preamble
    BY <2>1, <2>3 DEF OnlyPreambles
  <2> QED
    BY <2>1, <2>4 DEF OneOutstanding
<1>2. CASE ReadResponse
  <2> SUFFICES ASSUME ~trouble', ~Damaged' PROVE rx' = <<>> /\ OnlyPreambles'
    BY <1>2 DEF ReadResponse, StepInv
  <2>1. ~trouble /\ rx # <<>> /\ OneOutstanding /\ wire' = wire /\ response' = <<Head(rx)>>
    BY <1>2 DEF ReadResponse, StepInv, history
  <2>2. Len(rx) = 1 /\ OnlyPreambles
    BY <2>1 DEF OneOutstanding
  <2>3. Head(rx) # Bad
    BY <2>1 DEF Damaged
  <2>4. rx' = Tail(rx) /\ rx \in Seq(0..MaxCalls)
    BY <1>2, <2>3 DEF ReadResponse, TypeOK
  <2>5. rx' \in Seq(0..MaxCalls) /\ Len(rx') = 0
    BY <2>1, <2>2, <2>4, HeadTailProperties
  <2>6. rx' = <<>>
    BY <2>5, EmptySeq
  <2> QED
    BY <2>1, <2>2, <2>6 DEF OnlyPreambles
<1>3. CASE FirstByteTimeout
  BY <1>3 DEF FirstByteTimeout, StepInv, OneOutstanding, OnlyPreambles, line, history
<1>4. CASE SecondTimeout
  <2> SUFFICES ASSUME ~trouble', response' # <<>>, ~Damaged'
               PROVE  rx' = <<>> /\ OnlyPreambles'
    BY <1>4 DEF SecondTimeout, StepInv
  <2>1. ~trouble /\ OneOutstanding /\ wire' = wire
    BY <1>4 DEF SecondTimeout, StepInv, history
  <2>2. CASE rx' = <<>> /\ response' = rx
    BY <2>1, <2>2 DEF OneOutstanding, OnlyPreambles
  <2>3. ASSUME NEW k \in 1..Len(rx),
               \/ response' = SubSeq(rx, 1, k) /\ rx' = SubSeq(rx, k + 1, Len(rx))
               \/ response' = SubSeq(rx, 1, k - 1) \o <<Bad>>
        PROVE  rx' = <<>> /\ OnlyPreambles'
    <3>1. rx \in Seq(0..MaxCalls) /\ Len(rx) \in Nat
      BY LenProperties DEF TypeOK
    <3>2. Len(rx) >= 1
      BY <3>1
    <3>3. Len(rx) = 1 /\ OnlyPreambles /\ k = 1
      BY <2>1, <3>1, <3>2, EmptySeq DEF OneOutstanding
    <3>4. SubSeq(rx, 1, k - 1) \o <<Bad>> = <<Bad>>
      <4>1. SubSeq(rx, 1, k - 1) = <<>>
        BY <3>3, SubSeqEmpty
      <4>2. <<>> \o <<Bad>> = <<Bad>>
        <5>1. <<Bad>> \in Seq({Bad})
          OBVIOUS
        <5> QED BY <5>1, ConcatEmptySeq
      <4> QED BY <4>1, <4>2
    <3>5. rx' = SubSeq(rx, k + 1, Len(rx))
      BY <2>3, <3>4 DEF Damaged
    <3>6. rx' \in Seq(0..MaxCalls) /\ Len(rx') = 0
      BY <3>1, <3>3, <3>5, SubSeqProperties
    <3> QED
      BY <2>1, <3>3, <3>6, EmptySeq DEF OnlyPreambles
  <2> QED
    BY <1>4, <2>2, <2>3 DEF SecondTimeout
<1>5. CASE NoResponse \/ InvalidResponse \/ RefuseResponse
  BY <1>5 DEF NoResponse, InvalidResponse, RefuseResponse, StepInv
<1>6. CASE AcceptResponse
  BY <1>6 DEF AcceptResponse, StepInv, OnlyPreambles, Leave, line
<1> QED
  BY <1>1, <1>2, <1>3, <1>4, <1>5, <1>6 DEF Host

LEMMA InStepLine ==
  ASSUME TypeOK, StepInv, Execute \/ Drop
  PROVE  StepInv'
<1>1. trouble' = trouble /\ phase' = phase /\ response' = response
  BY DEF Execute, Drop, host, history
<1> SUFFICES ASSUME ~trouble PROVE StepInv'
  BY <1>1 DEF StepInv
<1>2. ASSUME rx = <<>>, OnlyPreambles PROVE rx' = <<>> /\ OnlyPreambles'
  <2>1. wire # <<>> /\ wire \in Seq({Preamble})
    BY <1>2, PreamblesSeq DEF Execute, Drop
  <2>2. Head(wire) = Preamble
    BY <2>1, HeadTailProperties
  <2>3. Drop
    BY <2>2 DEF Execute
  <2> QED
    BY <1>2, <2>3, PreamblesStep DEF Drop, Next, Transmit, host
<1>3. ASSUME phase \in {"await", "collect"} PROVE OneOutstanding'
  BY <1>3, OneOutstandingStep DEF StepInv
<1> QED
  BY <1>1, <1>2, <1>3 DEF StepInv, Damaged

LEMMA InStepOpen ==
  ASSUME TypeOK, Open, ~trouble'
  PROVE  rx' = <<>> /\ OnlyPreambles'
<1>1. NothingOutstanding
  BY DEF Open
<1>2. OnlyPreambles
  BY <1>1 DEF NothingOutstanding, OnlyPreambles
<1>3. ~Transmit
  BY DEF Open, Transmit
<1> QED
  BY <1>2, <1>3, PreamblesStep DEF Open, Next

LEMMA InStep ==
  ASSUME TypeOK, StepInv, [Next]_vars
  PROVE  StepInv'
<1>1. CASE Open
  BY <1>1, InStepOpen DEF Open, StepInv
<1>2. CASE Close
  BY <1>2 DEF Close, StepInv, Leave
<1>3. CASE \E read \in BOOLEAN : Call(read)
  BY <1>3 DEF Call, StepInv, OnlyPreambles, Resend, line
<1>4. CASE UNCHANGED vars
  BY <1>4 DEF StepInv, OneOutstanding, OnlyPreambles, Damaged, vars, host, line, history
<1> QED
  BY <1>1, <1>2, <1>3, <1>4, InStepHost, InStepLine DEF Next

\* As long as each answer since the port was opened came in time, intact and
\* of the right kind, nothing is left over when a call returns.
THEOREM StaysInStep == Spec => []InStepWithoutTrouble
<1>1. Init => StepInv
  BY DEF Init, StepInv
<1>2. TypeOK /\ StepInv /\ [Next]_vars => StepInv'
  BY InStep
<1>3. StepInv => InStepWithoutTrouble
  BY DEF StepInv, InStepWithoutTrouble, NothingOutstanding, OnlyPreambles
<1> QED
  BY <1>1, <1>2, <1>3, TypeCorrect, PTL DEF Spec
-----------------------------------------------------------------------------
(* Commands in order, and not too often: the refinement of MiconCalls      *)

\* What the counters bound
LEMMA SentTypes ==
  ASSUME TypeOK, OrderInv, NEW c \in CallId
  PROVE  /\ Sent[c] \in Nat
         /\ Sent[c] <= RetryCount * RetryCount
         /\ c = calls /\ ~isRead => Sent[c] <= RetryCount
<1> DEFINE R == RetryCount
<1>1. R \in Nat /\ R >= 1 /\ tries \in Nat /\ outer \in Nat /\ tries <= R - 1 /\ outer <= R - 1
  BY RetryAssumption DEF TypeOK
<1>2. outer * R <= (R - 1) * R /\ (R - 1) * R = R * R - R /\ R <= R * R /\ outer * R \in Nat
  BY <1>1
<1>3. Sent[c] = IF c # calls THEN R * R
                ELSE IF phase \notin {"closed", "idle"}
                     THEN outer * R + tries + (IF phase = "send" THEN 0 ELSE 1)
                     ELSE IF isRead THEN R * R ELSE R
  BY DEF Sent
<1>4. R * R \in Nat
  BY <1>1
<1> HIDE DEF R
<1>5. CASE c # calls
  BY <1>1, <1>2, <1>3, <1>4, <1>5 DEF R
<1>6. CASE c = calls /\ phase \in {"closed", "idle"}
  BY <1>1, <1>2, <1>3, <1>4, <1>6 DEF R
<1>7. CASE c = calls /\ phase \notin {"closed", "idle"}
  <2>1. Sent[c] = outer * R + tries + (IF phase = "send" THEN 0 ELSE 1)
    BY <1>3, <1>7
  <2>2. ~isRead => outer * R = 0
    BY <1>1, <1>7 DEF OrderInv
  <2> QED BY <1>1, <1>2, <1>4, <2>1, <2>2 DEF R
<1> QED BY <1>5, <1>6, <1>7

LEMMA ReadStays ==
  ASSUME [Next]_vars, ~ \E read \in BOOLEAN : Call(read)
  PROVE  isRead' = isRead
BY DEF Next, Host, vars, host, Open, Close, Transmit, ReadResponse, FirstByteTimeout,
   SecondTimeout, NoResponse, InvalidResponse, RefuseResponse, AcceptResponse, Execute, Drop

\* A step within a call sends a frame or goes on to the next attempt.
LEMMA AttemptStep ==
  ASSUME TypeOK, [Next]_vars, ~ \E read \in BOOLEAN : Call(read),
         phase' \notin {"closed", "idle"}
  PROVE  /\ phase \notin {"closed", "idle"}
         /\ \/ ~Transmit /\ UNCHANGED <<tries, outer>> /\ (phase' = "send" <=> phase = "send")
            \/ Transmit /\ UNCHANGED <<tries, outer>> /\ phase = "send" /\ phase' = "await"
            \/ /\ ~Transmit /\ phase # "send" /\ phase' = "send"
               /\ \/ tries' = tries + 1 /\ outer' = outer
                  \/ isRead /\ tries' = 0 /\ outer' = outer + 1
<1>1. CASE Transmit
  BY <1>1 DEF Transmit
<1>2. CASE NoResponse \/ InvalidResponse
  <2>1. phase = "check" /\ Retry
    BY <1>2 DEF NoResponse, InvalidResponse
  <2> QED BY <2>1 DEF Retry, Resend, Leave, Transmit
<1>3. CASE RefuseResponse
  BY <1>3 DEF RefuseResponse, Resend, Leave, Transmit
<1>4. CASE ReadResponse \/ FirstByteTimeout \/ SecondTimeout
  BY <1>4 DEF ReadResponse, FirstByteTimeout, SecondTimeout, Transmit
<1>5. CASE Execute \/ Drop \/ UNCHANGED vars
  <2>1. UNCHANGED <<phase, tries, outer>>
    BY <1>5 DEF Execute, Drop, vars, host
  <2> QED BY <2>1 DEF Transmit
<1>6. CASE Open \/ Close \/ AcceptResponse
  BY <1>6 DEF Open, Close, AcceptResponse, Leave
<1> QED BY <1>1, <1>2, <1>3, <1>4, <1>5, <1>6 DEF Next, Host

\* The retry counters run through the transmissions in order.
LEMMA SentGrows ==
  ASSUME TypeOK, OrderInv, [Next]_vars, NEW c \in CallId, c <= calls
  PROVE  /\ Sent'[c] \in Nat /\ Sent'[c] >= Sent[c]
         /\ Transmit /\ c = calls => Sent'[c] = Sent[c] + 1
<1> DEFINE R == RetryCount
<1>1. /\ R \in Nat /\ R >= 1 /\ calls \in Nat /\ calls' \in Nat /\ c \in Nat
      /\ tries \in Nat /\ outer \in Nat /\ tries <= R - 1
      /\ tries' \in Nat /\ outer' \in Nat
  BY TypeStep, RetryAssumption, CallsAssumption DEF TypeOK, CallId
<1>2. /\ Sent[c] \in Nat /\ Sent[c] <= R * R /\ (c = calls /\ ~isRead => Sent[c] <= R)
      /\ R * R \in Nat
  BY <1>1, SentTypes
<1>3. Sent'[c] = IF c # calls' THEN R * R
                 ELSE IF phase' \notin {"closed", "idle"}
                      THEN outer' * R + tries' + (IF phase' = "send" THEN 0 ELSE 1)
                      ELSE IF isRead' THEN R * R ELSE R
  BY DEF Sent
<1>4. CASE c # calls'
  <2>1. calls' = calls => c # calls
    BY <1>4
  <2>2. ~Transmit \/ c # calls
    BY <1>4 DEF Transmit, history
  <2> QED BY <1>2, <1>3, <1>4, <2>2
<1>5. CASE c = calls'
  <2>1. ~ \E read \in BOOLEAN : Call(read)
    <3> SUFFICES ASSUME NEW read \in BOOLEAN, Call(read) PROVE FALSE
      OBVIOUS
    <3> QED BY <1>1, <1>5 DEF Call
  <2>2. calls' = calls /\ isRead' = isRead
    BY <2>1, OnlyCallCounts, ReadStays
  <2>3. CASE phase' \in {"closed", "idle"}
    <3>1. ~Transmit
      BY <2>3 DEF Transmit
    <3>2. Sent'[c] = IF isRead THEN R * R ELSE R
      BY <1>3, <1>5, <2>2, <2>3
    <3> HIDE DEF R
    <3> QED BY <1>1, <1>2, <1>5, <2>2, <3>1, <3>2
  <2>4. CASE phase' \notin {"closed", "idle"}
    <3>1. Sent'[c] = outer' * R + tries' + (IF phase' = "send" THEN 0 ELSE 1)
      BY <1>3, <1>5, <2>4
    <3>2. phase \notin {"closed", "idle"}
      BY <2>1, <2>4, AttemptStep
    <3>3. Sent[c] = outer * R + tries + (IF phase = "send" THEN 0 ELSE 1)
      BY <1>5, <2>2, <3>2 DEF Sent
    <3>4. outer * R \in Nat /\ (outer + 1) * R = outer * R + R
      BY <1>1
    <3> HIDE DEF R
    <3>5. CASE ~Transmit /\ UNCHANGED <<tries, outer>> /\ (phase' = "send" <=> phase = "send")
      BY <1>1, <3>1, <3>3, <3>4, <3>5
    <3>6. CASE Transmit /\ UNCHANGED <<tries, outer>> /\ phase = "send" /\ phase' = "await"
      BY <1>1, <3>1, <3>3, <3>4, <3>6
    <3>7. CASE ~Transmit /\ phase # "send" /\ phase' = "send" /\ tries' = tries + 1 /\ outer' = outer
      BY <1>1, <3>1, <3>3, <3>4, <3>7
    <3>8. CASE ~Transmit /\ phase # "send" /\ phase' = "send" /\ tries' = 0 /\ outer' = outer + 1
      BY <1>1, <3>1, <3>3, <3>4, <3>8
    <3> QED BY <2>1, <2>4, <3>5, <3>6, <3>7, <3>8, AttemptStep
  <2> QED BY <2>3, <2>4
<1> QED BY <1>4, <1>5

\* What OrderInv says of the line
LineOrder ==
  /\ \A i \in DOMAIN wire : wire[i] # Preamble =>
       /\ wire[i] <= calls
       /\ \A d \in CallId : d > wire[i] => executed[d] = 0
       /\ \A j \in DOMAIN wire : i < j /\ wire[j] # Preamble => wire[i] <= wire[j]
  /\ \E n \in [DOMAIN wire -> 0..RetryCount * RetryCount] : Numbers(n)

LEMMA WireFacts ==
  ASSUME TypeOK
  PROVE  /\ Len(wire) \in Nat /\ DOMAIN wire = 1..Len(wire)
         /\ \A i \in DOMAIN wire : wire[i] \in Nat /\ (wire[i] # Preamble => wire[i] \in CallId)
<1>1. wire \in Seq(0..MaxCalls)
  BY DEF TypeOK
<1>2. Len(wire) \in Nat /\ DOMAIN wire = 1..Len(wire) /\ \A i \in DOMAIN wire : wire[i] \in 0..MaxCalls
  BY <1>1, LenProperties, ElementInSet
<1> QED BY <1>2, CallsAssumption DEF Preamble, CallId

LEMMA CallsGrow ==
  ASSUME TypeOK, [Next]_vars
  PROVE  calls \in Nat /\ calls' \in Nat /\ calls <= calls' /\ calls' <= MaxCalls
<1>1. calls' = calls \/ calls' = calls + 1
  BY OnlyCallCounts DEF Call
<1> QED BY <1>1, TypeStep, CallsAssumption DEF TypeOK

\* Nothing is added, or a preamble.
LEMMA NoFrameAdded ==
  ASSUME TypeOK, OrderInv, [Next]_vars, wire' = wire \/ wire' = Append(wire, Preamble),
         ~Transmit, UNCHANGED executed
  PROVE  LineOrder'
<1> DEFINE R == RetryCount
<1>1. /\ Len(wire) \in Nat /\ DOMAIN wire = 1..Len(wire) /\ DOMAIN wire \subseteq DOMAIN wire'
      /\ \A i \in DOMAIN wire : wire'[i] = wire[i]
      /\ \A i \in DOMAIN wire' : wire'[i] # Preamble => i \in DOMAIN wire
      /\ DOMAIN wire' \subseteq Nat
  <2>1. Len(wire) \in Nat /\ DOMAIN wire = 1..Len(wire) /\ wire \in Seq(0..MaxCalls)
    BY WireFacts DEF TypeOK
  <2>2. CASE wire' = wire
    BY <2>1, <2>2
  <2>3. CASE wire' = Append(wire, Preamble)
    <3>1. Preamble \in 0..MaxCalls
      BY CallsAssumption DEF Preamble
    <3>2. /\ Len(wire') = Len(wire) + 1 /\ DOMAIN wire' = 1..Len(wire) + 1
          /\ \A i \in 1..Len(wire) : wire'[i] = wire[i]
          /\ wire'[Len(wire) + 1] = Preamble
      BY <2>1, <2>3, <3>1, AppendProperties, LenProperties
    <3> QED BY <2>1, <3>2
  <2> QED BY <2>2, <2>3
<1>2. \A i \in DOMAIN wire : wire[i] # Preamble => wire[i] \in CallId /\ wire[i] \in Nat
  BY WireFacts
<1>3. calls \in Nat /\ calls' \in Nat /\ calls <= calls'
  BY CallsGrow
<1>4. \A i \in DOMAIN wire' : wire'[i] # Preamble =>
       /\ wire'[i] <= calls'
       /\ \A d \in CallId : d > wire'[i] => executed'[d] = 0
       /\ \A j \in DOMAIN wire' : i < j /\ wire'[j] # Preamble => wire'[i] <= wire'[j]
  BY <1>1, <1>2, <1>3 DEF OrderInv
<1>5. PICK n \in [DOMAIN wire -> 0..R * R] : Numbers(n)
  BY DEF OrderInv
<1> DEFINE m == [i \in DOMAIN wire' |-> IF i \in DOMAIN wire THEN n[i] ELSE 0]
<1>6. m \in [DOMAIN wire' -> 0..R * R]
  <2>1. 0 \in 0..R * R
    BY RetryAssumption
  <2> QED BY <1>5, <2>1
<1>7. ASSUME NEW i \in DOMAIN wire', wire'[i] # Preamble
      PROVE  /\ executed'[wire'[i]] <= m[i] /\ m[i] < Sent'[wire'[i]]
             /\ \A j \in DOMAIN wire' : i < j /\ wire'[j] = wire'[i] => m[i] < m[j]
  <2>1. i \in DOMAIN wire /\ wire'[i] = wire[i] /\ wire[i] # Preamble /\ m[i] = n[i]
    BY <1>1, <1>7
  <2>2. executed[wire[i]] <= n[i] /\ n[i] < Sent[wire[i]]
        /\ \A j \in DOMAIN wire : i < j /\ wire[j] = wire[i] => n[i] < n[j]
    BY <1>5, <2>1 DEF Numbers
  <2>3. wire[i] \in CallId /\ wire[i] <= calls
    BY <1>2, <2>1 DEF OrderInv
  <2>4. Sent[wire[i]] \in Nat /\ Sent'[wire[i]] \in Nat /\ Sent'[wire[i]] >= Sent[wire[i]]
    BY <2>3, SentGrows, SentTypes
  <2>5. n[i] \in Nat
    <3>1. R * R \in Nat
      BY RetryAssumption
    <3> HIDE DEF R
    <3> QED BY <1>5, <2>1, <3>1
  <2>6. n[i] < Sent'[wire[i]]
    BY <2>2, <2>4, <2>5
  <2>7. ASSUME NEW j \in DOMAIN wire', i < j, wire'[j] = wire'[i] PROVE m[i] < m[j]
    <3>1. j \in DOMAIN wire /\ wire[j] = wire[i]
      BY <1>1, <2>1, <2>7
    <3> QED BY <2>1, <2>2, <2>7, <3>1
  <2> QED BY <2>1, <2>2, <2>6, <2>7
<1> HIDE DEF m
<1>8. \E k \in [DOMAIN wire' -> 0..R * R] :
        \A i \in DOMAIN wire' : wire'[i] # Preamble =>
          /\ executed'[wire'[i]] <= k[i] /\ k[i] < Sent'[wire'[i]]
          /\ \A j \in DOMAIN wire' : i < j /\ wire'[j] = wire'[i] => k[i] < k[j]
  BY <1>6, <1>7
<1> QED BY <1>4, <1>8 DEF LineOrder, Numbers

\* send_bytes: the frame comes last and has the highest number.
LEMMA FrameAdded ==
  ASSUME TypeOK, OrderInv, Transmit
  PROVE  LineOrder'
<1> DEFINE R == RetryCount
           last == Len(wire) + 1
<1>0. [Next]_vars
  BY DEF Next, Host
<1>1. calls \in CallId /\ calls \in Nat /\ calls' = calls /\ UNCHANGED executed
  BY CallsAssumption DEF Transmit, TypeOK, CallId, history
<1>2. /\ Len(wire) \in Nat /\ DOMAIN wire = 1..Len(wire) /\ DOMAIN wire' = 1..last
      /\ \A i \in DOMAIN wire : wire'[i] = wire[i]
      /\ wire'[last] = calls
  <2>1. Len(wire) \in Nat /\ DOMAIN wire = 1..Len(wire) /\ wire \in Seq(0..MaxCalls)
    BY WireFacts DEF TypeOK
  <2>2. wire' = Append(wire, calls) /\ calls \in 0..MaxCalls
    BY DEF Transmit, TypeOK
  <2> QED BY <2>1, <2>2, AppendProperties, LenProperties
<1>3. \A i \in DOMAIN wire : wire[i] # Preamble => wire[i] \in CallId /\ wire[i] \in Nat
  BY WireFacts
<1>4. \A i \in DOMAIN wire' : i \in DOMAIN wire \/ i = last
  BY <1>2
<1>5. \A i \in DOMAIN wire' : wire'[i] # Preamble =>
       /\ wire'[i] <= calls'
       /\ \A d \in CallId : d > wire'[i] => executed'[d] = 0
       /\ \A j \in DOMAIN wire' : i < j /\ wire'[j] # Preamble => wire'[i] <= wire'[j]
  <2> SUFFICES ASSUME NEW i \in DOMAIN wire', wire'[i] # Preamble
               PROVE  /\ wire'[i] <= calls'
                      /\ \A d \in CallId : d > wire'[i] => executed'[d] = 0
                      /\ \A j \in DOMAIN wire' : i < j /\ wire'[j] # Preamble => wire'[i] <= wire'[j]
    OBVIOUS
  <2>1. CASE i = last
    BY <1>1, <1>2, <2>1 DEF OrderInv
  <2>2. CASE i \in DOMAIN wire
    BY <1>1, <1>2, <1>4, <2>2 DEF OrderInv
  <2> QED BY <1>4, <2>1, <2>2
<1>6. PICK n \in [DOMAIN wire -> 0..R * R] : Numbers(n)
  BY DEF OrderInv
<1>7. /\ Sent[calls] \in Nat /\ Sent[calls] <= R * R /\ R * R \in Nat
      /\ Sent'[calls] = Sent[calls] + 1 /\ executed[calls] <= Sent[calls]
  BY <1>0, <1>1, SentTypes, SentGrows, RetryAssumption DEF OrderInv
<1> HIDE DEF R
<1> DEFINE m == [i \in DOMAIN wire' |-> IF i \in DOMAIN wire THEN n[i] ELSE Sent[calls]]
<1>8. m \in [DOMAIN wire' -> 0..R * R]
  <2>1. Sent[calls] \in 0..R * R
    BY <1>7
  <2> QED BY <1>6, <2>1
<1>9. ASSUME NEW i \in DOMAIN wire', wire'[i] # Preamble
      PROVE  /\ executed'[wire'[i]] <= m[i] /\ m[i] < Sent'[wire'[i]]
             /\ \A j \in DOMAIN wire' : i < j /\ wire'[j] = wire'[i] => m[i] < m[j]
  <2>1. CASE i = last
    <3>1. m[i] = Sent[calls] /\ wire'[i] = calls
      BY <1>2, <2>1
    <3>2. \A j \in DOMAIN wire' : ~(i < j)
      BY <1>2, <2>1
    <3> QED BY <1>1, <1>7, <3>1, <3>2
  <2>2. CASE i \in DOMAIN wire
    <3>1. wire'[i] = wire[i] /\ wire[i] # Preamble /\ m[i] = n[i] /\ n[i] \in Nat
      BY <1>2, <1>6, <1>7, <1>9, <2>2
    <3>2. executed[wire[i]] <= n[i] /\ n[i] < Sent[wire[i]]
          /\ \A j \in DOMAIN wire : i < j /\ wire[j] = wire[i] => n[i] < n[j]
      BY <1>6, <2>2, <3>1 DEF Numbers
    <3>3. wire[i] \in CallId /\ wire[i] <= calls
      BY <1>3, <2>2, <3>1 DEF OrderInv
    <3>4. Sent[wire[i]] \in Nat /\ Sent'[wire[i]] \in Nat /\ Sent'[wire[i]] >= Sent[wire[i]]
      BY <1>0, <3>3, SentGrows, SentTypes
    <3>5. n[i] < Sent'[wire[i]]
      BY <3>1, <3>2, <3>4
    <3>6. ASSUME NEW j \in DOMAIN wire', i < j, wire'[j] = wire'[i] PROVE m[i] < m[j]
      <4>1. CASE j = last
        BY <1>2, <3>1, <3>2, <3>6, <4>1
      <4>2. CASE j \in DOMAIN wire
        BY <1>2, <3>1, <3>2, <3>6, <4>2
      <4> QED BY <1>4, <4>1, <4>2
    <3> QED BY <1>1, <3>1, <3>2, <3>5, <3>6
  <2> QED BY <1>4, <2>1, <2>2
<1> HIDE DEF m
<1>10. \E k \in [DOMAIN wire' -> 0..R * R] :
         \A i \in DOMAIN wire' : wire'[i] # Preamble =>
           /\ executed'[wire'[i]] <= k[i] /\ k[i] < Sent'[wire'[i]]
           /\ \A j \in DOMAIN wire' : i < j /\ wire'[j] = wire'[i] => k[i] < k[j]
  BY <1>8, <1>9
<1> QED BY <1>5, <1>10 DEF LineOrder, Numbers, R

\* What a step at the head of the line leaves behind it
LEMMA LineTail ==
  ASSUME TypeOK, wire # <<>>, wire' = Tail(wire)
  PROVE  /\ Len(wire) \in Nat /\ DOMAIN wire = 1..Len(wire) /\ 1 \in DOMAIN wire
         /\ Head(wire) = wire[1]
         /\ DOMAIN wire' \subseteq Nat
         /\ \A i \in DOMAIN wire' : i + 1 \in DOMAIN wire /\ wire'[i] = wire[i + 1] /\ 1 < i + 1
<1>1. Len(wire) \in Nat /\ DOMAIN wire = 1..Len(wire) /\ wire \in Seq(0..MaxCalls)
  BY WireFacts DEF TypeOK
<1>2. /\ Len(wire) \in Nat \ {0} /\ wire[1] = Head(wire)
      /\ wire' \in Seq(0..MaxCalls) /\ Len(wire') = Len(wire) - 1
      /\ \A i \in 1..Len(wire') : wire'[i] = wire[i + 1]
  BY <1>1, HeadTailProperties, LenProperties, EmptySeq
<1>3. DOMAIN wire' = 1..Len(wire')
  BY <1>2, LenProperties
<1> QED BY <1>1, <1>2, <1>3

\* The first frame is executed, or lost, or a preamble passes.
LEMMA FrameTaken ==
  ASSUME TypeOK, OrderInv, Execute \/ Drop
  PROVE  LineOrder'
<1> DEFINE R == RetryCount
<1>0. [Next]_vars
  BY DEF Next, Host
<1>1. wire # <<>> /\ wire' = Tail(wire) /\ calls' = calls /\ UNCHANGED <<Sent, RetryCount>>
  BY DEF Execute, Drop, host, history, Sent
<1>2. /\ DOMAIN wire' \subseteq Nat /\ DOMAIN wire \subseteq Nat
      /\ 1 \in DOMAIN wire /\ Head(wire) = wire[1]
      /\ \A i \in DOMAIN wire' : i + 1 \in DOMAIN wire /\ wire'[i] = wire[i + 1] /\ 1 < i + 1
  BY <1>1, LineTail
<1>3. \A i \in DOMAIN wire : wire[i] # Preamble => wire[i] \in CallId /\ wire[i] \in Nat
  BY WireFacts
<1>4. \A c \in CallId : executed[c] \in Nat
  BY DEF TypeOK
<1>5. \/ executed' = executed
      \/ wire[1] # Preamble /\ executed' = [executed EXCEPT ![wire[1]] = @ + 1]
  BY <1>2 DEF Execute, Drop
<1>6. \A c \in CallId : \/ executed'[c] = executed[c]
                        \/ wire[1] # Preamble /\ c = wire[1] /\ executed'[c] = executed[c] + 1
  BY <1>5 DEF TypeOK
<1>7. ASSUME NEW i \in DOMAIN wire', wire'[i] # Preamble
      PROVE  /\ wire'[i] <= calls'
             /\ \A d \in CallId : d > wire'[i] => executed'[d] = 0
             /\ \A j \in DOMAIN wire' : i < j /\ wire'[j] # Preamble => wire'[i] <= wire'[j]
  <2>1. i + 1 \in DOMAIN wire /\ wire'[i] = wire[i + 1] /\ wire[i + 1] # Preamble /\ i \in Nat
    BY <1>2, <1>7
  <2>2. wire[i + 1] \in Nat /\ wire[i + 1] <= calls
    BY <1>3, <2>1 DEF OrderInv
  <2>3. ASSUME NEW d \in CallId, d > wire[i + 1] PROVE executed'[d] = 0
    <3>1. executed[d] = 0
      BY <2>1, <2>3 DEF OrderInv
    <3>2. wire[1] # Preamble => wire[1] \in Nat /\ wire[1] <= wire[i + 1]
      BY <1>2, <1>3, <1>7, <2>1 DEF OrderInv
    <3>3. d \in Nat
      BY CallsAssumption DEF CallId
    <3> QED BY <1>6, <2>2, <2>3, <3>1, <3>2, <3>3
  <2>4. ASSUME NEW j \in DOMAIN wire', i < j, wire'[j] # Preamble PROVE wire[i + 1] <= wire'[j]
    <3>1. j + 1 \in DOMAIN wire /\ wire'[j] = wire[j + 1] /\ j \in Nat
      BY <1>2, <2>4
    <3> QED BY <2>1, <2>4, <3>1 DEF OrderInv
  <2> QED BY <1>1, <2>1, <2>2, <2>3, <2>4
<1>8. PICK n \in [DOMAIN wire -> 0..R * R] : Numbers(n)
  BY DEF OrderInv
<1>9. R * R \in Nat
  BY RetryAssumption
<1> HIDE DEF R
<1> DEFINE m == [i \in DOMAIN wire' |-> n[i + 1]]
<1>10. m \in [DOMAIN wire' -> 0..R * R]
  BY <1>2, <1>8
<1>11. ASSUME NEW i \in DOMAIN wire', wire'[i] # Preamble
       PROVE  /\ executed'[wire'[i]] <= m[i] /\ m[i] < Sent'[wire'[i]]
              /\ \A j \in DOMAIN wire' : i < j /\ wire'[j] = wire'[i] => m[i] < m[j]
  <2>1. /\ i + 1 \in DOMAIN wire /\ wire'[i] = wire[i + 1] /\ wire[i + 1] # Preamble /\ i \in Nat
        /\ m[i] = n[i + 1] /\ n[i + 1] \in Nat
    BY <1>2, <1>8, <1>9, <1>11
  <2>2. executed[wire[i + 1]] <= n[i + 1] /\ n[i + 1] < Sent[wire[i + 1]]
        /\ \A j \in DOMAIN wire : i + 1 < j /\ wire[j] = wire[i + 1] => n[i + 1] < n[j]
    BY <1>8, <2>1 DEF Numbers
  <2>3. wire[i + 1] \in CallId
    BY <1>3, <2>1
  <2>4. executed'[wire[i + 1]] <= n[i + 1]
    <3>1. CASE executed'[wire[i + 1]] = executed[wire[i + 1]]
      BY <2>2, <3>1
    <3>2. CASE wire[1] # Preamble /\ wire[i + 1] = wire[1]
               /\ executed'[wire[i + 1]] = executed[wire[i + 1]] + 1
      <4>1. executed[wire[1]] <= n[1] /\ n[1] < n[i + 1] /\ n[1] \in Nat
        BY <1>2, <1>8, <1>9, <1>11, <2>1, <3>2 DEF Numbers
      <4> QED BY <1>4, <2>1, <2>3, <3>2, <4>1
    <3> QED BY <1>6, <2>3, <3>1, <3>2
  <2>5. ASSUME NEW j \in DOMAIN wire', i < j, wire'[j] = wire'[i] PROVE m[i] < m[j]
    <3>1. j + 1 \in DOMAIN wire /\ wire'[j] = wire[j + 1] /\ j \in Nat /\ m[j] = n[j + 1]
      BY <1>2, <2>5
    <3> QED BY <2>1, <2>2, <2>5, <3>1
  <2> QED BY <1>1, <2>1, <2>2, <2>4, <2>5
<1> HIDE DEF m
<1>12. \E k \in [DOMAIN wire' -> 0..R * R] :
         \A i \in DOMAIN wire' : wire'[i] # Preamble =>
           /\ executed'[wire'[i]] <= k[i] /\ k[i] < Sent'[wire'[i]]
           /\ \A j \in DOMAIN wire' : i < j /\ wire'[j] = wire'[i] => k[i] < k[j]
  BY <1>10, <1>11
<1> QED BY <1>7, <1>12 DEF LineOrder, Numbers, R

\* The only step that executes a command
LEMMA OnlyExecuteExecutes ==
  ASSUME [Next]_vars, ~Execute
  PROVE  executed' = executed
BY DEF Next, Host, vars, Open, Close, Call, Transmit, ReadResponse, FirstByteTimeout,
   SecondTimeout, NoResponse, InvalidResponse, RefuseResponse, AcceptResponse, Drop

\* The frame at the head of the line can still be executed.
LEMMA HeadFrame ==
  ASSUME TypeOK, OrderInv, Execute
  PROVE  /\ Head(wire) \in CallId /\ Head(wire) <= calls
         /\ executed[Head(wire)] < Sent[Head(wire)]
         /\ \A d \in CallId : d > Head(wire) => executed[d] = 0
         /\ UNCHANGED <<calls, isRead, Sent>>
<1>1. 1 \in DOMAIN wire /\ Head(wire) = wire[1] /\ wire[1] # Preamble
  BY LineTail DEF Execute
<1>2. wire[1] \in CallId
  BY <1>1, WireFacts
<1>3. wire[1] <= calls /\ \A d \in CallId : d > wire[1] => executed[d] = 0
  BY <1>1 DEF OrderInv
<1>4. PICK n \in [DOMAIN wire -> 0..RetryCount * RetryCount] : Numbers(n)
  BY DEF OrderInv
<1>5. executed[wire[1]] <= n[1] /\ n[1] < Sent[wire[1]]
  BY <1>1, <1>4 DEF Numbers
<1>6. executed[wire[1]] \in Nat /\ Sent[wire[1]] \in Nat /\ n[1] \in Nat
  <2>1. RetryCount * RetryCount \in Nat
    BY RetryAssumption
  <2> QED BY <1>1, <1>2, <1>4, <2>1, SentTypes DEF TypeOK
<1>7. UNCHANGED <<calls, isRead, Sent>>
  BY DEF Execute, host, history, Sent
<1> QED BY <1>1, <1>2, <1>3, <1>5, <1>6, <1>7

LEMMA ExecutedBounds ==
  ASSUME TypeOK, OrderInv, [Next]_vars, NEW c \in CallId
  PROVE  IF c > calls' THEN executed'[c] = 0 ELSE executed'[c] <= Sent'[c]
<1>1. c \in Nat /\ calls \in Nat /\ calls' \in Nat /\ calls <= calls'
  BY CallsGrow, CallsAssumption DEF CallId
<1>2. executed[c] \in Nat /\ (c > calls => executed[c] = 0) /\ (c <= calls => executed[c] <= Sent[c])
  <2>1. executed[c] \in Nat
    BY DEF TypeOK
  <2>2. IF c > calls THEN executed[c] = 0 ELSE executed[c] <= Sent[c]
    BY DEF OrderInv
  <2> QED BY <1>1, <2>1, <2>2
<1>3. CASE Execute
  <2>1. /\ Head(wire) \in Nat /\ Head(wire) <= calls
        /\ executed[Head(wire)] < Sent[Head(wire)] /\ UNCHANGED <<calls, Sent>>
    BY <1>3, HeadFrame, CallsAssumption DEF CallId
  <2>2. executed' = [executed EXCEPT ![Head(wire)] = @ + 1]
    BY <1>3 DEF Execute
  <2>3. executed'[c] = IF c = Head(wire) THEN executed[c] + 1 ELSE executed[c]
    BY <2>2 DEF TypeOK
  <2>4. c <= calls => Sent[c] \in Nat
    BY SentTypes
  <2> QED BY <1>1, <1>2, <2>1, <2>3, <2>4
<1>4. CASE ~Execute
  <2>1. executed' = executed
    BY <1>4, OnlyExecuteExecutes
  <2>2. CASE c <= calls
    <3>1. Sent'[c] >= Sent[c] /\ Sent'[c] \in Nat /\ Sent[c] \in Nat
      BY <2>2, SentGrows, SentTypes
    <3> QED BY <1>1, <1>2, <2>1, <2>2, <3>1
  <2>3. CASE c > calls /\ c <= calls'
    <3>1. \E read \in BOOLEAN : Call(read)
      BY <1>1, <2>3, OnlyCallCounts
    <3>2. c = calls' /\ phase' = "send" /\ tries' = 0 /\ outer' = 0
      BY <1>1, <2>3, <3>1 DEF Call, Resend
    <3>3. Sent'[c] = 0 * RetryCount + 0 + 0
      BY <3>2 DEF Sent
    <3>4. Sent'[c] = 0
      BY <3>3, RetryAssumption
    <3> QED BY <1>1, <1>2, <2>1, <2>3, <3>4
  <2> QED BY <1>1, <1>2, <2>1, <2>2, <2>3
<1> QED BY <1>3, <1>4

\* How the other steps leave the line
LEMMA WireCases ==
  ASSUME [Next]_vars, ~Transmit, ~Execute, ~Drop
  PROVE  wire' = wire \/ wire' = Append(wire, Preamble)
BY DEF Next, Host, vars, line, Open, Close, Call, ReadResponse, FirstByteTimeout,
   SecondTimeout, NoResponse, InvalidResponse, RefuseResponse, AcceptResponse, SentPreamble

LEMMA OrderStep ==
  ASSUME TypeOK, OrderInv, [Next]_vars
  PROVE  OrderInv'
<1>1. phase' \notin {"closed", "idle"} /\ ~isRead' => outer' = 0
  <2>1. CASE \E read \in BOOLEAN : Call(read)
    BY <2>1 DEF Call, Resend
  <2>2. CASE ~ \E read \in BOOLEAN : Call(read)
    BY <2>2, AttemptStep, ReadStays DEF OrderInv
  <2> QED BY <2>1, <2>2
<1>2. \A c \in CallId : IF c > calls' THEN executed'[c] = 0 ELSE executed'[c] <= Sent'[c]
  BY ExecutedBounds
<1>3. LineOrder'
  <2>1. CASE Transmit
    BY <2>1, FrameAdded
  <2>2. CASE Execute \/ Drop
    BY <2>2, FrameTaken
  <2>3. CASE ~Transmit /\ ~Execute /\ ~Drop
    BY <2>3, WireCases, OnlyExecuteExecutes, NoFrameAdded
  <2> QED BY <2>1, <2>2, <2>3
<1> QED BY <1>1, <1>2, <1>3 DEF OrderInv, LineOrder

LEMMA InitOrder == Init => OrderInv
<1> SUFFICES ASSUME Init PROVE OrderInv
  OBVIOUS
<1>1. DOMAIN wire = {}
  BY DEF Init
<1>2. \A c \in CallId : c \in Nat /\ c > calls /\ executed[c] = 0
  BY CallsAssumption DEF Init, CallId
<1>3. \E n \in [DOMAIN wire -> 0..RetryCount * RetryCount] : Numbers(n)
  <2>1. [i \in DOMAIN wire |-> 0] \in [DOMAIN wire -> 0..RetryCount * RetryCount]
    BY <1>1
  <2>2. \A n \in [DOMAIN wire -> 0..RetryCount * RetryCount] : Numbers(n)
    BY <1>1 DEF Numbers
  <2> QED BY <2>1, <2>2
<1> QED BY <1>1, <1>2, <1>3 DEF OrderInv, Init

\* What the link promises its callers, whatever is lost, damaged, late or sent
\* again: a write is executed at most RetryCount times, a read at most
\* RetryCount * RetryCount times, and no command after a later one
\* (libmicon.py:206-280).
THEOREM CallsImplemented == Spec => CommandsInOrder
<1>1. Init => Calls!Init
  BY DEF Init, Calls!Init, CallId, Calls!CallId
<1>2. TypeOK /\ OrderInv /\ [Next]_vars => [Calls!Next]_Calls!vars
  <2> SUFFICES ASSUME TypeOK, OrderInv, [Next]_vars
               PROVE  Calls!Next \/ UNCHANGED <<calls, isRead, executed>>
    BY DEF Calls!vars
  <2>1. CASE \E read \in BOOLEAN : Call(read)
    BY <2>1 DEF Call, Calls!Call, Calls!Next
  <2>2. CASE Execute
    <3> DEFINE c == Head(wire)
    <3>1. /\ c \in CallId /\ c <= calls /\ executed[c] < Sent[c]
          /\ \A d \in CallId : d > c => executed[d] = 0
          /\ UNCHANGED <<calls, isRead>>
      BY <2>2, HeadFrame
    <3>2. executed' = [executed EXCEPT ![c] = @ + 1]
      BY <2>2 DEF Execute
    <3>3. Sent[c] \in Nat /\ executed[c] \in Nat /\ RetryCount \in Nat /\ RetryCount * RetryCount \in Nat
      BY <3>1, SentTypes, RetryAssumption DEF TypeOK
    <3>4. Sent[c] <= Calls!Limit(c)
      BY <3>1, SentTypes DEF Calls!Limit
    <3>5. Calls!Limit(c) \in Nat
      BY <3>3 DEF Calls!Limit
    <3> HIDE DEF c
    <3>6. executed[c] < Calls!Limit(c)
      BY <3>1, <3>3, <3>4, <3>5
    <3>7. Calls!Execute(c)
      BY <3>1, <3>2, <3>6 DEF Calls!Execute, CallId, Calls!CallId
    <3> QED BY <3>1, <3>7 DEF Calls!Next, CallId, Calls!CallId
  <2>3. CASE ~Execute /\ ~ \E read \in BOOLEAN : Call(read)
    BY <2>3, OnlyExecuteExecutes, OnlyCallCounts, ReadStays
  <2> QED BY <2>1, <2>2, <2>3
<1>3. TypeOK /\ OrderInv /\ [Next]_vars => OrderInv'
  BY OrderStep
<1> QED
  BY <1>1, <1>2, <1>3, InitOrder, TypeCorrect, PTL DEF Spec, CommandsInOrder, Calls!Spec
=============================================================================
