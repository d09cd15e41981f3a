------------------------- MODULE HciTransportProofs -------------------------
(***************************************************************************)
(* Proofs about the library's own HCI commands: the readers keep to the    *)
(* framing of the controller, and an answer is older than the command it   *)
(* is given to by no more than the calls that went without one, for any    *)
(* numbers of reads, tries, calls and other events.                        *)
(***************************************************************************)
EXTENDS HciTransport, SequenceTheorems, FiniteSetTheorems, TLAPS

-----------------------------------------------------------------------------
(***************************************************************************)
(* The inductive invariant.                                                *)
(***************************************************************************)
Events == 1 .. Len(sent)
WireInv ==
  /\ stream \in Seq(Nat)
  /\ sent \in Seq([first : Nat, last : Nat, cmd : Int])

\* The events are the stream, one behind the other, each with the length that its
\* third byte says.
Whole(e) ==
  /\ e.first \in Nat /\ e.last \in Nat
  /\ 1 <= e.first /\ e.first + 2 <= e.last /\ e.last <= Len(stream)
  /\ stream[e.first] = Type
  /\ e.last = e.first + 2 + stream[e.first + 2]
  /\ e.cmd = -1 => stream[e.first + 1] # Complete
FramingInv ==
  /\ \A i \in Events : Whole(sent[i])
  /\ \A i \in Events : \A j \in Events : i < j => sent[i].last < sent[j].first
  /\ \A i \in Events : IF i = Len(sent) THEN sent[i].last = Len(stream)
                                        ELSE sent[i + 1].first = sent[i].last + 1

\* The controller answers in order, and what it has still to answer comes later.
OrderInv ==
  /\ pending \subseteq 0 .. call
  /\ \A i \in Events : sent[i].cmd # -1 =>
       /\ sent[i].cmd \in 0 .. call
       /\ \A k \in pending : sent[i].cmd < k
       /\ \A j \in Events : i < j /\ sent[j].cmd # -1 => sent[i].cmd < sent[j].cmd

\* How far in an event the reader is, if what it has begun to read is one.
CountInv ==
  /\ count < next
  /\ pc # "idle" => reads < Reads
  /\ pc = "header" => count \in 1 .. 2
  /\ pc = "payload" => count >= 3 /\ count - 3 < Remain
  /\ pc = "event" => count >= 3 /\ count = 3 + Remain

\* Where the event begins that the reader is in, or the next one.
Begin == IF pc \in {"idle", "type"} THEN next ELSE next - count
Boundary(n) == n = Len(stream) + 1 \/ \E i \in Events : sent[i].first = n
ReaderInv ==
  ~torn => IF pc \in {"idle", "type"} THEN Boundary(next)
                                      ELSE \E i \in Events : sent[i].first = Begin

\* No answer that is still to be read is older than the calls without an answer
\* allow.
Ended == IF pc = "idle" THEN call ELSE call - 1
LagInv ==
  /\ failures \in 0 .. Ended + 1
  /\ ~torn =>
       /\ \A k \in pending : k + failures > Ended
       /\ \A i \in Events : sent[i].first >= Begin /\ sent[i].cmd # -1
                              => sent[i].cmd + failures > Ended

TakenInv ==
  result = "ok" =>
    /\ pc = "idle"
    /\ ~torn => \E i \in Events :
         /\ sent[i].first = taken.first
         /\ IF sent[i].cmd = -1 THEN port = "init"
                                ELSE sent[i].cmd <= call /\ call <= sent[i].cmd + failures

HciInv ==
  /\ TypeOK /\ WireInv /\ FramingInv /\ OrderInv /\ CountInv
  /\ ReaderInv /\ LagInv /\ TakenInv
-----------------------------------------------------------------------------
(***************************************************************************)
(* Numbers and bytes.                                                      *)
(***************************************************************************)
LEMMA LeastIsMember ==
  ASSUME NEW S \in SUBSET Nat, S # {}
  PROVE  Min(S) \in S /\ \A y \in S : Min(S) <= y
<1>1. \E x \in S : \A y \in S : ~(<<y, x>> \in OpToRel(<, Nat))
  BY NatLessThanWellFounded, WFMin
<1>2. PICK x \in S : \A y \in S : ~(y < x)
  BY <1>1 DEF OpToRel
<1>3. \A y \in S : x <= y
  BY <1>2
<1> QED  BY <1>3 DEF Min

\* What the state says of the numbers, as far as it is used below.
LEMMA Numbers ==
  ASSUME TypeOK, WireInv
  PROVE  /\ Len(stream) \in Nat /\ arrived \in Nat /\ arrived <= Len(stream)
         /\ next \in Nat /\ 1 <= next /\ next <= arrived + 1
         /\ count \in Nat /\ retry \in Nat /\ reads \in Nat /\ call \in Nat
         /\ failures \in Nat /\ Reads \in Nat /\ Reads >= 1
         /\ Tries \in Nat /\ Tries >= 1
         /\ \A j \in 1 .. Len(stream) : stream[j] \in Nat
BY TransportAssumption DEF TypeOK, WireInv, TransportAssumption

\* The places of an event in the stream are numbers.
LEMMA EventTypes ==
  ASSUME WireInv
  PROVE  \A i \in Events : sent[i].first \in Nat /\ sent[i].last \in Nat /\ sent[i].cmd \in Int
<1> DEFINE S == [first : Nat, last : Nat, cmd : Int]
<1>1. sent \in Seq(S)
  BY DEF WireInv
<1>2. \A e \in S : e.first \in Nat /\ e.last \in Nat /\ e.cmd \in Int
  OBVIOUS
<1> HIDE DEF S
<1>3. \A i \in Events : sent[i] \in S
  BY <1>1 DEF Events
<1> QED  BY <1>2, <1>3

\* read() gives what is asked for, or less.
LEMMA GotSome ==
  ASSUME TypeOK, WireInv, ~Empty, NEW wanted \in Nat, wanted >= 1
  PROVE  Got(wanted) \in 1 .. wanted /\ Got(wanted) <= Available
<1>1. Available \in Nat /\ Available >= 1
  BY Numbers DEF Empty, Available
<1>2. Min({wanted, Available}) \in {wanted, Available}
      /\ \A y \in {wanted, Available} : Min({wanted, Available}) <= y
  BY <1>1, LeastIsMember
<1> QED  BY <1>1, <1>2 DEF Got

\* Inside an event some byte of it is wanted.
LEMMA WantedSome ==
  ASSUME TypeOK, WireInv, CountInv, InEvent
  PROVE  Wanted \in Nat /\ Wanted >= 1
<1>1. CASE pc = "header"
  BY <1>1, Numbers DEF Wanted, CountInv
<1>2. CASE pc = "payload"
  <2>1. next - count + 2 \in 1 .. Len(stream)
    BY <1>2, Numbers DEF CountInv
  <2>2. Remain \in Nat
    BY <2>1, Numbers DEF Remain, Rsp
  <2> QED  BY <1>2, <2>2, Numbers DEF Wanted, CountInv
<1> QED  BY <1>1, <1>2 DEF InEvent

\* Past its third byte an event is read in payloads until it is whole.
LEMMA PhaseOf ==
  ASSUME NEW n \in Nat, NEW remain \in Nat, n >= 3, n <= 3 + remain
  PROVE  /\ Phase(n, remain) # "header"
         /\ Phase(n, remain) = "payload" => n - 3 < remain
         /\ Phase(n, remain) = "event" => n = 3 + remain
BY DEF Phase

\* A read inside an event takes the reader on by the bytes it got, and never past
\* the event.
LEMMA Onward ==
  ASSUME TypeOK, WireInv, CountInv, EventBytes
  PROVE  \E n \in Nat : \E phase \in {"header", "payload", "event"} :
           /\ n >= 1 /\ next' = next + n /\ count' = count + n
           /\ next' <= arrived + 1 /\ UNCHANGED <<stream, sent, arrived>>
           /\ phase = "header" => count' \in 1 .. 2
           /\ phase = "payload" => count' >= 3 /\ count' - 3 < stream[next - count + 2]
           /\ phase = "event" => count' >= 3 /\ count' = 3 + stream[next - count + 2]
           /\ \/ pc' = phase /\ Stays
                 /\ \/ port # "init" /\ ~Exhausted /\ CountsOn
                    \/ port = "init" /\ retry' \in {retry, 0}
              \/ GivesUp(phase # "event") /\ retry' = retry
<1> DEFINE n == Got(Wanted)
           remain == IF count + n < 3 THEN 0 ELSE stream[next - count + 2]
           phase == Phase(count + n, remain)
<1>0. InEvent /\ ~Empty
  BY DEF EventBytes
<1>1. n \in 1 .. Wanted /\ n <= Available /\ Wanted \in Nat
  BY <1>0, WantedSome, GotSome
<1>2. /\ Consume(n) /\ count' = count + n
      /\ \/ pc' = phase /\ Stays
            /\ \/ port # "init" /\ ~Exhausted /\ CountsOn
               \/ port = "init" /\ retry' \in {retry, 0}
         \/ GivesUp(phase # "event") /\ retry' = retry
  BY DEF EventBytes
<1> HIDE DEF n
<1>3. n \in Nat /\ n >= 1 /\ next' = next + n /\ next' <= arrived + 1
      /\ UNCHANGED <<stream, sent, arrived>>
  BY <1>1, <1>2, Numbers DEF Consume, Available
<1>4. phase \in {"header", "payload", "event"}
  BY DEF Phase
<1>5. count \in Nat /\ next \in Nat /\ count < next /\ arrived \in Nat
      /\ arrived <= Len(stream) /\ Len(stream) \in Nat
  BY Numbers DEF CountInv
<1>6. /\ phase = "header" => count + n \in 1 .. 2
      /\ phase = "payload" => count + n >= 3 /\ count + n - 3 < stream[next - count + 2]
      /\ phase = "event" => count + n >= 3 /\ count + n = 3 + stream[next - count + 2]
  <2>1. CASE count + n < 3
    BY <1>3, <1>5, <2>1 DEF Phase
  <2>2. CASE count + n >= 3
    <3>1. next + n <= arrived + 1
      BY <1>3
    <3>2. next - count + 2 \in 1 .. Len(stream)
      BY <1>3, <1>5, <2>2, <3>1
    <3>3. stream[next - count + 2] \in Nat
      BY <3>2, Numbers
    <3>4. count + n <= 3 + stream[next - count + 2]
      <4>1. CASE pc = "header"
        <5>1. Wanted = 3 - count
          BY <4>1 DEF Wanted
        <5> QED  BY <1>1, <1>5, <3>3, <5>1
      <4>2. CASE pc = "payload"
        <5>1. Wanted = stream[next - count + 2] - (count - 3)
          BY <4>2 DEF Wanted, Remain, Rsp
        <5> QED  BY <1>1, <1>5, <3>3, <5>1
      <4> QED  BY <1>0, <4>1, <4>2 DEF InEvent
    <3>5. ~(count + n < 3) /\ phase = Phase(count + n, stream[next - count + 2])
      BY <1>3, <1>5, <2>2
    <3> HIDE DEF phase
    <3> QED  BY <1>3, <1>5, <3>3, <3>4, <3>5, PhaseOf
  <2> QED  BY <1>3, <1>5, <2>1, <2>2
<1> HIDE DEF phase
<1>7. /\ count' = count + n
      /\ \/ pc' = phase /\ Stays
            /\ \/ port # "init" /\ ~Exhausted /\ CountsOn
               \/ port = "init" /\ retry' \in {retry, 0}
         \/ GivesUp(phase # "event") /\ retry' = retry
  BY <1>2
<1>8. /\ phase = "header" => count' \in 1 .. 2
      /\ phase = "payload" => count' >= 3 /\ count' - 3 < stream[next - count + 2]
      /\ phase = "event" => count' >= 3 /\ count' = 3 + stream[next - count + 2]
  BY <1>3, <1>5, <1>6, <1>7
<1> QED  BY <1>3, <1>4, <1>7, <1>8
-----------------------------------------------------------------------------
(***************************************************************************)
(* The steps of the controller.                                            *)
(***************************************************************************)
\* What the controller sends: the bytes of one whole event.
Sendable(bytes, cmd) ==
  /\ bytes \in Seq(Nat) /\ cmd \in Int
  /\ Len(bytes) >= 3 /\ bytes[1] = Type /\ Len(bytes) = 3 + bytes[3]
  /\ cmd = -1 => bytes[2] # Complete

\* A command complete event is as long as its length byte says.
LEMMA AnswerIsWhole ==
  ASSUME NEW k \in Nat
  PROVE  Sendable(Answer, k)
BY DEF Sendable, Answer, Type, Complete

\* So is an event of another kind, whatever its parameter.
LEMMA OtherIsWhole ==
  ASSUME NEW byte \in {0, Type}
  PROVE  Sendable(Other(byte), -1)
BY DEF Sendable, Other, Type, Complete

\* The stream and the list of its events grow at the end.
LEMMA Grows ==
  ASSUME WireInv, NEW bytes, NEW cmd, Sendable(bytes, cmd), Sends(bytes, cmd)
  PROVE  /\ WireInv'
         /\ Len(stream) \in Nat /\ Len(stream') = Len(stream) + Len(bytes)
         /\ \A j \in 1 .. Len(stream) : stream'[j] = stream[j]
         /\ \A j \in 1 .. Len(bytes) : stream'[Len(stream) + j] = bytes[j]
         /\ Len(sent) \in Nat /\ Len(sent') = Len(sent) + 1
         /\ \A i \in Events : sent'[i] = sent[i]
         /\ sent'[Len(sent) + 1] = [first |-> Len(stream) + 1,
                                    last |-> Len(stream) + Len(bytes), cmd |-> cmd]
         /\ UNCHANGED <<arrived, next>>
<1>0. /\ stream \in Seq(Nat) /\ bytes \in Seq(Nat) /\ cmd \in Int
      /\ stream' = stream \o bytes
      /\ sent \in Seq([first : Nat, last : Nat, cmd : Int])
      /\ sent' = Append(sent, [first |-> Len(stream) + 1, last |-> Len(stream) + Len(bytes),
                               cmd |-> cmd])
      /\ UNCHANGED <<arrived, next>>
  BY DEF WireInv, Sends, Sendable
<1>1. /\ stream' \in Seq(Nat)
      /\ Len(stream) \in Nat /\ Len(stream') = Len(stream) + Len(bytes)
      /\ \A j \in 1 .. Len(stream) : stream'[j] = stream[j]
      /\ \A j \in 1 .. Len(bytes) : stream'[Len(stream) + j] = bytes[j]
  BY <1>0
<1> DEFINE e == [first |-> Len(stream) + 1, last |-> Len(stream) + Len(bytes), cmd |-> cmd]
<1>2. e \in [first : Nat, last : Nat, cmd : Int]
  <2>1. Len(stream) + 1 \in Nat /\ Len(stream) + Len(bytes) \in Nat
    BY <1>0
  <2> QED  BY <1>0, <2>1
<1>3. sent' = Append(sent, e)
  BY <1>0
<1> HIDE DEF e
<1>4. /\ sent' \in Seq([first : Nat, last : Nat, cmd : Int])
      /\ Len(sent) \in Nat /\ Len(sent') = Len(sent) + 1
      /\ \A i \in Events : sent'[i] = sent[i]
      /\ sent'[Len(sent) + 1] = e
  BY <1>0, <1>2, <1>3 DEF Events
<1> QED  BY <1>0, <1>1, <1>4 DEF e, WireInv

\* A new event joins those before it.
LEMMA GrowsWhole ==
  ASSUME WireInv, FramingInv, NEW bytes, NEW cmd, Sendable(bytes, cmd), Sends(bytes, cmd)
  PROVE  FramingInv'
<1> DEFINE L == Len(stream)  M == Len(sent)
<1>1. /\ L \in Nat /\ Len(stream') = L + Len(bytes)
      /\ \A j \in 1 .. L : stream'[j] = stream[j]
      /\ \A j \in 1 .. Len(bytes) : stream'[L + j] = bytes[j]
      /\ M \in Nat /\ Len(sent') = M + 1
      /\ \A i \in 1 .. M : sent'[i] = sent[i]
      /\ sent'[M + 1].first = L + 1 /\ sent'[M + 1].last = L + Len(bytes)
      /\ sent'[M + 1].cmd = cmd
  <2>1. sent'[M + 1] = [first |-> L + 1, last |-> L + Len(bytes), cmd |-> cmd]
    BY Grows
  <2> QED  BY Grows, <2>1 DEF Events
<1>2. /\ Len(bytes) \in Nat /\ Len(bytes) >= 3 /\ bytes[1] = Type
      /\ Len(bytes) = 3 + bytes[3] /\ bytes[3] \in Nat
      /\ cmd = -1 => bytes[2] # Complete
  BY DEF Sendable
<1>3. \A i \in 1 .. M : Whole(sent[i])
  BY DEF FramingInv, Events
<1> HIDE DEF L, M
<1>4. ASSUME NEW i \in 1 .. M + 1
      PROVE  Whole(sent[i])'
  <2>1. CASE i \in 1 .. M
    <3>1. Whole(sent[i]) /\ sent'[i] = sent[i]
      BY <1>1, <1>3, <2>1
    <3>2. \A d \in 0 .. 2 : sent[i].first + d \in 1 .. L
      <4>1. sent[i].first \in Nat /\ 1 <= sent[i].first /\ sent[i].first + 2 <= L
        BY <1>1, <3>1 DEF Whole, L
      <4> QED  BY <1>1, <4>1
    <3>3. \A d \in 0 .. 2 : stream'[sent[i].first + d] = stream[sent[i].first + d]
      BY <1>1, <3>2
    <3>4. /\ stream'[sent[i].first + 2] = stream[sent[i].first + 2]
          /\ stream'[sent[i].first + 1] = stream[sent[i].first + 1]
          /\ stream'[sent[i].first] = stream[sent[i].first]
      <4>1. sent[i].first + 0 = sent[i].first
        BY <3>1 DEF Whole
      <4> QED  BY <3>3, <4>1
    <3>5. L <= Len(stream')
      BY <1>1, <1>2
    <3> QED  BY <1>1, <3>1, <3>4, <3>5 DEF Whole, L
  <2>2. CASE i = M + 1
    <3> DEFINE e == sent'[i]
    <3>1. e.first = L + 1 /\ e.last = L + Len(bytes) /\ e.cmd = cmd
      BY <1>1, <2>2
    <3>2. \A d \in 1 .. 3 : d \in 1 .. Len(bytes)
      BY <1>2
    <3>3. /\ stream'[L + 1] = bytes[1] /\ stream'[L + 2] = bytes[2]
          /\ stream'[L + 3] = bytes[3]
      BY <1>1, <3>2
    <3>4. e.first + 1 = L + 2 /\ e.first + 2 = L + 3
      BY <1>1, <3>1
    <3> HIDE DEF e
    <3>5. /\ e.first \in Nat /\ e.last \in Nat
          /\ 1 <= e.first /\ e.first + 2 <= e.last /\ e.last <= Len(stream')
          /\ e.last = e.first + 2 + bytes[3]
      <4>1. L + 1 \in Nat /\ L + Len(bytes) \in Nat /\ 1 <= L + 1
        BY <1>1, <1>2
      <4>2. L + 1 + 2 <= L + Len(bytes) /\ Len(stream') = L + Len(bytes)
        BY <1>1, <1>2
      <4>3. L + Len(bytes) = L + 1 + 2 + bytes[3]
        <5>1. \A b \in Nat : L + (3 + b) = L + 1 + 2 + b
          BY <1>1
        <5> QED  BY <1>2, <5>1
      <4>4. L + Len(bytes) <= L + Len(bytes)
        BY <4>1
      <4> QED  BY <3>1, <4>1, <4>2, <4>3, <4>4
    <3>6. /\ stream'[e.first] = Type /\ stream'[e.first + 2] = bytes[3]
          /\ e.cmd = -1 => stream'[e.first + 1] # Complete
      BY <1>2, <3>1, <3>3, <3>4
    <3> QED  BY <3>5, <3>6 DEF Whole, e
  <2> QED  BY <1>1, <2>1, <2>2
<1>5. \A i \in 1 .. M + 1 : \A j \in 1 .. M + 1 : i < j => sent'[i].last < sent'[j].first
  <2> SUFFICES ASSUME NEW i \in 1 .. M + 1, NEW j \in 1 .. M + 1, i < j
               PROVE  sent'[i].last < sent'[j].first
    OBVIOUS
  <2>1. i \in 1 .. M
    BY <1>1
  <2>2. CASE j \in 1 .. M
    BY <1>1, <2>1, <2>2 DEF FramingInv, Events, M
  <2>3. CASE j = M + 1
    BY <1>1, <1>3, <2>1, <2>3 DEF Whole, L
  <2> QED  BY <1>1, <2>2, <2>3
<1>6. ASSUME NEW i \in 1 .. M + 1
      PROVE  IF i = M + 1 THEN sent'[i].last = Len(stream')
                          ELSE sent'[i + 1].first = sent'[i].last + 1
  <2>1. CASE i = M + 1
    BY <1>1, <2>1
  <2>2. CASE i = M
    BY <1>1, <2>2 DEF FramingInv, Events, M, L
  <2>3. CASE i \in 1 .. M - 1
    <3>1. sent[i + 1].first = sent[i].last + 1
      BY <1>1, <2>3 DEF FramingInv, Events, M
    <3> QED  BY <1>1, <2>3, <3>1
  <2> QED  BY <1>1, <2>1, <2>2, <2>3
<1> QED  BY <1>1, <1>4, <1>5, <1>6 DEF FramingInv, Events

\* An answer that is sent is that of the oldest command that has none, so that the
\* answers that are still to be read stay in the order of their commands.
Answers(cmd) ==
  \/ cmd = -1 /\ pending' = pending
  \/ cmd \in pending /\ (\A k \in pending : cmd <= k) /\ pending' = pending \ {cmd}

\* An event at the end of the stream continues framing, order and lag.
LEMMA SendsHolds ==
  ASSUME HciInv, NEW bytes, NEW cmd, Sendable(bytes, cmd), Sends(bytes, cmd),
         Answers(cmd), Elsewhere
  PROVE  HciInv'
<1> DEFINE L == Len(stream)  M == Len(sent)
<1>0. TypeOK /\ WireInv /\ FramingInv /\ OrderInv /\ CountInv /\ ReaderInv /\ LagInv /\ TakenInv
  BY DEF HciInv
<1>1. /\ WireInv' /\ L \in Nat /\ Len(stream') = L + Len(bytes)
      /\ \A j \in 1 .. L : stream'[j] = stream[j]
      /\ M \in Nat /\ Len(sent') = M + 1
      /\ \A i \in 1 .. M : sent'[i] = sent[i]
      /\ sent'[M + 1].first = L + 1 /\ sent'[M + 1].cmd = cmd
      /\ UNCHANGED <<arrived, next>>
  <2>1. sent'[M + 1] = [first |-> L + 1, last |-> L + Len(bytes), cmd |-> cmd]
    BY <1>0, Grows
  <2> QED  BY <1>0, Grows, <2>1 DEF Events
<1>2. FramingInv'
  BY <1>0, GrowsWhole
<1>3. UNCHANGED <<port, pc, call, reads, result, taken, failures, count, retry, torn>>
  BY DEF Elsewhere, caller, reader
<1>4. pending' \subseteq pending /\ cmd \in Int /\ Len(bytes) \in Nat
  BY DEF Answers, Sendable
<1>5. Events' = 1 .. M + 1 /\ Events = 1 .. M
  BY <1>1 DEF Events
<1> HIDE DEF L, M
<1>6. TypeOK'
  <2>1. count \in 0 .. Len(stream') /\ arrived \in 0 .. Len(stream')
    BY <1>0, <1>1, <1>4 DEF TypeOK, L
  <2> QED  BY <1>0, <1>1, <1>3, <1>4, <2>1 DEF TypeOK
<1>7. OrderInv'
  <2>1. cmd # -1 => cmd \in 0 .. call /\ \A k \in pending' : cmd < k
    BY <1>0, <1>4 DEF Answers, OrderInv
  <2>2. ASSUME NEW i \in 1 .. M, sent[i].cmd # -1, cmd # -1
        PROVE  sent[i].cmd < cmd
    BY <1>0, <1>5, <2>2 DEF OrderInv, Answers
  <2>3. ASSUME NEW i \in 1 .. M + 1, sent'[i].cmd # -1
        PROVE  /\ sent'[i].cmd \in 0 .. call
               /\ \A k \in pending' : sent'[i].cmd < k
               /\ \A j \in 1 .. M + 1 : i < j /\ sent'[j].cmd # -1 => sent'[i].cmd < sent'[j].cmd
    <3>1. CASE i = M + 1
      BY <1>1, <2>1, <2>3, <3>1
    <3>2. CASE i \in 1 .. M
      <4>1. sent'[i] = sent[i]
        BY <1>1, <3>2
      <4>2. /\ sent[i].cmd \in 0 .. call
            /\ \A k \in pending : sent[i].cmd < k
            /\ \A j \in 1 .. M : i < j /\ sent[j].cmd # -1 => sent[i].cmd < sent[j].cmd
        BY <1>0, <1>5, <2>3, <3>2, <4>1 DEF OrderInv
      <4>3. ASSUME NEW j \in 1 .. M + 1, i < j, sent'[j].cmd # -1
            PROVE  sent[i].cmd < sent'[j].cmd
        <5>1. CASE j \in 1 .. M
          BY <1>1, <4>2, <4>3, <5>1
        <5>2. CASE j = M + 1
          BY <1>1, <2>2, <2>3, <3>2, <4>1, <4>3, <5>2
        <5> QED  BY <1>1, <5>1, <5>2
      <4> QED  BY <1>4, <4>1, <4>2, <4>3
    <3> QED  BY <1>1, <3>1, <3>2
  <2> QED  BY <1>0, <1>3, <1>4, <1>5, <2>3 DEF OrderInv
<1>8. CountInv'
  <2>1. ASSUME pc = "payload" \/ pc = "event"
        PROVE  Remain' = Remain
    <3>1. next - count + 2 \in 1 .. L
      BY <1>0, <2>1, Numbers DEF CountInv, L
    <3> QED  BY <1>1, <1>3, <3>1 DEF Remain, Rsp
  <2> QED  BY <1>0, <1>1, <1>3, <2>1 DEF CountInv
<1>9. Begin' = Begin
  BY <1>1, <1>3 DEF Begin
<1>10. ReaderInv'
  <2>1. Boundary(next) => Boundary(next)'
    <3>1. M + 1 \in 1 .. M + 1
      BY <1>1
    <3> QED  BY <1>1, <1>5, <3>1 DEF Boundary, L
  <2>2. (\E i \in Events : sent[i].first = Begin) => \E i \in Events' : sent'[i].first = Begin'
    BY <1>1, <1>5, <1>9
  <2> QED  BY <1>0, <1>1, <1>3, <2>1, <2>2 DEF ReaderInv
<1>11. LagInv'
  <2>1. Ended' = Ended
    BY <1>3 DEF Ended
  <2>2. ASSUME ~torn, NEW i \in 1 .. M + 1, sent'[i].first >= Begin, sent'[i].cmd # -1
        PROVE  sent'[i].cmd + failures > Ended
    <3>1. CASE i \in 1 .. M
      BY <1>0, <1>1, <1>5, <2>2, <3>1 DEF LagInv
    <3>2. CASE i = M + 1
      <4>1. cmd \in pending
        BY <1>1, <2>2, <3>2 DEF Answers
      <4> QED  BY <1>0, <1>1, <2>2, <3>2, <4>1 DEF LagInv
    <3> QED  BY <1>1, <3>1, <3>2
  <2> QED  BY <1>0, <1>3, <1>4, <1>5, <1>9, <2>1, <2>2 DEF LagInv
<1>12. TakenInv'
  BY <1>0, <1>1, <1>3, <1>5 DEF TakenInv
<1> QED  BY <1>1, <1>2, <1>6, <1>7, <1>8, <1>10, <1>11, <1>12 DEF HciInv

\* An answer that gets lost, or bytes that arrive.
LEMMA QuietHolds ==
  ASSUME HciInv, Elsewhere, UNCHANGED <<stream, sent, next>>,
         arrived' \in arrived .. Len(stream), pending' \subseteq pending
  PROVE  HciInv'
<1>1. UNCHANGED <<port, pc, call, reads, result, taken, failures, count, retry, torn>>
  BY DEF Elsewhere, caller, reader
<1>2. TypeOK'
  <2>0. TypeOK /\ WireInv
    BY DEF HciInv
  <2>1. arrived' \in 0 .. Len(stream) /\ next \in 1 .. arrived' + 1
    BY <2>0, Numbers
  <2> QED  BY <1>1, <2>0, <2>1 DEF TypeOK
<1>3. WireInv' /\ FramingInv' /\ OrderInv'
  BY <1>1 DEF HciInv, WireInv, FramingInv, OrderInv, Events, Whole
<1>4. CountInv' /\ ReaderInv' /\ LagInv' /\ TakenInv'
  BY <1>1 DEF HciInv, CountInv, Remain, Rsp, ReaderInv, Boundary, Events, LagInv, Begin,
              Ended, TakenInv
<1> QED  BY <1>2, <1>3, <1>4 DEF HciInv

\* The controller's own steps.
LEMMA ControllerHolds ==
  ASSUME HciInv, Reply \/ OtherEvent \/ Arrive
  PROVE  HciInv'
<1>1. CASE Reply
  <2> DEFINE k == Min(pending)
  <2>1. pending \subseteq Nat
    BY DEF HciInv, OrderInv
  <2>2. k \in pending /\ (\A y \in pending : k <= y)
    BY <1>1, <2>1, LeastIsMember DEF Reply
  <2>3. pending' = pending \ {k} /\ Elsewhere /\ (Sends(Answer, k) \/ UNCHANGED wire)
    BY <1>1 DEF Reply
  <2>4. CASE Sends(Answer, k)
    <3>1. Sendable(Answer, k)
      BY <2>1, <2>2, AnswerIsWhole
    <3> QED  BY <2>2, <2>3, <2>4, <3>1, SendsHolds DEF Answers
  <2>5. CASE UNCHANGED wire
    <3>1. arrived' \in arrived .. Len(stream)
      BY <2>5, Numbers DEF wire, HciInv
    <3> QED  BY <2>3, <2>5, <3>1, QuietHolds DEF wire
  <2> QED  BY <2>3, <2>4, <2>5
<1>2. CASE OtherEvent
  <2>1. PICK byte \in {0, Type} : Sends(Other(byte), -1)
    BY <1>2 DEF OtherEvent
  <2>2. Answers(-1) /\ Elsewhere
    BY <1>2 DEF OtherEvent, Answers
  <2> QED  BY <2>1, <2>2, OtherIsWhole, SendsHolds
<1>3. CASE Arrive
  <2>1. arrived' \in arrived .. Len(stream)
    BY <1>3, Numbers DEF Arrive, HciInv
  <2> QED  BY <1>3, <2>1, QuietHolds DEF Arrive
<1> QED  BY <1>1, <1>2, <1>3
-----------------------------------------------------------------------------
(***************************************************************************)
(* The steps of a call.                                                    *)
(***************************************************************************)
\* A step in a call that goes on, and one in which it ends without an answer.
\* Neither makes an answer that is still to be read too old: a call that ends
\* without one is counted.
LEMMA GoesOn ==
  ASSUME HciInv, TypeOK', CountInv', ReaderInv', Begin' >= Begin,
         pc # "idle", pc' # "idle",
         UNCHANGED <<port, stream, sent, pending, call, result, failures, torn>>
  PROVE  HciInv'
<1>1. WireInv' /\ FramingInv' /\ OrderInv'
  BY DEF HciInv, WireInv, FramingInv, OrderInv, Events, Whole
<1>2. TakenInv'
  BY DEF HciInv, TakenInv
<1>3. Ended' = Ended
  BY DEF Ended
<1>4. Begin \in Int /\ Begin' \in Int
  BY DEF HciInv, TypeOK, Begin
<1>5. \A i \in Events : sent[i].first \in Nat
  BY DEF HciInv, FramingInv, Whole
<1>6. LagInv'
  BY <1>3, <1>4, <1>5 DEF HciInv, LagInv, Events
<1> QED  BY <1>1, <1>2, <1>6 DEF HciInv

\* A call that ends without an answer is paid for by one more in failures.
LEMMA Fails ==
  ASSUME HciInv, TypeOK', CountInv', ReaderInv', Begin' >= Begin,
         pc # "idle", pc' = "idle", result' # "ok", failures' = failures + 1,
         torn => torn', UNCHANGED <<port, stream, sent, pending, call>>
  PROVE  HciInv'
<1>1. WireInv' /\ FramingInv' /\ OrderInv'
  BY DEF HciInv, WireInv, FramingInv, OrderInv, Events, Whole
<1>2. TakenInv'
  BY DEF TakenInv
<1>3. Ended' = Ended + 1 /\ call \in Nat /\ Ended \in Int
  BY DEF Ended, HciInv, TypeOK
<1>4. Begin \in Int /\ Begin' \in Int
  BY DEF HciInv, TypeOK, Begin
<1>5. /\ \A i \in Events : sent[i].first \in Nat /\ sent[i].cmd \in Int
      /\ failures \in Nat /\ pending \subseteq Nat
  <2>1. WireInv
    BY DEF HciInv
  <2>2. failures \in Nat /\ pending \subseteq Nat
    BY DEF HciInv, TypeOK, OrderInv
  <2> QED  BY <2>1, <2>2, EventTypes
<1>6. LagInv'
  <2>1. failures' \in 0 .. Ended' + 1
    BY <1>3, <1>5 DEF HciInv, LagInv
  <2>2. ASSUME ~torn', NEW k \in pending
        PROVE  k + failures' > Ended'
    <3>1. k + failures > Ended
      BY <2>2 DEF HciInv, LagInv
    <3> QED  BY <1>3, <1>5, <3>1
  <2>3. ASSUME ~torn', NEW i \in Events, sent[i].first >= Begin', sent[i].cmd # -1
        PROVE  sent[i].cmd + failures' > Ended'
    <3>1. sent[i].cmd + failures > Ended
      BY <1>4, <1>5, <2>3 DEF HciInv, LagInv
    <3> QED  BY <1>3, <1>5, <3>1
  <2> QED  BY <2>1, <2>2, <2>3 DEF LagInv, Events
<1> QED  BY <1>1, <1>2, <1>6 DEF HciInv

\* Of an event that is in the stream the bytes are what the controller meant, and
\* what follows its last byte is the next event or nothing.
LEMMA AfterEvent ==
  ASSUME HciInv, NEW i \in Events
  PROVE  Boundary(sent[i].last + 1)
<1>1. CASE i = Len(sent)
  BY <1>1 DEF HciInv, FramingInv, Boundary
<1>2. CASE i # Len(sent)
  <2>1. sent[i + 1].first = sent[i].last + 1
    BY <1>2 DEF HciInv, FramingInv
  <2>2. i + 1 \in Events
    <3>1. Len(sent) \in Nat
      BY DEF HciInv, WireInv
    <3> QED  BY <1>2, <3>1 DEF Events
  <2> QED  BY <2>1, <2>2 DEF Boundary
<1> QED  BY <1>1, <1>2

\* An event is at least three bytes long.
LEMMA WholeFirst ==
  ASSUME HciInv, NEW i \in Events
  PROVE  sent[i].first \in Nat /\ sent[i].last \in Nat /\ sent[i].first + 2 <= sent[i].last
BY DEF HciInv, FramingInv, Whole

\* The type byte: the reader enters the event that begins there.
LEMMA TypeByteHolds ==
  ASSUME HciInv, TypeByte, UNCHANGED <<port, pending>>
  PROVE  HciInv'
<1>0. TypeOK /\ WireInv /\ CountInv
  BY DEF HciInv
<1>1. /\ pc = "type" /\ next' = next + 1 /\ UNCHANGED <<stream, sent, arrived>>
      /\ next <= arrived
  BY <1>0, Numbers DEF TypeByte, Consume, Empty, Available
<1>2. ~torn => \E i \in Events : sent[i].first = next
  BY <1>0, <1>1, Numbers DEF HciInv, ReaderInv, Boundary
<1>3. ~torn => stream[next] = Type
  BY <1>2 DEF HciInv, FramingInv, Whole
<1>4. CASE /\ pc' = "header" /\ count' = 1 /\ retry' \in {0, retry} /\ Stays
  <2>1. UNCHANGED <<call, reads, result, taken, failures, torn>>
    BY <1>4 DEF Stays, caller
  <2>2. count' \in 0 .. Len(stream) /\ next' \in 1 .. arrived + 1
    BY <1>0, <1>1, <1>4, Numbers
  <2>3. TypeOK'
    BY <1>0, <1>1, <1>4, <2>1, <2>2, TransportAssumption DEF TypeOK, TransportAssumption
  <2>4. CountInv'
    BY <1>0, <1>1, <1>4, <2>1, Numbers DEF CountInv
  <2>5. Begin' = next /\ Begin = next
    BY <1>0, <1>1, <1>4, Numbers DEF Begin
  <2>6. ReaderInv'
    BY <1>1, <1>2, <1>4, <2>1, <2>5 DEF ReaderInv, Events
  <2>7. Begin' >= Begin
    BY <1>0, <2>5, Numbers
  <2> QED  BY <1>1, <1>4, <2>1, <2>3, <2>4, <2>6, <2>7, GoesOn
<1>5. CASE stream[next] # Type /\ GivesUp(FALSE) /\ UNCHANGED <<count, retry>>
  <2>1. /\ pc' = "idle" /\ result' = "fail" /\ failures' = failures + 1 /\ torn' = torn
        /\ UNCHANGED <<call, reads, taken, count, retry>>
    <3>1. torn \in BOOLEAN
      BY <1>0 DEF TypeOK
    <3> QED  BY <1>5, <3>1 DEF GivesUp
  <2>2. TypeOK'
    <3>1. failures' \in 0 .. MaxCalls + 1
      BY <1>0, <1>1, <2>1, Numbers, TransportAssumption
         DEF HciInv, LagInv, Ended, TypeOK, TransportAssumption
    <3>2. next' \in 1 .. arrived + 1
      BY <1>0, <1>1, Numbers
    <3> QED  BY <1>0, <1>1, <2>1, <3>1, <3>2 DEF TypeOK
  <2>3. CountInv'
    BY <1>0, <1>1, <2>1, Numbers DEF CountInv
  <2>4. ReaderInv'
    BY <1>3, <1>5, <2>1 DEF ReaderInv
  <2>5. Begin' >= Begin
    BY <1>0, <1>1, <2>1, Numbers DEF Begin
  <2> QED  BY <1>1, <2>1, <2>2, <2>3, <2>4, <2>5, Fails
<1>6. CASE stream[next] # Type /\ port # "init" /\ ~Exhausted
           /\ CountsOn /\ Stays /\ UNCHANGED <<pc, count>>
  <2>1. UNCHANGED <<call, reads, result, taken, failures, torn, count, pc>>
    BY <1>6 DEF Stays, caller
  <2>2. TypeOK'
    <3>1. retry' \in 0 .. 3 * Tries + 1
      BY <1>0, <1>1, <1>6, Numbers DEF CountsOn, Exhausted, Limit
    <3>2. next' \in 1 .. arrived + 1
      BY <1>0, <1>1, Numbers
    <3> QED  BY <1>0, <1>1, <2>1, <3>1, <3>2 DEF TypeOK
  <2>3. CountInv'
    BY <1>0, <1>1, <2>1, Numbers DEF CountInv
  <2>4. ReaderInv'
    BY <1>3, <1>6, <2>1 DEF ReaderInv
  <2>5. Begin' >= Begin
    BY <1>0, <1>1, <2>1, Numbers DEF Begin
  <2> QED  BY <1>1, <2>1, <2>2, <2>3, <2>4, <2>5, GoesOn
<1> QED  BY <1>4, <1>5, <1>6 DEF TypeByte

\* Nothing to read: the reader tries again, or the call fails, torn if it was
\* inside of an event.
LEMMA NothingToReadHolds ==
  ASSUME HciInv, NothingToRead, UNCHANGED <<port, pending>>
  PROVE  HciInv'
<1>0. TypeOK /\ WireInv /\ CountInv
  BY DEF HciInv
<1>1. pc = "type" /\ UNCHANGED <<stream, sent, arrived, next>>
  BY DEF NothingToRead, wire
<1>2. ~torn => Boundary(next)
  BY <1>1 DEF HciInv, ReaderInv
<1>3. ASSUME pc' \in {"idle", "type"}, torn' = torn
      PROVE  ReaderInv' /\ Begin' = next /\ Begin' >= Begin
  BY <1>0, <1>1, <1>2, <1>3, Numbers DEF ReaderInv, Boundary, Events, Begin
<1>4. ASSUME /\ pc' = "idle" /\ result' = "fail" /\ failures' = failures + 1 /\ torn' = torn
             /\ reads' \in 0 .. Reads /\ UNCHANGED <<call, taken, count, retry>>
      PROVE  HciInv'
  <2>1. TypeOK'
    <3>1. failures' \in 0 .. MaxCalls + 1
      BY <1>0, <1>1, <1>4, Numbers, TransportAssumption
         DEF HciInv, LagInv, Ended, TypeOK, TransportAssumption
    <3> QED  BY <1>0, <1>1, <1>4, <3>1 DEF TypeOK
  <2>2. CountInv'
    BY <1>0, <1>1, <1>4, Numbers DEF CountInv
  <2> QED  BY <1>1, <1>3, <1>4, <2>1, <2>2, Fails
<1>5. CASE /\ port = "init" /\ Exhausted /\ reads + 1 < Reads
           /\ reads' = reads + 1 /\ StartsReading
           /\ UNCHANGED <<call, result, taken, failures>>
  <2>1. pc' = "type" /\ count' = 0 /\ retry' = 0 /\ torn' = torn
    BY <1>5 DEF StartsReading
  <2>2. reads' \in 0 .. Reads /\ reads' < Reads
    BY <1>0, <1>5, Numbers
  <2>3. TypeOK'
    <3>1. 0 \in 0 .. 3 * Tries + 1 /\ 0 \in 0 .. Len(stream)
      BY <1>0, Numbers
    <3> QED  BY <1>0, <1>1, <1>5, <2>1, <2>2, <3>1 DEF TypeOK
  <2>4. CountInv'
    BY <1>0, <1>1, <2>1, <2>2, Numbers DEF CountInv
  <2> QED  BY <1>1, <1>3, <1>5, <2>1, <2>3, <2>4, GoesOn
<1>6. CASE /\ port = "init" /\ Exhausted /\ reads + 1 = Reads
           /\ reads' = Reads /\ pc' = "idle" /\ result' = "fail"
           /\ failures' = failures + 1
           /\ UNCHANGED <<call, taken, reader>>
  <2>1. Reads \in 0 .. Reads
    BY <1>0, Numbers
  <2> QED  BY <1>4, <1>6, <2>1 DEF reader
<1>7. CASE GivesUp(FALSE) /\ UNCHANGED <<count, retry>>
  <2>1. torn \in BOOLEAN /\ reads \in 0 .. Reads
    BY <1>0 DEF TypeOK
  <2> QED  BY <1>4, <1>7, <2>1 DEF GivesUp
<1>8. CASE port # "tty" /\ ~Exhausted /\ CountsOn /\ Stays /\ UNCHANGED <<pc, count>>
  <2>1. UNCHANGED <<call, reads, result, taken, failures, torn, count, pc>>
    BY <1>8 DEF Stays, caller
  <2>2. TypeOK'
    <3>1. retry' \in 0 .. 3 * Tries + 1
      BY <1>0, <1>1, <1>8, Numbers DEF CountsOn, Exhausted, Limit
    <3> QED  BY <1>0, <1>1, <2>1, <3>1 DEF TypeOK
  <2>3. CountInv'
    BY <1>0, <1>1, <2>1, Numbers DEF CountInv
  <2> QED  BY <1>1, <1>3, <2>1, <2>2, <2>3, GoesOn
<1> QED  BY <1>5, <1>6, <1>7, <1>8 DEF NothingToRead

\* The rest of an event is late: the reader waits, or gives up and is torn.
LEMMA NoEventBytesHolds ==
  ASSUME HciInv, NoEventBytes, UNCHANGED <<port, pending>>
  PROVE  HciInv'
<1>0. TypeOK /\ WireInv /\ CountInv
  BY DEF HciInv
<1>1. pc \in {"header", "payload"} /\ UNCHANGED <<stream, sent, arrived, next>>
  BY DEF NoEventBytes, InEvent, wire
<1>2. CASE GivesUp(TRUE) /\ UNCHANGED <<count, retry>>
  <2>1. /\ pc' = "idle" /\ result' = "fail" /\ failures' = failures + 1 /\ torn' = TRUE
        /\ UNCHANGED <<call, reads, taken, count, retry>>
    BY <1>2 DEF GivesUp
  <2>2. TypeOK'
    <3>1. failures' \in 0 .. MaxCalls + 1
      BY <1>0, <1>1, <2>1, Numbers, TransportAssumption
         DEF HciInv, LagInv, Ended, TypeOK, TransportAssumption
    <3> QED  BY <1>0, <1>1, <2>1, <3>1 DEF TypeOK
  <2>3. CountInv'
    BY <1>0, <1>1, <2>1, Numbers DEF CountInv
  <2>4. ReaderInv' /\ Begin' >= Begin
    BY <1>0, <1>1, <2>1, Numbers DEF ReaderInv, Begin
  <2> QED  BY <1>1, <2>1, <2>2, <2>3, <2>4, Fails
<1>3. CASE port # "tty" /\ ~Exhausted /\ CountsOn /\ Stays /\ UNCHANGED <<pc, count>>
  <2>1. UNCHANGED <<call, reads, result, taken, failures, torn, count, pc>>
    BY <1>3 DEF Stays, caller
  <2>2. TypeOK'
    <3>1. retry' \in 0 .. 3 * Tries + 1
      BY <1>0, <1>1, <1>3, Numbers DEF CountsOn, Exhausted, Limit
    <3> QED  BY <1>0, <1>1, <2>1, <3>1 DEF TypeOK
  <2>3. CountInv'
    BY <1>0, <1>1, <2>1, Numbers DEF CountInv, Remain, Rsp
  <2>4. Begin' = Begin /\ Begin' >= Begin
    BY <1>0, <1>1, <2>1, Numbers DEF Begin
  <2>5. ReaderInv'
    BY <1>1, <2>1, <2>4 DEF HciInv, ReaderInv, Boundary, Events
  <2> QED  BY <1>1, <2>1, <2>2, <2>3, <2>4, <2>5, GoesOn
<1> QED  BY <1>2, <1>3 DEF NoEventBytes

\* The bytes behind the type byte, up to the end of the event and no further.
LEMMA EventBytesHolds ==
  ASSUME HciInv, EventBytes, UNCHANGED <<port, pending>>
  PROVE  HciInv'
<1>0. TypeOK /\ WireInv /\ CountInv
  BY DEF HciInv
<1>1. pc \in {"header", "payload"}
  BY DEF EventBytes, InEvent
<1>2. PICK n \in Nat, phase \in {"header", "payload", "event"} :
           /\ n >= 1 /\ next' = next + n /\ count' = count + n
           /\ next' <= arrived + 1 /\ UNCHANGED <<stream, sent, arrived>>
           /\ phase = "header" => count' \in 1 .. 2
           /\ phase = "payload" => count' >= 3 /\ count' - 3 < stream[next - count + 2]
           /\ phase = "event" => count' >= 3 /\ count' = 3 + stream[next - count + 2]
           /\ \/ pc' = phase /\ Stays
                 /\ \/ port # "init" /\ ~Exhausted /\ CountsOn
                    \/ port = "init" /\ retry' \in {retry, 0}
              \/ GivesUp(phase # "event") /\ retry' = retry
  BY <1>0, Onward
<1>3. /\ count' \in 0 .. Len(stream) /\ next' \in 1 .. arrived + 1 /\ count' < next'
      /\ next' - count' = next - count
  <2>1. /\ count \in Nat /\ next \in Nat /\ arrived \in Nat /\ Len(stream) \in Nat
        /\ count < next /\ arrived <= Len(stream)
    BY <1>0, Numbers DEF CountInv
  <2>2. n \in Nat /\ n >= 1 /\ next' = next + n /\ count' = count + n
        /\ next' <= arrived + 1
    BY <1>2
  <2>3. next + n <= arrived + 1
    BY <2>2
  <2>4. count + n \in 0 .. Len(stream) /\ next + n \in 1 .. arrived + 1
        /\ count + n < next + n /\ (next + n) - (count + n) = next - count
    BY <2>1, <2>2, <2>3
  <2> QED  BY <2>2, <2>4
<1>4. CASE pc' = phase /\ Stays
           /\ \/ port # "init" /\ ~Exhausted /\ CountsOn
              \/ port = "init" /\ retry' \in {retry, 0}
  <2>1. UNCHANGED <<call, reads, result, taken, failures, torn>>
    BY <1>4 DEF Stays, caller
  <2>2. TypeOK'
    <3>1. retry' \in 0 .. 3 * Tries + 1
      <4>1. CASE port # "init" /\ ~Exhausted /\ CountsOn
        <5>1. retry <= 3 * Tries /\ retry' = retry + 1
          BY <1>0, <1>1, <4>1, Numbers DEF CountsOn, Exhausted, Limit
        <5> QED  BY <1>0, <5>1, Numbers
      <4>2. CASE retry' \in {retry, 0}
        <5>1. retry \in 0 .. 3 * Tries + 1 /\ 0 \in 0 .. 3 * Tries + 1
          BY <1>0, Numbers DEF TypeOK
        <5> QED  BY <4>2, <5>1
      <4> QED  BY <1>4, <4>1, <4>2
    <3> QED  BY <1>0, <1>1, <1>2, <1>3, <1>4, <2>1, <3>1 DEF TypeOK
  <2>3. CountInv'
    <3>1. Remain' = stream[next - count + 2]
      BY <1>2, <1>3 DEF Remain, Rsp
    <3> QED  BY <1>0, <1>1, <1>2, <1>3, <1>4, <2>1, <3>1 DEF CountInv
  <2>4. Begin' = Begin /\ Begin' >= Begin
    <3>1. Begin' = next' - count' /\ Begin = next - count
      BY <1>1, <1>2, <1>4 DEF Begin
    <3>2. next - count \in Int /\ next - count >= next - count
      BY <1>0, Numbers
    <3> QED  BY <1>3, <3>1, <3>2
  <2>5. ReaderInv'
    BY <1>1, <1>2, <1>4, <2>1, <2>4 DEF HciInv, ReaderInv, Events
  <2> QED  BY <1>1, <1>2, <1>4, <2>1, <2>2, <2>3, <2>4, <2>5, GoesOn
<1>5. CASE GivesUp(phase # "event") /\ retry' = retry
  <2>1. /\ pc' = "idle" /\ result' = "fail" /\ failures' = failures + 1
        /\ torn' = (torn \/ phase # "event")
        /\ UNCHANGED <<call, reads, taken, retry>>
    BY <1>5 DEF GivesUp
  <2>2. TypeOK'
    <3>1. failures' \in 0 .. MaxCalls + 1
      BY <1>0, <1>1, <2>1, Numbers, TransportAssumption
         DEF HciInv, LagInv, Ended, TypeOK, TransportAssumption
    <3>2. torn' \in BOOLEAN
      BY <1>0, <2>1 DEF TypeOK
    <3> QED  BY <1>0, <1>2, <1>3, <2>1, <3>1, <3>2 DEF TypeOK
  <2>3. CountInv'
    BY <1>3, <2>1 DEF CountInv
  <2>4. Begin' >= Begin
    <3>1. Begin' = next' /\ Begin = next - count
      BY <1>1, <2>1 DEF Begin
    <3>2. next \in Nat /\ count \in Nat /\ n \in Nat /\ next' = next + n
      BY <1>0, <1>2, Numbers
    <3>3. next + n >= next - count
      BY <3>2
    <3> QED  BY <3>1, <3>2, <3>3
  <2>5. ASSUME ~torn'
        PROVE  Boundary(next)'
    <3>1. ~torn /\ phase = "event"
      BY <2>1, <2>5
    <3>2. PICK i \in Events : sent[i].first = next - count
      BY <1>1, <3>1 DEF HciInv, ReaderInv, Begin
    <3>3. sent[i].last = sent[i].first + 2 + stream[sent[i].first + 2]
      BY DEF HciInv, FramingInv, Whole
    <3>4. next' = sent[i].last + 1
      <4>1. next' = next + n /\ count + n = 3 + stream[next - count + 2] /\ n \in Nat
        BY <1>2, <3>1
      <4>2. next \in Nat /\ count \in Nat /\ count < next
        BY <1>0, Numbers DEF CountInv
      <4>3. stream[next - count + 2] \in Nat
        <5>1. sent[i].first + 2 \in 1 .. Len(stream)
          <6>1. /\ sent[i].first \in Nat /\ sent[i].last \in Nat
                /\ sent[i].first + 2 <= sent[i].last /\ sent[i].last <= Len(stream)
            BY DEF HciInv, FramingInv, Whole
          <6>2. Len(stream) \in Nat
            BY <1>0, Numbers
          <6> QED  BY <6>1, <6>2
        <5> QED  BY <1>0, <3>2, <5>1, Numbers
      <4> QED  BY <3>2, <3>3, <4>1, <4>2, <4>3
    <3> QED  BY <1>2, <3>4, AfterEvent DEF Boundary, Events
  <2>6. ReaderInv'
    BY <2>1, <2>5 DEF ReaderInv
  <2> QED  BY <1>1, <1>2, <2>1, <2>2, <2>3, <2>4, <2>6, Fails
<1> QED  BY <1>2, <1>4, <1>5

\* The reader has a whole event: what it stands behind, and the kind it is of.
LEMMA WholeEvent ==
  ASSUME HciInv, pc = "event", ~torn
  PROVE  \E i \in Events :
           /\ sent[i].first = next - count /\ sent[i].last = next - 1
           /\ sent[i].cmd = -1 => Rsp(1) # Complete
<1>0. TypeOK /\ WireInv /\ CountInv
  BY DEF HciInv
<1>1. PICK i \in Events : sent[i].first = next - count
  BY DEF HciInv, ReaderInv, Begin
<1>2. /\ sent[i].first \in Nat /\ sent[i].last \in Nat
      /\ sent[i].first + 2 <= sent[i].last /\ sent[i].last <= Len(stream)
      /\ sent[i].last = sent[i].first + 2 + stream[sent[i].first + 2]
      /\ sent[i].cmd = -1 => stream[sent[i].first + 1] # Complete
  BY DEF HciInv, FramingInv, Whole
<1>3. stream[next - count + 2] \in Nat
  <2>1. sent[i].first + 2 \in 1 .. Len(stream)
    <3>1. Len(stream) \in Nat
      BY <1>0, Numbers
    <3>2. /\ sent[i].first \in Nat /\ sent[i].last \in Nat
          /\ sent[i].first + 2 <= sent[i].last /\ sent[i].last <= Len(stream)
      BY <1>2
    <3> QED  BY <3>1, <3>2
  <2> QED  BY <1>0, <1>1, <2>1, Numbers
<1>4. count = 3 + stream[next - count + 2] /\ next \in Nat /\ count \in Nat
  BY <1>0, Numbers DEF CountInv, Remain, Rsp
<1>5. sent[i].last = next - 1
  BY <1>1, <1>2, <1>3, <1>4
<1> QED  BY <1>1, <1>2, <1>5 DEF Rsp

\* A call that takes an answer makes it the last one read: those behind it and
\* those still pending belong to later commands.
LEMMA EventHolds ==
  ASSUME HciInv, Event
  PROVE  HciInv'
<1>0. TypeOK /\ WireInv /\ CountInv
  BY DEF HciInv
<1>1. /\ pc = "event" /\ reads' = reads + 1
      /\ UNCHANGED <<port, call, stream, sent, arrived, next, pending>>
  BY DEF Event, wire
<1>2. reads' \in 0 .. Reads /\ reads < Reads
  BY <1>0, <1>1, Numbers DEF CountInv
<1>3. Begin = next - count /\ (pc' \in {"idle", "type"} => Begin' = next /\ Begin' >= Begin)
  BY <1>0, <1>1, Numbers DEF Begin
<1>4. ASSUME pc' \in {"idle", "type"}, torn' = torn
      PROVE  ReaderInv'
  <2>1. ASSUME ~torn
        PROVE  Boundary(next)
    <3>1. PICK i \in Events : sent[i].last = next - 1
      BY <1>1, <2>1, WholeEvent
    <3>2. sent[i].last + 1 = next
      BY <1>0, <3>1, Numbers
    <3> QED  BY <3>2, AfterEvent
  <2> QED  BY <1>1, <1>4, <2>1 DEF ReaderInv, Boundary, Events
<1>5. failures + 1 \in 0 .. MaxCalls + 1 /\ Ended = call - 1 /\ call \in Nat
  BY <1>0, <1>1, Numbers, TransportAssumption
     DEF HciInv, LagInv, Ended, TypeOK, TransportAssumption
<1>6. ASSUME pc' = "idle", result' \in {"ok", "unmatched"}, failures' \in {failures, failures + 1},
             UNCHANGED reader
      PROVE  TypeOK' /\ CountInv'
  <2>1. failures' \in 0 .. MaxCalls + 1 /\ UNCHANGED <<count, retry, torn>>
    BY <1>0, <1>5, <1>6 DEF TypeOK, reader
  <2>2. TypeOK'
    BY <1>0, <1>1, <1>2, <1>6, <2>1 DEF TypeOK
  <2>3. CountInv'
    BY <1>0, <1>1, <1>6, <2>1, Numbers DEF CountInv
  <2> QED  BY <2>2, <2>3
<1>7. CASE /\ ~Matches /\ pc' = "idle" /\ result' = "unmatched" /\ failures' = failures + 1
           /\ UNCHANGED <<reader, taken>>
  <2>1. torn' = torn
    BY <1>7 DEF reader
  <2> QED  BY <1>1, <1>3, <1>4, <1>6, <1>7, <2>1, Fails
<1>8. CASE ~Matches /\ reads' < Reads /\ StartsReading /\ UNCHANGED <<result, taken, failures>>
  <2>1. pc' = "type" /\ count' = 0 /\ retry' = 0 /\ torn' = torn
    BY <1>8 DEF StartsReading
  <2>2. TypeOK'
    <3>1. 0 \in 0 .. 3 * Tries + 1 /\ 0 \in 0 .. Len(stream)
      BY <1>0, Numbers
    <3> QED  BY <1>0, <1>1, <1>2, <1>8, <2>1, <3>1 DEF TypeOK
  <2>3. CountInv'
    BY <1>0, <1>1, <1>8, <2>1, Numbers DEF CountInv
  <2> QED  BY <1>1, <1>3, <1>4, <1>8, <2>1, <2>2, <2>3, GoesOn
<1>9. CASE /\ Matches
           /\ pc' = "idle" /\ result' = "ok"
           /\ taken' = [first |-> next - count, last |-> next - 1]
           /\ failures' = IF port = "init" /\ Rsp(1) # Complete THEN failures + 1
                                                                 ELSE failures
           /\ UNCHANGED reader
  <2>1. TypeOK' /\ CountInv' /\ ReaderInv' /\ torn' = torn
    BY <1>4, <1>6, <1>9 DEF reader
  <2>2. WireInv' /\ FramingInv' /\ OrderInv'
    BY <1>1 DEF HciInv, WireInv, FramingInv, OrderInv, Events, Whole
  <2>3. Ended' = call
    BY <1>1, <1>9 DEF Ended
  <2>4. CASE torn
    <3>1. failures' \in 0 .. Ended' + 1
      BY <1>0, <1>5, <1>9, <2>3, Numbers DEF HciInv, LagInv
    <3> QED  BY <1>9, <2>1, <2>2, <2>4, <3>1 DEF HciInv, LagInv, TakenInv
  <2>5. CASE ~torn
    <3>1. PICK i \in Events :
             /\ sent[i].first = next - count /\ sent[i].last = next - 1
             /\ sent[i].cmd = -1 => Rsp(1) # Complete
      BY <1>1, <2>5, WholeEvent
    <3>2. failures \in Nat /\ failures' \in {failures, failures + 1} /\ call \in Nat
      BY <1>0, <1>9, Numbers
    <3>3. \A j \in Events : sent[j].first \in Nat /\ sent[j].last \in Nat /\ sent[j].cmd \in Int
      BY <1>0, EventTypes
    <3>4. /\ \A k \in pending : k \in Nat /\ k + failures > call - 1
          /\ \A j \in Events : sent[j].first >= next - count /\ sent[j].cmd # -1
                                 => sent[j].cmd + failures > call - 1
          /\ failures \in 0 .. call
      BY <1>3, <1>5, <2>5, <3>2 DEF HciInv, LagInv, OrderInv
    <3>5. CASE failures' = failures + 1
      <4>1. port = "init" /\ Rsp(1) # Complete
        BY <1>9, <3>2, <3>5
      <4>2. ASSUME NEW j \in Events, sent[j].first >= next, sent[j].cmd # -1
            PROVE  sent[j].cmd + failures' > call
        <5>1. next \in Nat /\ count \in Nat
          BY <1>0, Numbers
        <5>2. sent[j].first >= next - count
          BY <3>3, <4>2, <5>1
        <5> QED  BY <3>2, <3>3, <3>4, <3>5, <4>2, <5>2
      <4>3. \A k \in pending : k + failures' > call
        BY <3>2, <3>4, <3>5
      <4>4. LagInv'
        BY <1>1, <1>3, <1>9, <2>3, <3>2, <3>4, <3>5, <4>2, <4>3 DEF LagInv, Events
      <4>5. TakenInv'
        <5>1. sent[i].cmd # -1 => sent[i].cmd <= call /\ call <= sent[i].cmd + failures'
          <6> SUFFICES ASSUME sent[i].cmd # -1
                       PROVE  sent[i].cmd <= call /\ call <= sent[i].cmd + failures'
            OBVIOUS
          <6>1. sent[i].cmd \in 0 .. call
            BY DEF HciInv, OrderInv
          <6>2. sent[i].first >= next - count
            BY <3>1, <3>3
          <6>3. sent[i].cmd + failures > call - 1
            BY <3>4, <6>2
          <6> QED  BY <3>2, <3>5, <6>1, <6>3
        <5> QED  BY <1>1, <1>9, <3>1, <4>1, <5>1 DEF TakenInv, Events
      <4> QED  BY <2>1, <2>2, <4>4, <4>5 DEF HciInv
    <3>6. CASE failures' = failures
      <4>1. Rsp(1) = Complete /\ sent[i].cmd # -1
        BY <1>9, <3>1, <3>2, <3>6 DEF Matches
      <4>2. sent[i].cmd + failures > call - 1
        <5>1. sent[i].first >= next - count
          BY <3>1, <3>3
        <5> QED  BY <3>4, <4>1, <5>1
      <4>3. /\ sent[i].cmd \in 0 .. call
            /\ \A k \in pending : sent[i].cmd < k
            /\ \A j \in Events : i < j /\ sent[j].cmd # -1 => sent[i].cmd < sent[j].cmd
        BY <4>1 DEF HciInv, OrderInv
      <4>4. \A k \in pending : k + failures' > call
        BY <3>2, <3>4, <3>6, <4>2, <4>3
      <4>5. ASSUME NEW j \in Events, sent[j].first >= next, sent[j].cmd # -1
            PROVE  sent[j].cmd + failures' > call
        <5>1. j # i
          BY <1>0, <3>1, <3>3, <4>5, WholeFirst, Numbers
        <5>2. ~(j < i)
          <6>1. j < i => sent[j].last < sent[i].first
            BY DEF HciInv, FramingInv
          <6>2. /\ sent[j].first + 2 <= sent[j].last /\ next <= sent[j].first
                /\ sent[i].first = next - count /\ next \in Nat /\ count \in Nat
            BY <1>0, <3>1, <3>3, <4>5, WholeFirst, Numbers
          <6> QED  BY <3>3, <6>1, <6>2
        <5>3. i < j
          BY <1>0, <5>1, <5>2 DEF WireInv, Events
        <5>4. sent[i].cmd < sent[j].cmd
          BY <4>3, <4>5, <5>3
        <5> QED  BY <3>2, <3>3, <3>6, <4>2, <4>3, <5>4
      <4>6. LagInv'
        BY <1>1, <1>3, <1>9, <2>3, <3>2, <3>4, <3>6, <4>4, <4>5 DEF LagInv, Events
      <4>7. sent[i].cmd <= call /\ call <= sent[i].cmd + failures'
        BY <3>2, <3>6, <4>2, <4>3
      <4>8. TakenInv'
        BY <1>1, <1>9, <3>1, <4>1, <4>7 DEF TakenInv, Events
      <4> QED  BY <2>1, <2>2, <4>6, <4>8 DEF HciInv
    <3> QED  BY <3>2, <3>5, <3>6
  <2> QED  BY <2>4, <2>5
<1> QED  BY <1>1, <1>7, <1>8, <1>9 DEF Event

\* A command opens a call; the answers that are late keep their distance.
LEMMA WriteHolds ==
  ASSUME HciInv, Write
  PROVE  HciInv'
<1>0. TypeOK /\ WireInv /\ CountInv
  BY DEF HciInv
<1>1. /\ pc = "idle" /\ call < MaxCalls /\ reads' = 0
      /\ UNCHANGED <<port, stream, sent, arrived, next, failures>>
  BY DEF Write, wire
<1>2. WireInv' /\ FramingInv'
  BY <1>1 DEF HciInv, WireInv, FramingInv, Events, Whole
<1>3. 0 \in 0 .. Reads /\ 0 < Reads /\ 0 \in 0 .. Len(stream) /\ 0 \in 0 .. 3 * Tries + 1
      /\ 0 < next
  BY <1>0, Numbers
<1>4. CASE result' = "fail" /\ UNCHANGED <<pc, call, reader, pending>>
  <2>1. UNCHANGED <<pc, call, count, retry, torn, pending>>
    BY <1>4 DEF reader
  <2>2. TypeOK'
    BY <1>0, <1>1, <1>3, <1>4, <2>1 DEF TypeOK
  <2>3. OrderInv' /\ CountInv' /\ ReaderInv' /\ LagInv' /\ TakenInv'
    BY <1>1, <1>4, <2>1 DEF HciInv, OrderInv, CountInv, ReaderInv, Boundary, LagInv, Begin,
       Ended, TakenInv, Events
  <2> QED  BY <1>2, <2>2, <2>3 DEF HciInv
<1>5. CASE /\ call' = call + 1 /\ pending' = pending \cup {call'}
           /\ result' = "none" /\ StartsReading
  <2>1. pc' = "type" /\ count' = 0 /\ retry' = 0 /\ torn' = torn
    BY <1>5 DEF StartsReading
  <2>2. call \in Nat /\ MaxCalls \in Nat /\ call' \in 0 .. MaxCalls
        /\ \A k \in 0 .. call : k \in 0 .. call' /\ k < call' /\ k \in Nat
    BY <1>0, <1>1, <1>5, Numbers, TransportAssumption DEF TransportAssumption
  <2>3. pending \subseteq 0 .. call /\ pending \subseteq 0 .. MaxCalls
    BY <1>0 DEF HciInv, OrderInv, TypeOK
  <2>4. TypeOK'
    BY <1>0, <1>1, <1>3, <1>5, <2>1, <2>2, <2>3 DEF TypeOK
  <2>5. OrderInv'
    <3>1. pending' \subseteq 0 .. call'
      <4>1. call' \in 0 .. call'
        BY <2>2
      <4> QED  BY <1>5, <2>2, <2>3, <4>1
    <3>2. ASSUME NEW i \in Events, sent[i].cmd # -1
          PROVE  /\ sent[i].cmd \in 0 .. call'
                 /\ \A k \in pending' : sent[i].cmd < k
                 /\ \A j \in Events : i < j /\ sent[j].cmd # -1 => sent[i].cmd < sent[j].cmd
      BY <1>5, <2>2, <3>2 DEF HciInv, OrderInv
    <3> QED  BY <1>1, <3>1, <3>2 DEF OrderInv, Events
  <2>6. CountInv'
    BY <1>1, <1>3, <2>1 DEF CountInv
  <2>7. Begin' = Begin /\ Ended' = Ended /\ Ended = call
    BY <1>1, <1>5, <2>1, <2>2 DEF Begin, Ended
  <2>8. ReaderInv'
    BY <1>1, <2>1 DEF HciInv, ReaderInv, Boundary, Events
  <2>9. LagInv'
    <3>1. failures \in Nat
      BY <1>0, Numbers
    <3>2. call' + failures > call
      BY <1>5, <2>2, <3>1
    <3> QED  BY <1>1, <1>5, <2>1, <2>7, <3>2 DEF HciInv, LagInv, Events
  <2>10. TakenInv'
    BY <1>5 DEF TakenInv
  <2> QED  BY <1>2, <2>4, <2>5, <2>6, <2>8, <2>9, <2>10 DEF HciInv
<1> QED  BY <1>4, <1>5 DEF Write
-----------------------------------------------------------------------------
(***************************************************************************)
(* The theorems.                                                           *)
(***************************************************************************)
LEMMA InitHolds == Init => HciInv
<1> SUFFICES ASSUME Init PROVE HciInv
  OBVIOUS
<1>1. /\ port \in Ports /\ pc = "idle" /\ call = 0 /\ reads = 0 /\ result = "none"
      /\ count = 0 /\ retry = 0 /\ torn = FALSE
      /\ stream = <<>> /\ sent = <<>> /\ arrived = 0 /\ next = 1
      /\ pending \in {{}, {0}} /\ failures = Cardinality(pending)
  BY DEF Init
<1>2. Cardinality({}) = 0 /\ Cardinality({0}) = 1
  BY FS_EmptySet, FS_Singleton
<1>3. /\ pending \subseteq {0} /\ failures \in 0 .. 1
      /\ \A k \in pending : k + failures > 0
  <2>1. CASE pending = {}
    BY <1>1, <1>2, <2>1
  <2>2. CASE pending = {0}
    BY <1>1, <1>2, <2>2
  <2> QED  BY <1>1, <2>1, <2>2
<1>4. Len(stream) = 0 /\ Len(sent) = 0 /\ Events = {}
  BY <1>1 DEF Events
<1>5. TypeOK
  <2>1. /\ 0 \in 0 .. Reads /\ 0 \in 0 .. MaxCalls /\ 0 \in 0 .. 3 * Tries + 1
        /\ 0 .. 1 \subseteq 0 .. MaxCalls + 1
    BY TransportAssumption DEF TransportAssumption
  <2>2. 0 \in 0 .. Len(stream) /\ 1 \in 1 .. arrived + 1
    BY <1>1, <1>4
  <2>3. failures \in 0 .. MaxCalls + 1 /\ pending \subseteq 0 .. MaxCalls
    BY <1>3, <2>1
  <2> QED  BY <1>1, <2>1, <2>2, <2>3 DEF TypeOK
<1>6. WireInv
  BY <1>1 DEF WireInv
<1>7. FramingInv /\ OrderInv
  BY <1>1, <1>3, <1>4 DEF FramingInv, OrderInv
<1>8. CountInv /\ ReaderInv /\ TakenInv
  BY <1>1, <1>4 DEF CountInv, ReaderInv, Boundary, TakenInv
<1>9. LagInv
  BY <1>1, <1>3, <1>4 DEF LagInv, Ended
<1> QED  BY <1>5, <1>6, <1>7, <1>8, <1>9 DEF HciInv

\* HciInv is inductive, and so an invariant.
LEMMA InvariantHolds == Spec => []HciInv
<1>1. HciInv /\ [Next]_vars => HciInv'
  <2> SUFFICES ASSUME HciInv, [Next]_vars PROVE HciInv'
    OBVIOUS
  <2>1. CASE Write
    BY <2>1, WriteHolds
  <2>2. CASE Event
    BY <2>2, EventHolds
  <2>3. CASE Reader
    BY <2>3, TypeByteHolds, NothingToReadHolds, EventBytesHolds, NoEventBytesHolds DEF Reader
  <2>4. CASE Reply \/ OtherEvent \/ Arrive
    BY <2>4, ControllerHolds
  <2>5. CASE UNCHANGED vars
    BY <2>5 DEF vars, caller, reader, wire, HciInv, TypeOK, WireInv, FramingInv, OrderInv,
       CountInv, ReaderInv, LagInv, TakenInv, Events, Whole, Boundary, Begin, Ended, Remain, Rsp
  <2> QED  BY <2>1, <2>2, <2>3, <2>4, <2>5 DEF Next, Call
<1> QED  BY <1>1, InitHolds, PTL DEF Spec

\* Every variable of the readers and the callers has a value of its type: no
\* reader runs ahead of what has arrived or counts past its last limit.
THEOREM Typed == Spec => []TypeOK
<1>1. HciInv => TypeOK
  BY DEF HciInv
<1> QED  BY <1>1, InvariantHolds, PTL

\* As long as no call gave up in the middle of an event, a reader returns whole
\* events and stands between two of them otherwise.
THEOREM ReadersKeepFraming == Spec => []FramesIntact
<1>1. HciInv => FramesIntact
  <2> SUFFICES ASSUME HciInv, ~torn
               PROVE  FramesIntact
    BY DEF FramesIntact
  <2>1. Range(sent) = {sent[i] : i \in Events}
    BY RangeEquality DEF HciInv, WireInv, Events
  <2>2. pc = "event" =>
          \E e \in Range(sent) : e.first = next - count /\ e.last = next - 1
    BY <2>1, WholeEvent
  <2>3. pc \in {"idle", "type"} =>
          next = Len(stream) + 1 \/ \E e \in Range(sent) : e.first = next
    BY <2>1 DEF HciInv, ReaderInv, Boundary
  <2> QED  BY <2>2, <2>3 DEF FramesIntact
<1> QED  BY <1>1, InvariantHolds, PTL

\* The answer that a command is given is older than it by no more than the calls
\* that went without one, although nobody compares the opcode.
THEOREM AnswersAreCounted == Spec => []AnswersLag
<1>1. HciInv => AnswersLag
  <2> SUFFICES ASSUME HciInv, result = "ok", ~torn
               PROVE  LET e == CHOOSE e \in Range(sent) : e.first = taken.first IN
                      IF e.cmd = -1 THEN port = "init" ELSE e.cmd \in call - failures .. call
    BY DEF AnswersLag
  <2> DEFINE Is(e) == e.first = taken.first
  <2>1. Range(sent) = {sent[i] : i \in Events}
    BY RangeEquality DEF HciInv, WireInv, Events
  <2>2. PICK i \in Events :
          /\ sent[i].first = taken.first
          /\ IF sent[i].cmd = -1 THEN port = "init"
                                 ELSE sent[i].cmd <= call /\ call <= sent[i].cmd + failures
    BY DEF HciInv, TakenInv
  <2>3. \A j \in Events : sent[j].first = taken.first => j = i
    <3> SUFFICES ASSUME NEW j \in Events, sent[j].first = taken.first, j # i
                 PROVE  FALSE
      OBVIOUS
    <3>1. /\ i < j => sent[i].last < sent[j].first
          /\ j < i => sent[j].last < sent[i].first
      BY DEF HciInv, FramingInv
    <3>2. i \in Int /\ j \in Int
      BY DEF Events
    <3> QED  BY <2>2, <3>1, <3>2, WholeFirst
  <2>4. (CHOOSE e \in Range(sent) : e.first = taken.first) = sent[i]
    BY <2>1, <2>2, <2>3
  <2>5. sent[i].cmd \in Int /\ call \in Nat /\ failures \in Nat
    BY EventTypes, Numbers DEF HciInv
  <2>6. IF sent[i].cmd = -1 THEN port = "init" ELSE sent[i].cmd \in call - failures .. call
    BY <2>2, <2>5
  <2> QED  BY <2>4, <2>6
<1> QED  BY <1>1, InvariantHolds, PTL
=============================================================================
