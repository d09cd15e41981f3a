---------------------------- MODULE HciTransport ----------------------------
(***************************************************************************)
(* HCI commands that the vendor library sends by itself, without the       *)
(* stack: aml_hci_send_cmd (reset and wake-up commands of USERIAL_CLOSE)   *)
(* with read_hci_event, and hci_write_cmd with hci_read_event (the UART    *)
(* set-up of USERIAL_OPEN).  They recover events from a byte stream of     *)
(* which any part may be late, and a call that gives up leaves the rest of *)
(* an event to the next one.                                               *)
(*                                                                         *)
(* A step is one read() and what follows it.  The controller and the       *)
(* drivers are external.                                                   *)
(***************************************************************************)
EXTENDS Integers, Sequences, FiniteSets, FiniteSetsExt, SequencesExt

CONSTANTS
  Ports,      \* which reader reads which file, see VARIABLE port
  Reads,      \* MAX_READ_EVENT_CNT events to a call; hci_read_event: half of it
  Tries,      \* TIMEOUT_TRYSUM * 5, or MAX_READ_EVENT_CNT / 4
  MaxCalls,   \* bound: commands sent
  MaxOthers   \* bound: events that answer no command

ASSUME TransportAssumption ==
  /\ Ports \subseteq {"tty", "node", "init"}
  /\ Reads \in Nat \ {0} /\ Tries \in Nat \ {0}
  /\ MaxCalls \in Nat /\ MaxOthers \in Nat

VARIABLES
  port,      \* "tty": read_hci_event of a tty, which is O_NONBLOCK (EAGAIN, -1)
             \* "node": read_hci_event of a driver's node, where read() gives 0
             \* "init": hci_read_event of a tty
  pc,        \* "idle", "type", "header", "payload" or "event"
  call,      \* the last command written
  count,     \* bytes in rsp
  retry,     \* retry_cnt of the reader
  reads,     \* retry_cnt of the caller
  result,    \* of the last call: "none", "ok", "unmatched" or "fail"
  taken,     \* the event a successful call took for its answer
  stream,    \* all bytes the controller has sent
  sent,      \* the events they are: first and last byte, and the command answered
  arrived,   \* bytes that have arrived
  next,      \* the next byte to read
  pending,   \* commands the controller has not answered; 0 is one of the stack's
  failures,  \* calls whose answer nobody took
  torn       \* a call gave up in the middle of an event

caller == <<call, reads, result, taken, failures>>
reader == <<count, retry, torn>>
wire == <<stream, sent, arrived, next>>
vars == <<port, pc, caller, reader, wire, pending>>

Type == 4
Complete == 14
Answer == <<Type, Complete, 4, 1, 3, 12, 0>>   \* the length is 4, too
Other(byte) == <<Type, 62, 1, byte>>
NoEvent == [first |-> 1, last |-> 0]

Init ==
  /\ port \in Ports /\ pc = "idle"
  /\ call = 0 /\ reads = 0 /\ result = "none" /\ taken = NoEvent
  /\ count = 0 /\ retry = 0 /\ torn = FALSE
  /\ stream = <<>> /\ sent = <<>> /\ arrived = 0 /\ next = 1
  /\ pending \in {{}, {0}} /\ failures = Cardinality(pending)
-----------------------------------------------------------------------------
(***************************************************************************)
(* The file.  read() gives what has arrived, up to the bytes asked for.    *)
(***************************************************************************)
Available == arrived - next + 1
Empty == Available = 0
Got(wanted) == Min({wanted, Available})
Consume(n) == next' = next + n /\ UNCHANGED <<stream, sent, arrived>>

\* rsp: the bytes the reader has put together.
Rsp(i) == stream[next - count + i]
Remain == Rsp(2)             \* size - 3 is 257: no event is cut to the buffer
-----------------------------------------------------------------------------
(***************************************************************************)
(* The callers.                                                            *)
(***************************************************************************)
StartsReading ==
  pc' = "type" /\ count' = 0 /\ retry' = 0 /\ UNCHANGED torn

\* do_write or hci_write_cmd.
Write ==
  /\ pc = "idle" /\ call < MaxCalls
  /\ reads' = 0 /\ taken' = NoEvent
  /\ \/ /\ call' = call + 1 /\ pending' = pending \cup {call'}
        /\ result' = "none" /\ StartsReading
     \/ /\ result' = "fail"
        /\ UNCHANGED <<pc, call, reader, pending>>
  /\ UNCHANGED failures
  /\ UNCHANGED <<port, wire>>

\* The reader returned -1, and so does the call.
GivesUp(inEvent) ==
  /\ pc' = "idle" /\ result' = "fail" /\ failures' = failures + 1
  /\ torn' = (torn \/ inEvent)
  /\ UNCHANGED <<call, reads, taken>>

MatchesAnything == TRUE

\* The opcode is not compared, and hci_read_event's callers take any event.
Matches == port = "init" \/ Rsp(1) = Complete

\* The reader returned an event.  A caller that has read too many without a
\* match goes on as if it had one.
Event ==
  /\ pc = "event"
  /\ reads' = reads + 1
  /\ \/ /\ Matches
        /\ pc' = "idle" /\ result' = "ok"
        /\ taken' = [first |-> next - count, last |-> next - 1]
        /\ failures' = IF port = "init" /\ Rsp(1) # Complete THEN failures + 1
                                                             ELSE failures
        /\ UNCHANGED reader
     \/ /\ ~Matches /\ reads' = Reads
        /\ pc' = "idle" /\ result' = "unmatched" /\ failures' = failures + 1
        /\ UNCHANGED <<reader, taken>>
     \/ /\ ~Matches /\ reads' < Reads
        /\ StartsReading
        /\ UNCHANGED <<result, taken, failures>>
  /\ UNCHANGED <<port, call, wire, pending>>
-----------------------------------------------------------------------------
(***************************************************************************)
(* read_hci_event and hci_read_event.                                      *)
(***************************************************************************)
Stays == UNCHANGED <<caller, torn>>

CountsOn == retry' = retry + 1

\* The limits of the three loops of read_hci_event add up; those of
\* hci_read_event start from 0.
Limit(phase) ==
  CASE port = "init" -> Tries
    [] phase = "type" -> Tries
    [] phase = "header" -> 2 * Tries
    [] phase = "payload" -> 3 * Tries

Exhausted == IF port = "init" THEN retry + 1 >= Limit(pc) ELSE retry > Limit(pc)

\* Only 0x04 begins an event.  hci_read_event gives up at anything else.
TypeByte ==
  /\ pc = "type" /\ ~Empty /\ Consume(1)
  /\ \/ /\ stream[next] = Type
        /\ pc' = "header" /\ count' = 1
        /\ retry' = IF port = "init" THEN 0 ELSE retry
        /\ Stays
     \/ /\ stream[next] # Type /\ (port = "init" \/ Exhausted)
        /\ GivesUp(FALSE) /\ UNCHANGED <<count, retry>>
     \/ /\ stream[next] # Type /\ port # "init" /\ ~Exhausted
        /\ CountsOn /\ Stays /\ UNCHANGED <<pc, count>>

NothingToReadForgets ==
  /\ pc = "type" /\ Empty
  /\ \/ /\ port = "init" /\ Exhausted
        /\ StartsReading
        /\ UNCHANGED caller
     \/ /\ port = "tty" \/ (port = "node" /\ Exhausted)
        /\ GivesUp(FALSE) /\ UNCHANGED <<count, retry>>
     \/ /\ port # "tty" /\ ~Exhausted
        /\ CountsOn /\ Stays /\ UNCHANGED <<pc, count>>
  /\ UNCHANGED wire

\* No event has begun.  hci_read_event then returns 0, and its caller tries
\* again.
NothingToRead ==
  /\ pc = "type" /\ Empty
  /\ \/ /\ port = "init" /\ Exhausted /\ reads + 1 < Reads
        /\ reads' = reads + 1 /\ StartsReading
        /\ UNCHANGED <<call, result, taken, failures>>
     \/ /\ port = "init" /\ Exhausted /\ reads + 1 = Reads
        /\ reads' = Reads /\ pc' = "idle" /\ result' = "fail"
        /\ failures' = failures + 1
        /\ UNCHANGED <<call, taken, reader>>
     \/ /\ port = "tty" \/ (port = "node" /\ Exhausted)
        /\ GivesUp(FALSE) /\ UNCHANGED <<count, retry>>
     \/ /\ port # "tty" /\ ~Exhausted
        /\ CountsOn /\ Stays /\ UNCHANGED <<pc, count>>
  /\ UNCHANGED wire

InEvent == pc \in {"header", "payload"}
Wanted == IF pc = "header" THEN 3 - count ELSE Remain - (count - 3)

PhaseShort(n, remain) ==
  IF n < 3 THEN "header" ELSE IF n - 3 < remain - 1 THEN "payload" ELSE "event"

\* Where n bytes of an event with this many parameters take the reader.
Phase(n, remain) ==
  IF n < 3 THEN "header" ELSE IF n - 3 < remain THEN "payload" ELSE "event"

\* read_hci_event looks at its counter after every read, even the last one.
EventBytes ==
  /\ InEvent /\ ~Empty
  /\ LET n == Got(Wanted)
         phase == Phase(count + n, IF count + n < 3 THEN 0
                                   ELSE stream[next - count + 2]) IN
     /\ Consume(n) /\ count' = count + n
     /\ \/ /\ port = "init"
           /\ pc' = phase /\ retry' = (IF phase = pc THEN retry ELSE 0)
           /\ Stays
        \/ /\ port # "init" /\ Exhausted
           /\ GivesUp(phase # "event") /\ UNCHANGED retry
        \/ /\ port # "init" /\ ~Exhausted
           /\ pc' = phase /\ CountsOn /\ Stays

\* The rest of an event is late.
NoEventBytes ==
  /\ InEvent /\ Empty
  /\ \/ /\ port = "tty" \/ Exhausted
        /\ GivesUp(TRUE) /\ UNCHANGED <<count, retry>>
     \/ /\ port # "tty" /\ ~Exhausted
        /\ CountsOn /\ Stays /\ UNCHANGED <<pc, count>>
  /\ UNCHANGED wire

Reader ==
  /\ TypeByte \/ NothingToRead \/ EventBytes \/ NoEventBytes
  /\ UNCHANGED <<port, pending>>
-----------------------------------------------------------------------------
(***************************************************************************)
(* The controller answers in order, or not at all, and may send more.      *)
(***************************************************************************)
Sends(bytes, cmd) ==
  /\ stream' = stream \o bytes
  /\ sent' = Append(sent, [first |-> Len(stream) + 1,
                           last |-> Len(stream) + Len(bytes), cmd |-> cmd])
  /\ UNCHANGED <<arrived, next>>

Elsewhere == UNCHANGED <<port, pc, caller, reader>>

Reply ==
  /\ pending # {}
  /\ pending' = pending \ {Min(pending)}
  /\ Sends(Answer, Min(pending)) \/ UNCHANGED wire
  /\ Elsewhere

OtherEvent ==
  /\ Cardinality({e \in Range(sent) : e.cmd = -1}) < MaxOthers
  /\ \E byte \in {0, Type} : Sends(Other(byte), -1)
  /\ UNCHANGED pending /\ Elsewhere

Arrive ==
  /\ arrived' \in arrived + 1 .. Len(stream)
  /\ UNCHANGED <<stream, sent, next, pending>> /\ Elsewhere

Call == Event \/ Reader

Next ==
  \/ Write \/ Call
  \/ Reply \/ OtherEvent \/ Arrive

Spec == Init /\ [][Next]_vars /\ WF_vars(Call)
-----------------------------------------------------------------------------
(***************************************************************************)
(* Properties.                                                             *)
(***************************************************************************)
TypeOK ==
  /\ port \in Ports /\ pc \in {"idle", "type", "header", "payload", "event"}
  /\ call \in 0 .. MaxCalls /\ reads \in 0 .. Reads
  /\ result \in {"none", "ok", "unmatched", "fail"}
  /\ retry \in 0 .. 3 * Tries + 1
  /\ count \in 0 .. Len(stream) /\ arrived \in 0 .. Len(stream)
  /\ next \in 1 .. arrived + 1
  /\ torn \in BOOLEAN /\ pending \subseteq 0 .. MaxCalls
  /\ failures \in 0 .. MaxCalls + 1

\* As long as no call gave up in the middle of an event, the readers follow the
\* controller's framing, however the bytes are spread over read() calls: what
\* they return is one whole event, and between two events they stand at the
\* start of the next one.
FramesIntact ==
  /\ pc = "event" /\ ~torn =>
       \E e \in Range(sent) : e.first = next - count /\ e.last = next - 1
  /\ pc \in {"idle", "type"} /\ ~torn =>
       next = Len(stream) + 1 \/ \E e \in Range(sent) : e.first = next

\* The answer a command is given is its own, or an older one, and it is older by
\* no more than the calls that went without an answer: aml_hci_send_cmd compares
\* no opcode, so that every such call shifts all the following ones.
AnswersLag ==
  result = "ok" /\ ~torn =>
    LET e == CHOOSE e \in Range(sent) : e.first = taken.first IN
    IF e.cmd = -1 THEN port = "init" ELSE e.cmd \in call - failures .. call

\* Every call returns, whatever the controller does.
CallsEnd == pc # "idle" ~> pc = "idle"

\* What the comments say of both callers: they wait for the command complete
\* event, so that a call to which the controller is still to answer fails only
\* when its tries have run out.
WaitsForAnswer ==
  [][pc # "idle" /\ pc' = "idle" /\ result' = "fail" /\ call \in pending
       => Exhausted]_vars
=============================================================================
