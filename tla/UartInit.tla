------------------------------ MODULE UartInit ------------------------------
(***************************************************************************)
(* aml_uart_init (vendor_common.c): the host asks the controller, at       *)
(* 115200, to go to 4 MBaud, follows it when the command is answered, and  *)
(* switches the controller off and on to try again when it is not.  The    *)
(* chips on an UART run it in BT_VND_OP_USERIAL_OPEN, after                *)
(* userial_vendor_open has flushed the line.                               *)
(*                                                                         *)
(* Only six bytes of an answer are compared, the status is not among them, *)
(* and between two attempts the line is not flushed.  hci_read_event gives *)
(* up at the first byte that is not the type of an event, and in an event  *)
(* that does not end: what it has not read is left to the next attempt.    *)
(* The line is therefore a sequence of whole events and of bytes that are  *)
(* out of frame.  The line, the power pin's driver and the controller are  *)
(* external.                                                               *)
(***************************************************************************)
EXTENDS Naturals, Sequences

CONSTANTS
  Attempts,    \* the 3 of aml_uart_init
  Reads,       \* MAX_READ_EVENT_CNT / 2 calls of hci_read_event
  MaxLosses,   \* bound: losses of a call that are counted
  MaxBytes     \* bound: bytes out of frame that one fault leaves on the line

ASSUME UartAssumption ==
  /\ Attempts \in Nat \ {0} /\ Reads \in Nat \ {0}
  /\ MaxLosses \in Nat /\ MaxBytes \in Nat

VARIABLES
  pc,        \* "idle", "send", "read", "off", "on" or "done"
  retry,     \* retry
  retryCnt,  \* retry_cnt
  host,      \* speed of the tty: "slow" is 115200, "fast" is 4000000
  ctl,       \* speed of the controller's side of the line
  power,     \* the controller: "off", "booting" or "ready"
  command,   \* the controller has the command and has not answered it
  tty,       \* what the host can read: events, each with its epoch, and bytes
  epoch,     \* power cycles of the controller in this call
  rsp,       \* what the last hci_read_event left in rsp
  result,    \* "none", "ok" for 0 and "fail" for -1
  upioFailed,\* a write to the power pin failed in this call
  losses     \* what went wrong in this call, as the attempts it can cost

control == <<pc, retry, retryCnt, result>>
line == <<host, tty, rsp>>
chip == <<ctl, power, command, epoch>>
history == <<upioFailed, losses>>
vars == <<control, line, chip, history>>

Answer(kind) == [kind |-> kind, epoch |-> epoch]
Zeros == [kind |-> "none", epoch |-> 0]

\* Events begin with 0x04, which tells how many more bytes belong to them.
IsEvent(item) == item.kind \in {"good", "refused", "other"}

\* Bytes of no event, or of one of which the beginning is lost: 0x04 ("type"),
\* which is taken for the beginning of an event, or another value ("byte").
Bytes == [kind : {"byte", "type"}, epoch : {0}]
Bursts == UNION {[1 .. n -> Bytes] : n \in 0 .. MaxBytes}

\* What goes wrong can cost n attempts; MaxLosses stands for that many or more.
Loss(n) == losses' = IF losses + n < MaxLosses THEN losses + n ELSE MaxLosses

Init ==
  /\ pc = "idle" /\ retry = 0 /\ retryCnt = 0 /\ result = "none"
  /\ host = "slow" /\ tty = <<>> /\ rsp = Zeros
  /\ ctl \in {"slow", "fast"} /\ power = "ready" /\ command = FALSE /\ epoch = 0
  /\ upioFailed = FALSE /\ losses = 0
-----------------------------------------------------------------------------
\* Opening the port flushes it and sets 115200.  POWER_CTRL may have switched the
\* controller off and on since the last call, which may have failed and which
\* does not wait for it; or left it on, at the speed it had.
Start ==
  /\ pc = "idle"
  /\ pc' = "send" /\ retry' = 0 /\ retryCnt' = 0 /\ result' = "none"
  /\ host' = "slow" /\ tty' = <<>> /\ rsp' = Zeros
  /\ \/ power' = "ready" /\ UNCHANGED ctl
     \/ power' \in {"off", "booting", "ready"} /\ ctl' = "slow"
  /\ command' = FALSE /\ epoch' = 0
  /\ upioFailed' = FALSE /\ losses' = 0

\* hci_write_cmd wrote the command.  A controller that listens at another speed
\* or is not up does not get it.
Sent ==
  /\ pc = "send" /\ pc' = "read"
  /\ \/ /\ power = "ready" /\ host = ctl
        /\ command' = TRUE /\ UNCHANGED losses
     \/ /\ power = "off" \/ host # ctl
        /\ UNCHANGED <<command, losses>>
     \/ /\ power # "off" /\ host = ctl       \* lost on the line, or too early
        /\ UNCHANGED command /\ Loss(1)
  /\ UNCHANGED <<retry, retryCnt, result, line, ctl, power, epoch, upioFailed>>

\* hci_write_cmd failed: the attempt starts again, and is not counted.
NotSent ==
  /\ pc = "send" /\ Loss(1)
  /\ UNCHANGED <<control, line, chip, upioFailed>>

AcceptsAny(answer) == answer.kind \in {"good", "refused", "other"}

\* memcmp(expected_rsp, rsp, 6)
Accepts(answer) == answer.kind \in {"good", "refused"}

\* After the read rsp is compared with what is expected, whatever
\* hci_read_event returned, unless it returned 0.
Compare ==
  /\ IF Accepts(rsp')
       THEN host' = "fast" /\ pc' = "done" /\ result' = "ok"
       ELSE pc' = "off" /\ UNCHANGED <<host, result>>
  /\ UNCHANGED <<retry, retryCnt, chip, upioFailed>>

\* An event was there, or the rest of it came in time.
ReadEvent ==
  /\ pc = "read" /\ tty # <<>> /\ IsEvent(Head(tty))
  /\ tty' = Tail(tty) /\ rsp' = Head(tty)
  /\ Compare /\ UNCHANGED losses

\* The rest did not come in time and hci_read_event gives up in the header or in
\* the parameters.  Six bytes are enough to be compared.  The rest may come later.
ReadCutOff ==
  /\ pc = "read" /\ Len(tty) = 1 /\ IsEvent(Head(tty))
  /\ tty' \in Bursts /\ rsp' \in {Head(tty), Zeros}
  /\ Compare /\ Loss(1 + Len(tty'))

\* The first byte is no type: hci_read_event returns -1, the others are not read.
ReadByte ==
  /\ pc = "read" /\ tty # <<>> /\ Head(tty).kind = "byte"
  /\ tty' = Tail(tty) /\ rsp' = Head(tty)
  /\ Compare /\ UNCHANGED losses

\* Behind a byte 0x04 out of frame two more are taken for a header, and as many
\* for parameters as the second says; or all there are.  It can end in an event.
ReadMisframed ==
  /\ pc = "read" /\ tty # <<>> /\ Head(tty).kind = "type"
  /\ \E n \in 1 .. Len(tty), rest \in Bursts :
       /\ n = Len(tty) \/ n >= 3 \/ (n = 2 /\ IsEvent(tty[2]))
       /\ rest = <<>> \/ IsEvent(tty[n])
       /\ tty' = rest \o SubSeq(tty, n + 1, Len(tty))
       /\ Loss(Len(rest))
  /\ rsp' = Head(tty)
  /\ Compare

\* read failed before the first byte, and not for want of bytes.
ReadFails ==
  /\ pc = "read" /\ rsp' = Zeros /\ UNCHANGED tty
  /\ Compare /\ Loss(1)

\* hci_read_event returned 0: try again, up to Reads times.  The controller may
\* have been too slow.
ReadNothing ==
  /\ pc = "read" /\ tty = <<>>
  /\ rsp' = Zeros /\ retryCnt' = retryCnt + 1
  /\ IF retryCnt' < Reads
       THEN UNCHANGED <<pc, losses>>
       ELSE /\ pc' = "off"
            /\ IF command THEN Loss(1) ELSE UNCHANGED losses
  /\ UNCHANGED <<retry, result, host, tty, chip, upioFailed>>

\* upio_set_bluetooth_power; its result is ignored.
PinFails ==
  /\ upioFailed' = TRUE /\ Loss(1)
  /\ UNCHANGED <<ctl, power, command, epoch>>

GivesUpEarly == retry + 2 = Attempts

\* The loop condition retry < 3, for the retry++ of this attempt.
LastTry == retry + 1 = Attempts

PowerOffUnlessLast ==
  /\ pc = "off"
  /\ \/ LastTry /\ pc' = "done" /\ result' = "fail"
        /\ UNCHANGED <<chip, history>>
     \/ ~LastTry /\ pc' = "on" /\ power' = "off" /\ ctl' = "slow"
        /\ command' = FALSE /\ epoch' = epoch + 1 /\ UNCHANGED <<result, history>>
  /\ UNCHANGED <<retry, retryCnt, line>>

PowerOff ==
  /\ pc = "off" /\ pc' = "on"
  /\ \/ /\ power' = "off" /\ ctl' = "slow" /\ command' = FALSE /\ epoch' = epoch + 1
        /\ UNCHANGED history
     \/ PinFails
  /\ UNCHANGED <<retry, retryCnt, result, line>>

PowerOnForgetsCount ==
  /\ pc = "on"
  /\ retryCnt' = 0 /\ retry' = 0
  /\ pc' = "send" /\ UNCHANGED result
  /\ \/ power' = (IF power = "off" THEN "booting" ELSE power)
        /\ UNCHANGED <<ctl, command, epoch, history>>
     \/ PinFails
  /\ UNCHANGED line

PowerOn ==
  /\ pc = "on"
  /\ retryCnt' = 0 /\ retry' = retry + 1
  /\ IF LastTry THEN pc' = "done" /\ result' = "fail"
                ELSE pc' = "send" /\ UNCHANGED result
  /\ \/ power' = (IF power = "off" THEN "booting" ELSE power)
        /\ UNCHANGED <<ctl, command, epoch, history>>
     \/ PinFails
  /\ UNCHANGED line

\* USERIAL_CLOSE and whatever follows, up to the next USERIAL_OPEN.
Close ==
  /\ pc = "done" /\ pc' = "idle"
  /\ UNCHANGED <<retry, retryCnt, result, line, chip, history>>
-----------------------------------------------------------------------------
Boot ==
  /\ power = "booting" /\ power' = "ready"
  /\ UNCHANGED <<control, line, ctl, command, epoch, history>>

\* The controller answers at the old speed and then changes it, or refuses.  The
\* answer can be lost, or reach the host as bytes out of frame.
Execute ==
  /\ power = "ready" /\ command /\ command' = FALSE
  /\ \/ /\ ctl' = "fast"
        /\ \/ tty' = Append(tty, Answer("good")) /\ UNCHANGED losses
           \/ \E torn \in Bursts : tty' = tty \o torn /\ Loss(1 + Len(torn))
     \/ tty' = Append(tty, Answer("refused")) /\ Loss(1) /\ UNCHANGED ctl
  /\ UNCHANGED <<control, host, rsp, power, epoch, upioFailed>>

\* Another event reaches the host, or noise, which needs no controller.
Stray ==
  /\ pc \notin {"idle", "done"} /\ losses < MaxLosses
  /\ \/ /\ power # "off"
        /\ tty' = Append(tty, Answer("other")) /\ Loss(1)
     \/ \E noise \in Bursts \ {<<>>} : tty' = tty \o noise /\ Loss(Len(noise))
  /\ UNCHANGED <<control, host, rsp, chip, upioFailed>>

Read == ReadEvent \/ ReadCutOff \/ ReadByte \/ ReadMisframed \/ ReadFails
Attempt == Sent \/ Read \/ ReadNothing \/ PowerOff \/ PowerOn
Controller == Boot \/ Execute

Next ==
  \/ Start \/ NotSent \/ Attempt \/ Close
  \/ Controller \/ Stray

\* The call goes on as long as writing to the port does not always fail.
Spec == Init /\ [][Next]_vars /\ SF_vars(Sent) /\ WF_vars(Attempt)
-----------------------------------------------------------------------------
(***************************************************************************)
(* Properties.                                                             *)
(***************************************************************************)
Speeds == {"slow", "fast"}
Items == [kind : {"good", "refused", "other", "byte", "type"}, epoch : Nat]

TypeOK ==
  /\ pc \in {"idle", "send", "read", "off", "on", "done"}
  /\ retry \in 0 .. Attempts /\ retryCnt \in 0 .. Reads
  /\ host \in Speeds /\ ctl \in Speeds /\ power \in {"off", "booting", "ready"}
  /\ command \in BOOLEAN /\ upioFailed \in BOOLEAN
  /\ tty \in Seq(Items) /\ rsp \in Items \cup {Zeros}
  /\ epoch \in Nat /\ losses \in 0 .. MaxLosses
  /\ result \in {"none", "ok", "fail"}

\* The host took a refusal for success (the status is not compared), or the late
\* answer to an attempt before the last power cycle (the line is not flushed).
Mistaken == result = "ok" /\ (rsp.kind = "refused" \/ rsp.epoch < epoch)

\* When aml_uart_init reports success both ends are at 4 MBaud, unless the host
\* was mistaken.
SpeedsAgree ==
  pc = "done" /\ result = "ok" /\ ~Mistaken =>
    host = "fast" /\ ctl = "fast" /\ power = "ready"

\* When it reports failure, both ends are at 115200 and the controller is on,
\* so that the next USERIAL_OPEN starts from scratch, unless the pin failed.
FailureLeavesReset ==
  pc = "done" /\ result = "fail" =>
    /\ host = "slow"
    /\ upioFailed \/ (ctl = "slow" /\ power # "off")

\* The attempts absorb a controller that was left at 4 MBaud or without power
\* together with one loss of any kind: a command, an answer, a late or wrong one,
\* a failed write or read, one byte of noise.  A fault that leaves more bytes than
\* one out of frame is as many losses, because each of them can cost an attempt.
OneLossIsAbsorbed == pc = "done" /\ result = "fail" => losses >= 2

\* "For HCI event packets, it should be 0x04, so we read until we get to the
\* 0x04" (hci_read_event): bytes before the answer do not end the attempt.
ReadsUntilEvent ==
  [][pc = "read" /\ Len(tty) > 1 /\ Head(tty).kind = "byte" /\ Accepts(tty[2])
       => pc' # "off"]_vars

Abstract == INSTANCE LineSpeed WITH
  call <- CASE pc = "idle" -> "idle" [] pc = "done" -> "done" [] OTHER -> "moving",
  on <- power # "off", mistaken <- Mistaken, pinFailed <- upioFailed

\* Whatever the line, the controller and the pin do, a call of aml_uart_init ends
\* in one of the ways its callers count on, and what it left behind can change
\* nothing later but the speed of a controller that was not reset.  It ends, too,
\* if writing to the port does not fail for ever: retry does not count that.
ImplementsLineSpeed == Abstract!Spec
=============================================================================
