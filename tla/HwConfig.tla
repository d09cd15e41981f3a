------------------------------ MODULE HwConfig ------------------------------
(***************************************************************************)
(* The firmware configuration state machine of hardware.c: hw_config_start *)
(* and hw_config_quick_start send the first HCI command, and every command *)
(* complete event runs hw_config_cback, which dispatches on hw_cfg_cb.state*)
(* through hw_config_func[] and sends the next one, until a handler        *)
(* reports success or a failure aborts the configuration.                  *)
(*                                                                         *)
(* A definition whose name is that of another one with a word after it     *)
(* (AbortLeaks, SentEarly, RegNextLoops ...) is a plausible bug, used by no*)
(* action: replacing the original by it must break a property.             *)
(*                                                                         *)
(* The stack (alloc, xmit_cb, dealloc, fwcfg_cb) and the controller are    *)
(* external: alloc, xmit_cb and the status of an event may fail.  Firmware *)
(* bytes and manufacturer bytes are abstracted to their offsets.           *)
(***************************************************************************)
EXTENDS Integers

CONSTANTS
  Chips,       \* the <<family, interface>> pairs of libbt.c to consider
  Rom,         \* bytes of the ICCM image that are in ROM (256 * 1024)
  Chunk,       \* RW_OPERATION_SIZE
  MinAlloc,    \* MIN_ALLOC_SIZE
  MaxAlloc,    \* MAX_ALLOC_SIZE
  Images,      \* <<iccm_size, dccm_size>> pairs hw_get_bin_size may read
  ManfCnts,    \* values init() may load into amlbt_manf_cnt, in records of 6
               \* bytes: load_aml_stack_conf drops a list of another length
  ManfParas,   \* values init() may load into amlbt_manf_para, as sets of rows
  MaxRequests  \* bound: FW_CFG operations in one behaviour

Rows == 0 .. 15                                            \* MANF_ROW

ASSUME ConstantsAssumption ==
  /\ Chips \subseteq {"W1", "W1U", "W2", "W2L"} \X {"SDIO", "USB", "PCIE"}
  /\ Rom \in Nat
  /\ Chunk \in Nat \ {0}
  /\ MinAlloc \in Nat \ {0} /\ MaxAlloc \in Nat
  /\ Images \subseteq Nat \X Nat
  /\ ManfCnts \subseteq Nat
  /\ ManfParas \subseteq SUBSET Rows
  /\ MaxRequests \in Nat

VARIABLES
  chip,        \* amlbt_transtype, detected once
  state,       \* hw_cfg_cb.state; TEST_WRITE is 0 and doubles as idle
  cnt,         \* the shared counter of hardware.c:137
  iccmSize, lenIccm, offIccm,    \* iccm_size, len_iccm, offset_iccm
  dccmSize, lenDccm, offDccm,    \* dccm_size, len_dccm, offset_dccm
  iccmBuf, dccmBuf,              \* what p_iccm_buf and p_dccm_buf point to
  fault,       \* "none", or what a bad pointer did: "uaf", "crash"
  fwFd,        \* fw_fd names an open file
  manfCnt,     \* amlbt_manf_cnt: wake-up records still to send
  manfPara,    \* amlbt_manf_para
  cbacks,      \* bt_vendor_cbacks # NULL
  waiting,     \* the stack waits for fwcfg_cb
  answer,      \* the last fwcfg_cb of this request
  wire,        \* the configuration command the controller is executing
  event,       \* status of the event waiting for hw_config_cback, or "none"
  owned,       \* command buffers the library took and never gave back
  ctl,         \* what the controller has executed since the last request
  requests,    \* FW_CFG operations so far
  manfConf,    \* amlbt_manf_cnt as init() last loaded it
  tries,       \* FW_CFG operations since init()
  badImage     \* a start saw an invalid image header or a failed malloc

imageVars == <<iccmSize, lenIccm, offIccm, dccmSize, lenDccm, offDccm>>
heapVars == <<iccmBuf, dccmBuf, fault, badImage>>
confVars == <<chip, manfPara, manfConf, requests, tries>>
stackVars == <<waiting, answer>>
vars == <<state, cnt, imageVars, heapVars, confVars, fwFd, manfCnt, cbacks,
          stackVars, wire, event, owned, ctl>>

Family == chip[1]
Interface == chip[2]

\* Which operation BT_VND_OP_FW_CFG is: only the SDIO parts of W1 and W1U are
\* configured by hw_config_start, all the others by hw_config_quick_start.
Downloads == chip \in {<<"W1", "SDIO">>, <<"W1U", "SDIO">>}

DownloadStates == {"TEST_WRITE", "ICCM", "DCCM", "CLOSE_EVENT",
  "RF_CALIBRATION", "TX_POWER", "FWLOG_OUTPUT", "START_CPU_BEFORE",
  "START_CPU", "SET_PARAMS"}
States == DownloadStates \cup
  {"SET_WAVEFORM_DATA", "SET_BD_ADDR", "SET_WAKEUP_PARAMS", "SET_MANU_DATA"}

(***************************************************************************)
(* Commands.  arg is the set of offsets an iccm or dccm command carries,   *)
(* the record or the rows of a wake-up command, and {0} otherwise.         *)
(* ctl[op] is the union of the args the controller has executed, so that   *)
(* ctl[op] = {} says it has executed none.                                 *)
(***************************************************************************)
Ops == {"reset", "reg", "iccm", "dccm", "cpu_start", "bd_addr",
        "wake_default", "wake_record", "wake_rows"}
Data(op, arg) == [op |-> op, arg |-> arg]
Cmd(op) == Data(op, {0})
NoCmd == [op |-> "none", arg |-> {}]
FreshCtl == [op \in Ops |-> {}]

Least(a, b) == IF a <= b THEN a ELSE b

\* The bytes a chunk copies out of an image, and the test for the last chunk.
BytesTwice(off, n) == off .. off + n
Bytes(off, n) == off .. off + n - 1
SentEarly(len) == len <= 1
Sent(len) == len <= 0
-----------------------------------------------------------------------------
Init ==
  /\ chip \in Chips
  /\ state = "TEST_WRITE" /\ cnt = 1
  /\ iccmSize = 0 /\ lenIccm = 0 /\ offIccm = 0
  /\ dccmSize = 0 /\ lenDccm = 0 /\ offDccm = 0
  /\ iccmBuf = "null" /\ dccmBuf = "null" /\ fault = "none"
  /\ fwFd = FALSE
  /\ manfCnt = 0 /\ manfPara = {} /\ manfConf = 0
  /\ cbacks = FALSE /\ waiting = FALSE /\ answer = "none"
  /\ wire = NoCmd /\ event = "none" /\ owned = 0
  /\ ctl = FreshCtl
  /\ requests = 0 /\ tries = 0 /\ badImage = FALSE

Alive == fault # "crash"

(***************************************************************************)
(* The stack.  init() loads the configuration and registers the callbacks; *)
(* the HCI layer it talks to is new, so no event of an older one is left.  *)
(* cleanup() may come at any time, with a command still in flight.         *)
(***************************************************************************)
VendorInit ==
  /\ Alive /\ ~cbacks
  /\ manfCnt' \in ManfCnts /\ manfConf' = manfCnt'
  /\ manfPara' \in ManfParas
  /\ cbacks' = TRUE /\ answer' = "none" /\ tries' = 0
  /\ wire' = NoCmd /\ event' = "none"
  /\ UNCHANGED <<chip, state, cnt, imageVars, heapVars, fwFd, waiting, owned,
                 ctl, requests>>

Cleanup ==
  /\ Alive /\ cbacks
  /\ cbacks' = FALSE /\ waiting' = FALSE
  /\ UNCHANGED <<state, cnt, imageVars, heapVars, confVars, fwFd, manfCnt,
                 answer, wire, event, owned, ctl>>

\* A dead process is started again by its service manager.
Restart ==
  /\ ~Alive
  /\ state' = "TEST_WRITE" /\ cnt' = 1
  /\ iccmSize' = 0 /\ lenIccm' = 0 /\ offIccm' = 0
  /\ dccmSize' = 0 /\ lenDccm' = 0 /\ offDccm' = 0
  /\ iccmBuf' = "null" /\ dccmBuf' = "null" /\ fault' = "none"
  /\ fwFd' = FALSE /\ manfCnt' = 0 /\ manfPara' = {} /\ manfConf' = 0
  /\ cbacks' = FALSE /\ waiting' = FALSE
  /\ wire' = NoCmd /\ event' = "none" /\ owned' = 0 /\ tries' = 0
  /\ ctl' = FreshCtl
  /\ UNCHANGED <<chip, requests, answer, badImage>>

\* The controller executes the command, or refuses it with a non-zero status.
ControllerReply ==
  /\ Alive /\ wire # NoCmd
  /\ wire' = NoCmd
  /\ \/ event' = "ok" /\ ctl' = [ctl EXCEPT ![wire.op] = @ \cup wire.arg]
     \/ event' = "error" /\ UNCHANGED ctl
  /\ UNCHANGED <<state, cnt, imageVars, heapVars, confVars, fwFd, manfCnt,
                 cbacks, stackVars, owned>>
-----------------------------------------------------------------------------
(***************************************************************************)
(* The ends of hw_config_cback.  The event buffer is freed in all of them. *)
(***************************************************************************)

AbortLeaks ==
  /\ state' = "TEST_WRITE" /\ wire' = NoCmd /\ owned' = owned + 1
  /\ IF cbacks THEN waiting' = FALSE /\ answer' = "fail"
               ELSE UNCHANGED stackVars
AbortFreesTwice ==
  /\ state' = "TEST_WRITE" /\ wire' = NoCmd /\ owned' = owned - 1
  /\ IF cbacks THEN waiting' = FALSE /\ answer' = "fail"
               ELSE UNCHANGED stackVars
AbortUnregistered ==
  /\ state' = "TEST_WRITE" /\ wire' = NoCmd /\ owned' = owned
  /\ waiting' = FALSE /\ answer' = "fail"

\* is_proceeding = FALSE: the command buffer, if there is one, is given back.
Abort ==
  /\ state' = "TEST_WRITE"
  /\ wire' = NoCmd
  /\ owned' = owned
  /\ IF cbacks THEN waiting' = FALSE /\ answer' = "fail"
               ELSE UNCHANGED stackVars

AdvanceUnchecked(next, c) ==
  /\ state' = next
  /\ UNCHANGED stackVars
  /\ \/ wire' = c /\ UNCHANGED owned
     \/ wire' = NoCmd /\ owned' = owned + 1

\* A handler sets the next state and transmits: xmit_cb takes the buffer over,
\* or fails and the configuration is aborted.
Advance(next, c) ==
  \/ /\ state' = next /\ wire' = c
     /\ UNCHANGED <<stackVars, owned>>
  \/ Abort

\* A handler that ends the configuration frees the buffer itself.
Succeed ==
  /\ state' = "TEST_WRITE" /\ wire' = NoCmd /\ owned' = owned
  /\ waiting' = FALSE /\ answer' = "success"

\* The event has a good status, a buffer could be allocated, and hw_config_func
\* is entered at s.
Dispatch(s) ==
  /\ Alive /\ cbacks
  /\ event = "ok" /\ event' = "none"
  /\ state = s

\* A bad status, no callbacks, or no buffer: no handler runs.
CbackAbort ==
  /\ Alive /\ event # "none"
  /\ event' = "none"
  /\ Abort
  /\ UNCHANGED <<cnt, imageVars, heapVars, confVars, fwFd, manfCnt, cbacks, ctl>>
-----------------------------------------------------------------------------
(***************************************************************************)
(* The download: handlers of DownloadStates.                               *)
(***************************************************************************)

RegNextLoops == [TEST_WRITE |-> "TEST_WRITE",
                 RF_CALIBRATION |-> "START_CPU_BEFORE",
                 START_CPU_BEFORE |-> "START_CPU"]
\* The handlers that write one register and go on.  TX_POWER and FWLOG_OUTPUT
\* are entered on W2 only.
RegNext == [TEST_WRITE       |-> "ICCM",
            RF_CALIBRATION   |-> IF Family = "W2" THEN "TX_POWER"
                                                  ELSE "START_CPU_BEFORE",
            TX_POWER         |-> "FWLOG_OUTPUT",
            FWLOG_OUTPUT     |-> "START_CPU_BEFORE",
            START_CPU_BEFORE |-> "START_CPU"]

RegisterStep ==
  /\ state \in DOMAIN RegNext
  /\ Dispatch(state)
  /\ Advance(RegNext[state], Cmd("reg"))
  /\ UNCHANGED <<cnt, imageVars, heapVars, confVars, fwFd, manfCnt, cbacks, ctl>>

\* Reading through an image pointer.
Deref(buf) == fault' = IF buf = "freed" THEN "uaf" ELSE fault

Iccm ==
  /\ Dispatch("ICCM")
  /\ \/ /\ Sent(lenIccm)
        /\ cnt' = 0
        /\ Abort
        /\ UNCHANGED <<lenIccm, offIccm, fault>>
     \/ LET n == Least(lenIccm, Chunk) IN
        /\ ~Sent(lenIccm)
        /\ iccmBuf # "null"
        /\ Deref(iccmBuf)
        /\ lenIccm' = lenIccm - n
        /\ offIccm' = offIccm + n
        /\ cnt' = IF Sent(lenIccm') THEN 0 ELSE cnt + 1
        /\ Advance(IF Sent(lenIccm') THEN "DCCM" ELSE "ICCM",
                   Data("iccm", Bytes(offIccm, n)))
  /\ UNCHANGED <<iccmSize, dccmSize, lenDccm, offDccm, iccmBuf, dccmBuf,
                 badImage, confVars, fwFd, manfCnt, cbacks, ctl>>

\* After the last chunk W1U opens the Bluetooth device node.  If that fails the
\* handler returns -1, which hw_config_cback takes for TRUE: the command buffer
\* of a failed xmit_cb is then neither sent nor freed, and nobody is told.
Dccm ==
  /\ Dispatch("DCCM")
  /\ \/ /\ Sent(lenDccm)
        /\ Abort
        /\ UNCHANGED <<lenDccm, offDccm, cnt, fault>>
     \/ LET n == Least(lenDccm, Chunk) IN
        /\ ~Sent(lenDccm)
        /\ dccmBuf # "null"
        /\ Deref(dccmBuf)
        /\ lenDccm' = lenDccm - n
        /\ offDccm' = offDccm + n
        /\ cnt' = IF Sent(lenDccm') THEN 0 ELSE cnt + 1
        /\ \/ Advance(IF Sent(lenDccm') THEN "CLOSE_EVENT" ELSE "DCCM",
                      Data("dccm", Bytes(offDccm, n)))
           \/ /\ Sent(lenDccm') /\ Family = "W1U" /\ Interface # "USB"
              /\ state' = "CLOSE_EVENT"
              /\ wire' = NoCmd /\ owned' = owned + 1
              /\ UNCHANGED stackVars
  /\ UNCHANGED <<iccmSize, dccmSize, lenIccm, offIccm, iccmBuf, dccmBuf,
                 badImage, confVars, fwFd, manfCnt, cbacks, ctl>>

\* A NULL image pointer kills the process in the chunk handlers.
NullChunk ==
  /\ Alive /\ cbacks /\ event = "ok"
  /\ \/ state = "ICCM" /\ ~Sent(lenIccm) /\ iccmBuf = "null"
     \/ state = "DCCM" /\ ~Sent(lenDccm) /\ dccmBuf = "null"
  /\ fault' = "crash"
  /\ UNCHANGED <<state, cnt, imageVars, iccmBuf, dccmBuf, badImage, confVars,
                 fwFd, manfCnt, cbacks, stackVars, wire, event, owned, ctl>>

\* free() of both images; the pointers keep their values.
CloseEvent ==
  /\ Dispatch("CLOSE_EVENT")
  /\ iccmBuf' = IF iccmBuf = "null" THEN "null" ELSE "freed"
  /\ dccmBuf' = IF dccmBuf = "null" THEN "null" ELSE "freed"
  /\ fault' = IF "freed" \in {iccmBuf, dccmBuf} THEN "uaf" ELSE fault
  /\ fwFd' = FALSE
  /\ Advance("RF_CALIBRATION", Cmd("reg"))
  /\ UNCHANGED <<cnt, imageVars, badImage, confVars, manfCnt, cbacks, ctl>>

StartCpu ==
  /\ Dispatch("START_CPU")
  /\ Advance("SET_PARAMS", Cmd("cpu_start"))
  /\ UNCHANGED <<cnt, imageVars, heapVars, confVars, fwFd, manfCnt, cbacks, ctl>>

SetParams ==
  /\ Dispatch("SET_PARAMS")
  /\ Advance(IF Family = "W1U" THEN "SET_WAVEFORM_DATA" ELSE "SET_BD_ADDR",
             Cmd("bd_addr"))
  /\ UNCHANGED <<cnt, imageVars, heapVars, confVars, fwFd, manfCnt, cbacks, ctl>>
-----------------------------------------------------------------------------
(***************************************************************************)
(* The wake-up data, common to both ways of configuring.                   *)
(***************************************************************************)

\* W2 over USB stops here.  Otherwise the selected rows go out in one command,
\* or the default record if none is selected; the copy may fail to allocate.
SetWaveformData ==
  /\ Dispatch("SET_WAVEFORM_DATA")
  /\ \/ /\ chip = <<"W2", "USB">>
        /\ Succeed
        /\ UNCHANGED cnt
     \/ /\ chip # <<"W2", "USB">> /\ manfPara = {}
        /\ Advance("SET_MANU_DATA", Cmd("wake_default"))
        /\ UNCHANGED cnt
     \/ /\ chip # <<"W2", "USB">> /\ manfPara # {}
        /\ \/ Abort /\ UNCHANGED cnt
           \/ /\ Advance("SET_MANU_DATA",
                         Data("wake_rows", {r \in manfPara : cnt <= r}))
              /\ cnt' = 16
  /\ UNCHANGED <<imageVars, heapVars, confVars, fwFd, manfCnt, cbacks, ctl>>

\* One record of the configured wake-up data, or the default one if there is
\* nothing to send.  stop: this record is the last one whatever is left.
SendRecord(stop) ==
  \/ /\ manfCnt = 0
     /\ Advance("SET_MANU_DATA", Cmd("wake_default"))
     /\ UNCHANGED <<cnt, manfCnt>>
  \/ /\ manfCnt > 0
     /\ manfCnt' = manfCnt - 1
     /\ LET last == stop \/ manfCnt' = 0 IN
        /\ cnt' = IF last THEN 0 ELSE cnt + 1
        /\ Advance(IF last THEN "SET_MANU_DATA" ELSE state,
                   Data("wake_record", {cnt}))

SetBdAddr ==
  /\ Dispatch("SET_BD_ADDR")
  /\ SendRecord(Family = "W1")
  /\ UNCHANGED <<imageVars, heapVars, confVars, fwFd, cbacks, ctl>>

SetWakeupParamsOnce ==
  /\ Dispatch("SET_WAKEUP_PARAMS")
  /\ SendRecord(TRUE)
  /\ UNCHANGED <<imageVars, heapVars, confVars, fwFd, cbacks, ctl>>

SetWakeupParams ==
  /\ Dispatch("SET_WAKEUP_PARAMS")
  /\ SendRecord(FALSE)
  /\ UNCHANGED <<imageVars, heapVars, confVars, fwFd, cbacks, ctl>>

WriteManufacture ==
  /\ Dispatch("SET_MANU_DATA")
  /\ Succeed
  /\ UNCHANGED <<cnt, imageVars, heapVars, confVars, fwFd, manfCnt, cbacks, ctl>>
-----------------------------------------------------------------------------
(***************************************************************************)
(* BT_VND_OP_FW_CFG.                                                       *)
(***************************************************************************)
Requested ==
  /\ Alive /\ cbacks /\ ~waiting /\ requests < MaxRequests
  /\ requests' = requests + 1
  /\ tries' = tries + 1
  /\ ctl' = FreshCtl
  /\ UNCHANGED <<chip, manfPara, manfConf, manfCnt, cbacks, event>>

\* No buffer: the failure is reported before the operation returns.
NoBuffer ==
  /\ state' = "TEST_WRITE"
  /\ answer' = "fail"
  /\ UNCHANGED <<cnt, imageVars, heapVars, fwFd, waiting, wire, owned>>

\* The first command goes out with its state already set.  The result of
\* xmit_cb is ignored, so if it fails the request is never answered.
SendFirst(next, c) ==
  /\ state' = next
  /\ waiting' = TRUE /\ answer' = "none"
  /\ \/ wire' = c /\ UNCHANGED owned
     \/ wire' = NoCmd /\ owned' = owned + 1

HwConfigQuickStart ==
  /\ ~Downloads
  /\ Requested
  /\ \/ NoBuffer
     \/ /\ cnt' = 0
        /\ SendFirst(IF Family = "W2" THEN "SET_WAVEFORM_DATA"
                                      ELSE "SET_WAKEUP_PARAMS", Cmd("bd_addr"))
        /\ UNCHANGED <<imageVars, heapVars, fwFd>>

GetBinSizeOnce(image, mallocs) ==
  /\ iccmSize' = image[1] /\ lenIccm' = image[1] - Rom /\ offIccm' = Rom
  /\ dccmSize' = image[2] /\ lenDccm' = image[2] /\ offDccm' = 0
  /\ iccmBuf' = IF iccmBuf = "null" THEN "live" ELSE iccmBuf
  /\ dccmBuf' = IF dccmBuf = "null" THEN "live" ELSE dccmBuf
  /\ UNCHANGED badImage

\* hw_get_bin_size: an image header with an invalid size leaves the pointers as
\* they are, and so does a failed allocation, except that the first image is
\* freed again when the second one cannot be had.
GetBinSize(image, mallocs) ==
  LET valid == {image[1], image[2]} \subseteq MinAlloc .. MaxAlloc IN
  /\ iccmSize' = image[1] /\ lenIccm' = image[1] - Rom /\ offIccm' = Rom
  /\ dccmSize' = image[2] /\ lenDccm' = image[2] /\ offDccm' = 0
  /\ iccmBuf' = IF ~valid THEN iccmBuf
                ELSE CASE mallocs = 0 -> "null"
                       [] mallocs = 1 -> "freed"
                       [] mallocs = 2 -> "live"
  /\ dccmBuf' = IF ~valid \/ mallocs = 0 THEN dccmBuf
                ELSE IF mallocs = 1 THEN "null" ELSE "live"
  /\ badImage' = (badImage \/ ~valid \/ mallocs < 2)

\* Reading the file into the images.  read() refuses a NULL buffer, fills a
\* freed one, and the log line after the second read dereferences p_dccm_buf.
Dangling == (iccmBuf' = "freed" /\ iccmSize' > 0) \/ dccmBuf' = "freed"
IccmReadable == iccmBuf' # "null" \/ iccmSize' = 0

ReadError ==
  /\ fault' \in {fault} \cup (IF Dangling THEN {"uaf"} ELSE {})
  /\ fwFd' = FALSE
  /\ state' = "TEST_WRITE"
  /\ waiting' = TRUE /\ answer' = "none"
  /\ wire' = NoCmd /\ owned' = owned + 1

ReadCrash ==
  /\ IccmReadable /\ dccmBuf' = "null"
  /\ fault' = "crash"
  /\ waiting' = TRUE /\ answer' = "none"
  /\ UNCHANGED <<state, fwFd, wire, owned>>

ReadImage ==
  /\ \/ fwFd' = FALSE /\ fault' = fault          \* open_file failed: carry on
     \/ /\ IccmReadable /\ dccmBuf' # "null"
        /\ fwFd' = TRUE
        /\ fault' = IF Dangling THEN "uaf" ELSE fault
  /\ SendFirst("TEST_WRITE", Cmd("reg"))

\* hot: w1_bt_power, the controller was found running and is only reset.
HwConfigStart ==
  /\ Downloads
  /\ Requested
  /\ \/ NoBuffer
     \/ /\ Family = "W1"
        /\ SendFirst("SET_MANU_DATA", Cmd("reset"))
        /\ UNCHANGED <<cnt, imageVars, heapVars, fwFd>>
     \/ /\ \E image \in Images, mallocs \in 0 .. 2 : GetBinSize(image, mallocs)
        /\ ReadError \/ ReadCrash \/ ReadImage
        /\ UNCHANGED cnt
-----------------------------------------------------------------------------
HwConfigCback ==
  \/ CbackAbort
  \/ RegisterStep
  \/ Iccm
  \/ Dccm
  \/ NullChunk
  \/ CloseEvent
  \/ StartCpu
  \/ SetParams
  \/ SetWaveformData
  \/ SetBdAddr
  \/ SetWakeupParams
  \/ WriteManufacture

Next ==
  \/ VendorInit
  \/ Cleanup
  \/ Restart
  \/ HwConfigStart
  \/ HwConfigQuickStart
  \/ ControllerReply
  \/ HwConfigCback

Spec == Init /\ [][Next]_vars
-----------------------------------------------------------------------------
(***************************************************************************)
(* Properties.                                                             *)
(***************************************************************************)
Pending == wire # NoCmd \/ event # "none"

phase == IF ~cbacks THEN "closed"
         ELSE IF ~waiting THEN "open"
         ELSE IF Pending /\ Alive THEN "busy" ELSE "mute"

Commands == [op : Ops, arg : SUBSET Int] \cup {NoCmd}

ImageType ==
  /\ cnt \in Int /\ lenIccm \in Int /\ lenDccm \in Int
  /\ iccmSize \in Nat /\ offIccm \in Nat /\ dccmSize \in Nat /\ offDccm \in Nat

HeapType ==
  /\ iccmBuf \in {"null", "live", "freed"}
  /\ dccmBuf \in {"null", "live", "freed"}
  /\ fault \in {"none", "uaf", "crash"}

FlagType ==
  /\ badImage \in BOOLEAN /\ fwFd \in BOOLEAN
  /\ cbacks \in BOOLEAN /\ waiting \in BOOLEAN

ConfType ==
  /\ chip \in Chips
  /\ manfCnt \in Nat /\ manfPara \in SUBSET Rows
  /\ requests \in 0 .. MaxRequests
  /\ manfConf \in Nat /\ tries \in Nat

TrafficType ==
  /\ state \in States
  /\ answer \in {"none", "success", "fail"}
  /\ wire \in Commands
  /\ event \in {"none", "ok", "error"}
  /\ owned \in Nat
  /\ ctl \in [Ops -> SUBSET Int]

\* The type of every variable.
TypeOK == ImageType /\ HeapType /\ FlagType /\ ConfType /\ TrafficType

(***************************************************************************)
(* The inductive invariant of the download.  A command or a good event is  *)
(* in flight (Live), and the image cursors and hw_cfg_cb.state say exactly *)
(* what the controller has, up to the chunk it is working on.              *)
(***************************************************************************)
Live == wire # NoCmd \/ event = "ok"

\* lo .. off - 1 is the chunk in flight.
InFlight(lo, off) ==
  /\ wire.arg = lo .. off - 1
  /\ lo < off /\ off <= lo + Chunk

IccmFlight ==
  wire.op = "iccm" =>
    /\ state \in {"ICCM", "DCCM"} /\ (state = "DCCM") = (lenIccm = 0)
    /\ lenIccm >= 0
    /\ \E lo \in Rom .. offIccm : InFlight(lo, offIccm) /\ ctl["iccm"] = Rom .. lo - 1
    /\ ctl["dccm"] = {} /\ offDccm = 0 /\ ctl["cpu_start"] = {}

DccmFlight ==
  wire.op = "dccm" =>
    /\ state \in {"DCCM", "CLOSE_EVENT"} /\ (state = "CLOSE_EVENT") = (lenDccm = 0)
    /\ lenDccm >= 0 /\ lenIccm = 0
    /\ \E lo \in 0 .. offDccm : InFlight(lo, offDccm) /\ ctl["dccm"] = 0 .. lo - 1
    /\ ctl["iccm"] = Rom .. iccmSize - 1 /\ ctl["cpu_start"] = {}

Early == {"TEST_WRITE", "ICCM"}
Late == {"CLOSE_EVENT", "RF_CALIBRATION", "TX_POWER", "FWLOG_OUTPUT",
         "START_CPU_BEFORE", "START_CPU"}

CtlMatchesState ==
  Live /\ wire.op \notin {"iccm", "dccm"} =>
    /\ state \in Early =>
         /\ Rom <= offIccm /\ ctl["iccm"] = Rom .. offIccm - 1
         /\ offDccm = 0 /\ ctl["dccm"] = {} /\ ctl["cpu_start"] = {}
    /\ state = "DCCM" =>
         /\ lenIccm = 0 /\ ctl["iccm"] = Rom .. offIccm - 1
         /\ ctl["dccm"] = 0 .. offDccm - 1 /\ ctl["cpu_start"] = {}
    /\ state \in Late =>
         /\ lenIccm = 0 /\ lenDccm = 0 /\ ctl["iccm"] = Rom .. offIccm - 1
         /\ ctl["dccm"] = 0 .. offDccm - 1 /\ ctl["cpu_start"] = {}

CursorsSum ==
  offIccm + lenIccm = iccmSize /\ offDccm + lenDccm = dccmSize

Executed(op) == ctl[op] # {}
WholeImage == /\ ctl["iccm"] = Rom .. iccmSize - 1
              /\ ctl["dccm"] = 0 .. dccmSize - 1

\* One command at a time: the controller never works on a command while the
\* event of another one is waiting for hw_config_cback.
OneCommand == wire = NoCmd \/ event = "none"

\* While the library is idle the controller has no command of it and the stack
\* has no event for it, so the next request cannot meet an old answer.
IdleIsQuiet == cbacks /\ ~waiting /\ Alive => ~Pending

\* The CPU of the controller is never told to run before it has acknowledged
\* every byte of both images (the chunk loops of the ICCM and DCCM handlers,
\* whose cursors survive any abort and restart in global variables).
CpuRunsWholeImage ==
  wire.op = "cpu_start" \/ Executed("cpu_start") => WholeImage

\* No byte is sent twice and no chunk reaches outside its image: a chunk in
\* flight is fresh, within the file's bounds and no longer than a command.
ChunksAreFresh ==
  \A op \in {"iccm", "dccm"} : wire.op = op =>
    /\ wire.arg \cap ctl[op] = {}
    /\ wire.arg \subseteq 0 .. (IF op = "iccm" THEN iccmSize ELSE dccmSize) - 1
    /\ \A i, j \in wire.arg : i - j < Chunk

\* ICCM goes before DCCM, and nothing else is sent in between: when the first
\* DCCM byte is on its way the ICCM image is complete.
IccmBeforeDccm ==
  wire.op = "dccm" \/ Executed("dccm") => ctl["iccm"] = Rom .. iccmSize - 1

CpuFlight == wire.op = "cpu_start" => state = "SET_PARAMS"

DownloadInv ==
  /\ TypeOK /\ OneCommand /\ IdleIsQuiet /\ CursorsSum
  /\ IccmFlight /\ DccmFlight /\ CpuFlight /\ CtlMatchesState
  /\ CpuRunsWholeImage /\ IccmBeforeDccm

\* The two globals that hold the images are used after free() or through NULL
\* only in a process that once had an invalid image header or a failed
\* malloc(): aborts and repeated configurations alone never damage the heap.
HeapSafe == fault # "none" => badImage

\* A request that is reported as successful has left the controller configured:
\* it was found running and reset, or it has its address, its CPU was started
\* if this chip is downloaded, and it has wake-up data (W2 on USB needs none).
\* A download has released what it took: the firmware file and both images.
SuccessMeansConfigured ==
  answer = "success" =>
    /\ \/ Downloads /\ Executed("reset")
       \/ /\ Executed("bd_addr")
          /\ Downloads => Executed("cpu_start")
          /\ \/ chip = <<"W2", "USB">>
             \/ \E op \in {"wake_default", "wake_record", "wake_rows"} : Executed(op)
    /\ Executed("cpu_start") => ~fwFd /\ "live" \notin {iccmBuf, dccmBuf}

\* The chips that read amlbt_manf_cnt: they are sent record by record.
SendsRecords == chip = <<"W1", "SDIO">> \/ Family = "W2L" \/ chip = <<"W1U", "USB">>

\* After the first successful FW_CFG since init() the controller holds all the
\* records the configuration file gave (W1: the first one), and the default
\* record exactly when there were none.  amlbt_manf_cnt is consumed on the way,
\* so this cannot be said of a FW_CFG that is repeated without init().
WakeRecordsComplete ==
  answer = "success" /\ SendsRecords /\ ~Executed("reset") /\ tries = 1 =>
    /\ ctl["wake_record"] = 0 .. (IF Family = "W1" THEN Least(1, manfConf)
                                                  ELSE manfConf) - 1
    /\ Executed("wake_default") <=> manfConf = 0

\* A command buffer is lost only by a step that also leaves the stack without
\* an answer; every other path of every handler sends it or gives it back.
BuffersAccounted ==
  [][owned' = owned \/ (owned' = owned + 1 /\ phase' = "mute")
       \/ ~Alive]_vars

\* Once its first command is out, a request on a chip other than W1U SDIO keeps
\* something in flight until it is answered, whatever fails.
NeverFallsSilent ==
  [][chip # <<"W1U", "SDIO">> /\ phase = "busy" /\ fault' # "crash"
       => phase' # "mute"]_vars

\* hw_config_start and hw_config_quick_start are answered exactly as FwCfg says:
\* the stack's view of the request is derived from who waits and what is in flight.
Abstract == INSTANCE FwCfg WITH phase <- phase, answer <- answer
ImplementsFwCfg == Abstract!Spec
==============================================================================
