--------------------------- MODULE HwConfigProofs ---------------------------
(***************************************************************************)
(* Proofs about the configuration for every value of its constants: every  *)
(* image size, chunk size, chip and number of requests.  Part 1 is about   *)
(* HwConfig alone; part 2 about HwConfigCoex, where the 15.4 frames reset  *)
(* hw_cfg_cb under it: what the stack sees of a request, and what a        *)
(* success says.                                                           *)
(***************************************************************************)
EXTENDS HwConfigCoex, TLAPS

USE DEF Ops, NoCmd, Cmd, Data, Sent, Bytes, Least
USE DEF ImageType, HeapType, FlagType, ConfType, TrafficType

-----------------------------------------------------------------------------
(***************************************************************************)
(* Type correctness.                                                       *)
(***************************************************************************)

\* Both ends of a handler leave well-typed values behind.
LEMMA AdvanceType ==
  ASSUME TypeOK, NEW next \in States, NEW c \in Commands, Advance(next, c)
  PROVE  /\ state' \in States /\ wire' \in Commands /\ owned' \in Nat
         /\ waiting' \in BOOLEAN /\ answer' \in {"none", "success", "fail"}
BY DEF TypeOK, Advance, Abort, States, DownloadStates, Commands, stackVars

\* The two forms of FW_CFG, up to the xmit_cb of their command.
LEMMA SendFirstType ==
  ASSUME TypeOK, NEW next \in States, NEW c \in Commands, SendFirst(next, c)
  PROVE  /\ state' \in States /\ wire' \in Commands /\ owned' \in Nat
         /\ waiting' \in BOOLEAN /\ answer' \in {"none", "success", "fail"}
BY DEF TypeOK, SendFirst, Commands

\* Commands are built from an operation and a set of integers.
LEMMA CommandType ==
  ASSUME NEW op \in Ops, NEW arg \in SUBSET Int
  PROVE  Data(op, arg) \in Commands /\ Cmd(op) \in Commands
BY DEF Commands

\* One record of the wake-up data.
LEMMA SendRecordType ==
  ASSUME TypeOK, NEW stop \in BOOLEAN, SendRecord(stop)
  PROVE  /\ cnt' \in Int /\ manfCnt' \in Nat
         /\ state' \in States /\ wire' \in Commands /\ owned' \in Nat
         /\ waiting' \in BOOLEAN /\ answer' \in {"none", "success", "fail"}
<1>1. /\ Cmd("wake_default") \in Commands /\ Data("wake_record", {cnt}) \in Commands
      /\ "SET_MANU_DATA" \in States /\ state \in States
  BY CommandType DEF TypeOK, States
<1>2. CASE manfCnt = 0
  BY <1>1, <1>2, AdvanceType DEF SendRecord, TypeOK
<1>3. CASE manfCnt > 0
  BY <1>1, <1>3, AdvanceType DEF SendRecord, TypeOK
<1> QED
  BY <1>2, <1>3 DEF TypeOK

\* The initial state is typed.
LEMMA InitType == Init => TypeOK
<1> SUFFICES ASSUME Init PROVE TypeOK
  OBVIOUS
<1>1. FreshCtl \in [Ops -> SUBSET Int]
  BY DEF FreshCtl
<1>2. state \in States /\ NoCmd \in Commands /\ {} \in SUBSET Rows
  BY DEF Init, States, DownloadStates, Commands
<1>3. requests \in 0 .. MaxRequests
  BY ConstantsAssumption DEF Init
<1>4. ImageType /\ HeapType
  BY DEF Init
<1>7. FlagType
  BY DEF Init
<1>5. ConfType
  BY <1>2, <1>3 DEF Init
<1>6. TrafficType
  BY <1>1, <1>2 DEF Init
<1> QED
  BY <1>4, <1>5, <1>6, <1>7 DEF TypeOK

\* Every step keeps the types.
LEMMA NextType == TypeOK /\ [Next]_vars => TypeOK'
<1> SUFFICES ASSUME TypeOK, [Next]_vars PROVE TypeOK'
  OBVIOUS
<1> USE ConstantsAssumption
<1>1. CASE VendorInit
  BY <1>1 DEF VendorInit, TypeOK, Commands, imageVars, heapVars
<1>2. CASE Cleanup
  BY <1>2 DEF Cleanup, TypeOK, imageVars, heapVars, confVars
<1>3. CASE Restart
  <2>1. "TEST_WRITE" \in States /\ NoCmd \in Commands /\ {} \in SUBSET Rows
    BY DEF States, DownloadStates, Commands
  <2>6. FreshCtl \in [Ops -> SUBSET Int]
    BY DEF FreshCtl
  <2>2. ImageType' /\ HeapType'
    BY <1>3 DEF Restart, TypeOK
  <2>5. FlagType'
    BY <1>3 DEF Restart, TypeOK
  <2>3. ConfType'
    BY <1>3, <2>1 DEF Restart, TypeOK
  <2>4. TrafficType'
    BY <1>3, <2>1, <2>6 DEF Restart, TypeOK
  <2> QED
    BY <2>2, <2>3, <2>4, <2>5 DEF TypeOK
<1>4. CASE ControllerReply
  <2>1. wire.op \in Ops /\ wire.arg \in SUBSET Int
    BY <1>4 DEF ControllerReply, TypeOK, Commands
  <2>2. [ctl EXCEPT ![wire.op] = @ \cup wire.arg] \in [Ops -> SUBSET Int]
    BY <2>1 DEF TypeOK
  <2> QED
    BY <1>4, <2>2 DEF ControllerReply, TypeOK, Commands, imageVars, heapVars,
       confVars, stackVars
<1>5. CASE CbackAbort
  BY <1>5 DEF CbackAbort, Abort, TypeOK, States, DownloadStates, Commands,
     imageVars, heapVars, confVars, stackVars
<1>6. CASE RegisterStep
  <2>1. RegNext[state] \in States /\ Cmd("reg") \in Commands
    BY <1>6, CommandType DEF RegisterStep, RegNext, States, DownloadStates
  <2> QED
    BY <1>6, <2>1, AdvanceType
       DEF RegisterStep, Dispatch, TypeOK, imageVars, heapVars, confVars
<1>7. CASE Iccm
  <2>1. CASE Sent(lenIccm)
    <3>1. ImageType' /\ HeapType' /\ ConfType'
      BY <1>7, <2>1 DEF Iccm, TypeOK, confVars
    <3>2. TrafficType' /\ FlagType'
      BY <1>7, <2>1 DEF Iccm, Dispatch, Abort, TypeOK, States, DownloadStates,
         Commands, confVars, stackVars
    <3> QED
      BY <3>1, <3>2 DEF TypeOK
  <2>2. CASE ~Sent(lenIccm)
    <3> DEFINE n == Least(lenIccm, Chunk)
               next == IF Sent(lenIccm') THEN "DCCM" ELSE "ICCM"
               c == Data("iccm", Bytes(offIccm, n))
    <3>1. n \in Nat /\ next \in States /\ c \in Commands
      BY <2>2, CommandType DEF TypeOK, States, DownloadStates
    <3>2. /\ Advance(next, c) /\ Deref(iccmBuf)
          /\ lenIccm' = lenIccm - n /\ offIccm' = offIccm + n
          /\ cnt' \in {0, cnt + 1}
      BY <1>7, <2>2 DEF Iccm
    <3> HIDE DEF n, next, c
    <3> QED
      BY <1>7, <3>1, <3>2, AdvanceType
         DEF Iccm, Dispatch, Deref, TypeOK, confVars
  <2> QED
    BY <2>1, <2>2
<1>8. CASE Dccm
  <2>1. CASE Sent(lenDccm)
    BY <1>8, <2>1 DEF Dccm, Dispatch, Abort, TypeOK, States, DownloadStates,
       Commands, imageVars, heapVars, confVars, stackVars
  <2>2. CASE ~Sent(lenDccm)
    <3> DEFINE n == Least(lenDccm, Chunk)
               next == IF Sent(lenDccm') THEN "CLOSE_EVENT" ELSE "DCCM"
               c == Data("dccm", Bytes(offDccm, n))
    <3>1. n \in Nat /\ next \in States /\ c \in Commands
      BY <2>2, CommandType DEF TypeOK, States, DownloadStates
    <3>2. /\ lenDccm' = lenDccm - n /\ offDccm' = offDccm + n
          /\ cnt' \in {0, cnt + 1} /\ Deref(dccmBuf)
          /\ \/ Advance(next, c)
             \/ state' = "CLOSE_EVENT" /\ wire' = NoCmd /\ owned' = owned + 1
                /\ UNCHANGED stackVars
      BY <1>8, <2>2 DEF Dccm
    <3> HIDE DEF n, next, c
    <3>3. CASE Advance(next, c)
      BY <1>8, <3>1, <3>2, <3>3, AdvanceType
         DEF Dccm, Dispatch, Deref, TypeOK, confVars
    <3>4. CASE ~Advance(next, c)
      BY <1>8, <3>1, <3>2, <3>4 DEF Dccm, Dispatch, Deref, TypeOK, confVars,
         stackVars, States, DownloadStates, Commands
    <3> QED
      BY <3>3, <3>4
  <2> QED
    BY <2>1, <2>2
<1>9. CASE NullChunk
  BY <1>9 DEF NullChunk, TypeOK, imageVars, heapVars, confVars, stackVars
<1>10. CASE CloseEvent
  <2>1. "RF_CALIBRATION" \in States /\ Cmd("reg") \in Commands
    BY CommandType DEF States, DownloadStates
  <2> QED
    BY <1>10, <2>1, AdvanceType
       DEF CloseEvent, Dispatch, TypeOK, imageVars, heapVars, confVars
<1>11. CASE StartCpu
  <2>1. "SET_PARAMS" \in States /\ Cmd("cpu_start") \in Commands
    BY CommandType DEF States, DownloadStates
  <2> QED
    BY <1>11, <2>1, AdvanceType
       DEF StartCpu, Dispatch, TypeOK, imageVars, heapVars, confVars
<1>12. CASE SetParams
  <2>1. {"SET_WAVEFORM_DATA", "SET_BD_ADDR"} \subseteq States
        /\ Cmd("bd_addr") \in Commands
    BY CommandType DEF States
  <2> QED
    BY <1>12, <2>1, AdvanceType
       DEF SetParams, Dispatch, TypeOK, imageVars, heapVars, confVars
<1>13. CASE SetWaveformData
  <2>1. /\ "SET_MANU_DATA" \in States /\ Cmd("wake_default") \in Commands
        /\ Data("wake_rows", {r \in manfPara : cnt <= r}) \in Commands
    BY CommandType DEF States, TypeOK, Rows
  <2>2. CASE chip = <<"W2", "USB">>
    BY <1>13, <2>2 DEF SetWaveformData, Succeed, Dispatch, TypeOK, States,
       DownloadStates, Commands, imageVars, heapVars, confVars
  <2>3. CASE chip # <<"W2", "USB">> /\ manfPara = {}
    BY <1>13, <2>1, <2>3, AdvanceType
       DEF SetWaveformData, Dispatch, TypeOK, imageVars, heapVars, confVars
  <2>4. CASE chip # <<"W2", "USB">> /\ manfPara # {}
    <3>1. CASE Abort /\ UNCHANGED cnt
      BY <1>13, <3>1 DEF SetWaveformData, Abort, Dispatch, TypeOK, States,
         DownloadStates, Commands, imageVars, heapVars, confVars, stackVars
    <3>2. CASE ~(Abort /\ UNCHANGED cnt)
      BY <1>13, <2>1, <2>4, <3>2, AdvanceType
         DEF SetWaveformData, Dispatch, TypeOK, imageVars, heapVars, confVars
    <3> QED
      BY <3>1, <3>2
  <2> QED
    BY <2>2, <2>3, <2>4
<1>14. CASE SetBdAddr
  BY <1>14, SendRecordType
     DEF SetBdAddr, Dispatch, TypeOK, imageVars, heapVars, confVars
<1>15. CASE SetWakeupParams
  BY <1>15, SendRecordType
     DEF SetWakeupParams, Dispatch, TypeOK, imageVars, heapVars, confVars
<1>16. CASE WriteManufacture
  BY <1>16 DEF WriteManufacture, Succeed, Dispatch, TypeOK, States,
     DownloadStates, Commands, imageVars, heapVars, confVars
<1>17. CASE HwConfigQuickStart
  <2>1. requests' \in 0 .. MaxRequests /\ ctl' \in [Ops -> SUBSET Int]
    BY <1>17 DEF HwConfigQuickStart, Requested, TypeOK, FreshCtl
  <2>2. {"TEST_WRITE", "SET_WAVEFORM_DATA", "SET_WAKEUP_PARAMS"} \subseteq States
        /\ Cmd("bd_addr") \in Commands /\ NoCmd \in Commands
    BY CommandType DEF States, DownloadStates, Commands
  <2>3. CASE NoBuffer
    BY <1>17, <2>1, <2>2, <2>3 DEF HwConfigQuickStart, Requested, NoBuffer,
       TypeOK, imageVars, heapVars
  <2>4. ASSUME NEW next \in States, SendFirst(next, Cmd("bd_addr")), cnt' = 0,
               UNCHANGED <<imageVars, heapVars, fwFd>>
        PROVE  TypeOK'
    BY <1>17, <2>1, <2>2, <2>4, SendFirstType DEF HwConfigQuickStart, Requested,
       TypeOK, imageVars, heapVars
  <2> QED
    BY <1>17, <2>2, <2>3, <2>4 DEF HwConfigQuickStart
<1>18. CASE HwConfigStart
  <2>1. requests' \in 0 .. MaxRequests /\ ctl' \in [Ops -> SUBSET Int]
    BY <1>18 DEF HwConfigStart, Requested, TypeOK, FreshCtl
  <2>2. {"TEST_WRITE", "SET_MANU_DATA"} \subseteq States /\ NoCmd \in Commands
        /\ Cmd("reg") \in Commands /\ Cmd("reset") \in Commands
    BY CommandType DEF States, DownloadStates, Commands
  <2>3. CASE NoBuffer
    BY <1>18, <2>1, <2>2, <2>3 DEF HwConfigStart, Requested, NoBuffer, TypeOK,
       imageVars, heapVars
  <2>4. CASE SendFirst("SET_MANU_DATA", Cmd("reset"))
             /\ UNCHANGED <<cnt, imageVars, heapVars, fwFd>>
    BY <1>18, <2>1, <2>2, <2>4, SendFirstType DEF HwConfigStart, Requested,
       TypeOK, imageVars, heapVars
  <2>5. ASSUME NEW image \in Images, NEW mallocs \in 0 .. 2,
               GetBinSize(image, mallocs), ReadError \/ ReadCrash \/ ReadImage,
               UNCHANGED cnt
        PROVE  TypeOK'
    <3>1. image[1] \in Nat /\ image[2] \in Nat
      OBVIOUS
    <3>2. /\ cnt' \in Int /\ lenIccm' \in Int /\ lenDccm' \in Int
          /\ iccmSize' \in Nat /\ offIccm' \in Nat
          /\ dccmSize' \in Nat /\ offDccm' \in Nat
      BY <2>5, <3>1 DEF GetBinSize, TypeOK
    <3>3. /\ iccmBuf' \in {"null", "live", "freed"}
          /\ dccmBuf' \in {"null", "live", "freed"}
          /\ badImage' \in BOOLEAN
      BY <2>5, <3>1 DEF GetBinSize, TypeOK
    <3>4. fault' \in {"none", "uaf", "crash"}
      BY <2>5 DEF ReadError, ReadCrash, ReadImage, TypeOK
    <3>7. FlagType'
      BY <1>18, <2>5, <3>3
         DEF HwConfigStart, Requested, ReadError, ReadCrash, ReadImage, SendFirst,
             TypeOK
    <3>5. ConfType'
      BY <1>18, <2>1 DEF HwConfigStart, Requested, TypeOK
    <3>6. TrafficType'
      <4>1. CASE ReadError
        BY <1>18, <2>1, <2>2, <4>1
           DEF HwConfigStart, Requested, ReadError, TypeOK
      <4>2. CASE ReadCrash
        BY <1>18, <2>1, <4>2 DEF HwConfigStart, Requested, ReadCrash, TypeOK
      <4>3. CASE ReadImage
        BY <1>18, <2>1, <2>2, <4>3, SendFirstType
           DEF HwConfigStart, Requested, ReadImage, TypeOK
      <4> QED
        BY <2>5, <4>1, <4>2, <4>3
    <3> QED
      BY <3>2, <3>3, <3>4, <3>5, <3>6, <3>7 DEF TypeOK
  <2> QED
    BY <1>18, <2>3, <2>4, <2>5 DEF HwConfigStart
<1>19. CASE UNCHANGED vars
  BY <1>19 DEF vars, TypeOK, imageVars, heapVars, confVars, stackVars
<1> QED
  BY <1>1, <1>2, <1>3, <1>4, <1>5, <1>6, <1>7, <1>8, <1>9, <1>10, <1>11,
     <1>12, <1>13, <1>14, <1>15, <1>16, <1>17, <1>18, <1>19
     DEF Next, HwConfigCback

\* hw_cfg_cb, the image cursors, the buffers and the commands always have the
\* types their declarations and the protocol give them.
THEOREM TypeCorrect == Spec => []TypeOK
BY InitType, NextType, PTL DEF Spec

-----------------------------------------------------------------------------
(***************************************************************************)
(* One command at a time, and none while the library is idle.              *)
(***************************************************************************)

\* Whatever a handler does with the command, the event it ran for is consumed.
LEMMA HandlerIsQuiet ==
  ASSUME IdleIsQuiet, Alive, event # "none", event' = "none",
         UNCHANGED cbacks,
         \/ UNCHANGED waiting
         \/ wire' = NoCmd
  PROVE  OneCommand' /\ IdleIsQuiet'
BY DEF IdleIsQuiet, Pending, OneCommand

\* All the handlers end in one of these.
LEMMA EndsAreQuiet ==
  ASSUME NEW next, NEW c, Advance(next, c) \/ Abort \/ Succeed
  PROVE  UNCHANGED waiting \/ wire' = NoCmd
BY DEF Advance, Abort, Succeed, stackVars

\* One command at a time, none while the library is idle.
LEMMA QuietNext ==
  OneCommand /\ IdleIsQuiet /\ [Next]_vars => OneCommand' /\ IdleIsQuiet'
<1> SUFFICES ASSUME OneCommand, IdleIsQuiet, [Next]_vars
             PROVE  OneCommand' /\ IdleIsQuiet'
  OBVIOUS
<1>1. CASE VendorInit \/ Restart
  BY <1>1 DEF VendorInit, Restart, OneCommand, IdleIsQuiet, Pending
<1>2. CASE Cleanup
  BY <1>2 DEF Cleanup, OneCommand, IdleIsQuiet, Pending
<1>3. CASE ControllerReply
  BY <1>3 DEF ControllerReply, OneCommand, IdleIsQuiet, Pending, Alive, heapVars,
     stackVars
<1>4. CASE CbackAbort
  BY <1>4, HandlerIsQuiet DEF CbackAbort, Abort
<1>5. CASE RegisterStep \/ CloseEvent \/ StartCpu \/ SetParams
  BY <1>5, HandlerIsQuiet, EndsAreQuiet
     DEF RegisterStep, CloseEvent, StartCpu, SetParams, Dispatch
<1>6. CASE Iccm
  BY <1>6, HandlerIsQuiet, EndsAreQuiet DEF Iccm, Dispatch
<1>7. CASE Dccm
  BY <1>7, HandlerIsQuiet, EndsAreQuiet DEF Dccm, Dispatch
<1>8. CASE NullChunk
  BY <1>8 DEF NullChunk, OneCommand, IdleIsQuiet, Alive
<1>9. CASE SetWaveformData
  BY <1>9, HandlerIsQuiet, EndsAreQuiet DEF SetWaveformData, Dispatch
<1>10. CASE SetBdAddr \/ SetWakeupParams
  BY <1>10, HandlerIsQuiet, EndsAreQuiet
     DEF SetBdAddr, SetWakeupParams, SendRecord, Dispatch
<1>11. CASE WriteManufacture
  BY <1>11, HandlerIsQuiet, EndsAreQuiet DEF WriteManufacture, Dispatch
<1>12. CASE HwConfigQuickStart
  <2>1. wire = NoCmd /\ event = "none" /\ event' = "none"
    BY <1>12 DEF HwConfigQuickStart, Requested, IdleIsQuiet, Pending
  <2> QED
    BY <1>12, <2>1 DEF HwConfigQuickStart, NoBuffer, SendFirst, OneCommand,
       IdleIsQuiet, Pending
<1>13. CASE HwConfigStart
  <2>1. wire = NoCmd /\ event = "none" /\ event' = "none"
    BY <1>13 DEF HwConfigStart, Requested, IdleIsQuiet, Pending
  <2> QED
    BY <1>13, <2>1 DEF HwConfigStart, NoBuffer, ReadError, ReadCrash, ReadImage,
       SendFirst, OneCommand, IdleIsQuiet, Pending
<1>14. CASE UNCHANGED vars
  BY <1>14 DEF vars, OneCommand, IdleIsQuiet, Pending, Alive, heapVars, stackVars
<1> QED
  BY <1>1, <1>2, <1>3, <1>4, <1>5, <1>6, <1>7, <1>8, <1>9, <1>10, <1>11, <1>12,
     <1>13, <1>14 DEF Next, HwConfigCback

-----------------------------------------------------------------------------
(***************************************************************************)
(* The download.                                                           *)
(***************************************************************************)
DownloadStep ==
  /\ CursorsSum' /\ IccmFlight' /\ DccmFlight' /\ CpuFlight'
  /\ CtlMatchesState' /\ CpuRunsWholeImage' /\ IccmBeforeDccm'

\* A step that leaves nothing in flight keeps the invariant if it does not touch
\* the image sizes and what the controller has.
LEMMA QuietStep ==
  ASSUME DownloadInv, wire' = NoCmd, event' # "ok", CursorsSum',
         UNCHANGED <<iccmSize, dccmSize, ctl>>
  PROVE  DownloadStep
BY DEF DownloadInv, DownloadStep, IccmFlight, DccmFlight, CpuFlight,
   CtlMatchesState, Live, CpuRunsWholeImage, IccmBeforeDccm, WholeImage, Executed

\* What a handler may rely on when it is entered.
LEMMA AtDispatch ==
  ASSUME DownloadInv, event = "ok"
  PROVE  /\ wire = NoCmd /\ event # "none"
         /\ state \in Early =>
              /\ Rom <= offIccm /\ ctl["iccm"] = Rom .. offIccm - 1
              /\ offDccm = 0 /\ ctl["dccm"] = {} /\ ctl["cpu_start"] = {}
         /\ state = "DCCM" =>
              /\ lenIccm = 0 /\ ctl["iccm"] = Rom .. iccmSize - 1
              /\ ctl["dccm"] = 0 .. offDccm - 1 /\ ctl["cpu_start"] = {}
         /\ state \in Late =>
              /\ lenIccm = 0 /\ lenDccm = 0 /\ WholeImage /\ ctl["cpu_start"] = {}
<1>1. wire = NoCmd
  BY DEF DownloadInv, OneCommand
<1>2. wire.op \notin {"iccm", "dccm"} /\ Live
  BY <1>1 DEF Live
<1>3. offIccm \in Nat /\ offDccm \in Nat /\ lenIccm \in Int /\ lenDccm \in Int
  BY DEF DownloadInv, TypeOK
<1> QED
  BY <1>1, <1>2, <1>3 DEF DownloadInv, CtlMatchesState, CursorsSum, WholeImage

\* A handler that sends a command other than a chunk and stays in its group of
\* states, or leaves the download.
LEMMA OtherStep ==
  ASSUME DownloadInv, event = "ok", event' = "none", UNCHANGED <<imageVars, ctl>>,
         NEW next \in States, NEW c \in Commands, Advance(next, c),
         c.op \notin {"iccm", "dccm"},
         c.op = "cpu_start" => state \in Late /\ next = "SET_PARAMS",
         \/ next \notin Early \cup {"DCCM"} \cup Late
         \/ state \in Early /\ next \in Early
         \/ state \in Late /\ next \in Late
  PROVE  DownloadStep
<1>1. CursorsSum'
  BY DEF DownloadInv, CursorsSum, imageVars
<1>2. CASE wire' = NoCmd
  BY <1>1, <1>2, QuietStep DEF imageVars
<1>3. CASE state' = next /\ wire' = c
  <2>1. IccmFlight' /\ DccmFlight' /\ CpuFlight'
    BY <1>3 DEF IccmFlight, DccmFlight, CpuFlight
  <2>2. CtlMatchesState'
    <3>1. offIccm \in Nat /\ offDccm \in Nat
      BY DEF DownloadInv, TypeOK
    <3> QED
      BY <1>3, <3>1, AtDispatch DEF CtlMatchesState, Early, Late, imageVars,
         WholeImage, DownloadInv, CursorsSum, TypeOK
  <2>3. CpuRunsWholeImage' /\ IccmBeforeDccm'
    BY <1>3, AtDispatch DEF DownloadInv, CpuRunsWholeImage, IccmBeforeDccm,
       WholeImage, Executed, imageVars
  <2> QED
    BY <1>1, <2>1, <2>2, <2>3 DEF DownloadStep
<1> QED
  BY <1>2, <1>3 DEF Advance, Abort

\* An ICCM chunk: the controller has exactly the bytes before it.
LEMMA IccmStep == DownloadInv /\ Iccm => DownloadStep
<1> SUFFICES ASSUME DownloadInv, Iccm PROVE DownloadStep
  OBVIOUS
<1> USE ConstantsAssumption
<1>1. /\ event = "ok" /\ event' = "none" /\ state = "ICCM"
      /\ UNCHANGED <<iccmSize, dccmSize, lenDccm, offDccm, ctl>>
  BY DEF Iccm, Dispatch
<1>2. /\ Rom <= offIccm /\ ctl["iccm"] = Rom .. offIccm - 1
      /\ offDccm = 0 /\ ctl["dccm"] = {} /\ ctl["cpu_start"] = {}
  BY <1>1, AtDispatch DEF Early
<1>3. /\ offIccm \in Nat /\ lenIccm \in Int /\ offDccm \in Nat
      /\ iccmSize \in Nat /\ dccmSize \in Nat /\ lenDccm \in Int
      /\ offIccm + lenIccm = iccmSize /\ offDccm + lenDccm = dccmSize
  BY DEF DownloadInv, TypeOK, CursorsSum
<1>4. CASE Sent(lenIccm)
  <2>1. wire' = NoCmd /\ UNCHANGED <<lenIccm, offIccm>>
    BY <1>4 DEF Iccm, Abort
  <2>2. CursorsSum'
    BY <1>1, <1>3, <2>1 DEF CursorsSum
  <2> QED
    BY <1>1, <2>1, <2>2, QuietStep
<1>5. CASE ~Sent(lenIccm)
  <2> DEFINE n == Least(lenIccm, Chunk)
             next == IF Sent(lenIccm') THEN "DCCM" ELSE "ICCM"
             c == Data("iccm", Bytes(offIccm, n))
  <2>1. /\ lenIccm' = lenIccm - n /\ offIccm' = offIccm + n /\ Advance(next, c)
    BY <1>5 DEF Iccm
  <2>2. n \in Nat /\ 0 < n /\ n <= Chunk /\ n <= lenIccm
    BY <1>3, <1>5
  <2>3. CursorsSum'
    BY <1>1, <1>3, <2>1, <2>2 DEF CursorsSum
  <2>4. CASE wire' = NoCmd
    BY <1>1, <2>3, <2>4, QuietStep
  <2>5. CASE state' = next /\ wire' = c
    <3>1. wire'.op = "iccm" /\ wire'.arg = offIccm .. offIccm' - 1
      <4>1. wire'.op = "iccm" /\ wire'.arg = offIccm .. offIccm + n - 1
        BY <2>5
      <4>2. offIccm' = offIccm + n
        BY <2>1
      <4> HIDE DEF n
      <4>3. offIccm + n - 1 = offIccm' - 1
        BY <1>3, <2>2, <4>2
      <4> QED
        BY <4>1, <4>3
    <3>2. offIccm \in Rom .. offIccm' /\ offIccm < offIccm'
          /\ offIccm' <= offIccm + Chunk /\ lenIccm' >= 0 /\ lenIccm' \in Int
      BY <1>2, <1>3, <2>1, <2>2
    <3>3. state' \in {"ICCM", "DCCM"} /\ (state' = "DCCM") = (lenIccm' = 0)
      BY <2>5, <3>2
    <3>4. IccmFlight'
      BY <1>1, <1>2, <3>1, <3>2, <3>3 DEF IccmFlight, InFlight
    <3>5. DccmFlight' /\ CpuFlight' /\ CtlMatchesState'
      BY <1>1, <3>1 DEF DccmFlight, CpuFlight, CtlMatchesState
    <3>6. CpuRunsWholeImage' /\ IccmBeforeDccm'
      BY <1>1, <1>2, <3>1 DEF CpuRunsWholeImage, IccmBeforeDccm, Executed
    <3> QED
      BY <2>3, <3>4, <3>5, <3>6 DEF DownloadStep
  <2> QED
    BY <2>1, <2>4, <2>5 DEF Advance, Abort
<1> QED
  BY <1>4, <1>5

\* A DCCM chunk: the ICCM image is complete and the controller has exactly the
\* bytes of the DCCM image before the chunk.
LEMMA DccmStep == DownloadInv /\ Dccm => DownloadStep
<1> SUFFICES ASSUME DownloadInv, Dccm PROVE DownloadStep
  OBVIOUS
<1> USE ConstantsAssumption
<1>1. /\ event = "ok" /\ event' = "none" /\ state = "DCCM"
      /\ UNCHANGED <<iccmSize, dccmSize, lenIccm, offIccm, ctl>>
  BY DEF Dccm, Dispatch
<1>2. /\ lenIccm = 0 /\ ctl["iccm"] = Rom .. iccmSize - 1
      /\ ctl["dccm"] = 0 .. offDccm - 1 /\ ctl["cpu_start"] = {}
  BY <1>1, AtDispatch
<1>3. /\ offIccm \in Nat /\ lenIccm \in Int /\ offDccm \in Nat
      /\ iccmSize \in Nat /\ dccmSize \in Nat /\ lenDccm \in Int
      /\ offIccm + lenIccm = iccmSize /\ offDccm + lenDccm = dccmSize
  BY DEF DownloadInv, TypeOK, CursorsSum
<1>4. CASE Sent(lenDccm)
  <2>1. wire' = NoCmd /\ UNCHANGED <<lenDccm, offDccm>>
    BY <1>4 DEF Dccm, Abort
  <2>2. CursorsSum'
    BY <1>1, <1>3, <2>1 DEF CursorsSum
  <2> QED
    BY <1>1, <2>1, <2>2, QuietStep
<1>5. CASE ~Sent(lenDccm)
  <2> DEFINE n == Least(lenDccm, Chunk)
             next == IF Sent(lenDccm') THEN "CLOSE_EVENT" ELSE "DCCM"
             c == Data("dccm", Bytes(offDccm, n))
  <2>1. /\ lenDccm' = lenDccm - n /\ offDccm' = offDccm + n
        /\ Advance(next, c) \/ wire' = NoCmd
    BY <1>5 DEF Dccm
  <2>2. n \in Nat /\ 0 < n /\ n <= Chunk /\ n <= lenDccm
    BY <1>3, <1>5
  <2>3. CursorsSum'
    BY <1>1, <1>3, <2>1, <2>2 DEF CursorsSum
  <2>4. CASE wire' = NoCmd
    BY <1>1, <2>3, <2>4, QuietStep
  <2>5. CASE state' = next /\ wire' = c
    <3>1. wire'.op = "dccm" /\ wire'.arg = offDccm .. offDccm' - 1
      <4>1. wire'.op = "dccm" /\ wire'.arg = offDccm .. offDccm + n - 1
        BY <2>5
      <4>2. offDccm' = offDccm + n
        BY <2>1
      <4> HIDE DEF n
      <4>3. offDccm + n - 1 = offDccm' - 1
        BY <1>3, <2>2, <4>2
      <4> QED
        BY <4>1, <4>3
    <3>2. offDccm \in 0 .. offDccm' /\ offDccm < offDccm'
          /\ offDccm' <= offDccm + Chunk /\ lenDccm' >= 0 /\ lenDccm' \in Int
      BY <1>3, <2>1, <2>2
    <3>3. state' \in {"DCCM", "CLOSE_EVENT"}
          /\ (state' = "CLOSE_EVENT") = (lenDccm' = 0)
      BY <2>5, <3>2
    <3>4. DccmFlight'
      BY <1>1, <1>2, <3>1, <3>2, <3>3 DEF DccmFlight, InFlight
    <3>5. IccmFlight' /\ CpuFlight' /\ CtlMatchesState'
      BY <1>1, <3>1 DEF IccmFlight, CpuFlight, CtlMatchesState
    <3>6. CpuRunsWholeImage' /\ IccmBeforeDccm'
      BY <1>1, <1>2, <3>1 DEF CpuRunsWholeImage, IccmBeforeDccm, Executed
    <3> QED
      BY <2>3, <3>4, <3>5, <3>6 DEF DownloadStep
  <2> QED
    BY <2>1, <2>4, <2>5 DEF Advance, Abort
<1> QED
  BY <1>4, <1>5

\* A chunk joins the bytes before it without a gap.
LEMMA RangeSplit ==
  ASSUME NEW a \in Int, NEW b \in Int, NEW c \in Int, a <= b, b <= c
  PROVE  (a .. b - 1) \cup (b .. c - 1) = a .. c - 1
OBVIOUS

\* The controller takes the chunk in flight, and then the cursors say what it
\* has; or it refuses the command, and nothing good is in flight any more.
LEMMA ReplyStep == DownloadInv /\ ControllerReply => DownloadStep
<1> SUFFICES ASSUME DownloadInv, ControllerReply PROVE DownloadStep
  OBVIOUS
<1> USE ConstantsAssumption
<1>1. /\ wire # NoCmd /\ wire' = NoCmd
      /\ UNCHANGED <<state, imageVars>>
  BY DEF ControllerReply
<1>2. CursorsSum'
  BY <1>1 DEF DownloadInv, CursorsSum, imageVars
<1>3. CASE event' = "error" /\ UNCHANGED ctl
  BY <1>1, <1>2, <1>3, QuietStep DEF imageVars
<1>4. CASE event' = "ok" /\ ctl' = [ctl EXCEPT ![wire.op] = @ \cup wire.arg]
  <2>1. wire.op \in Ops /\ ctl \in [Ops -> SUBSET Int]
    BY <1>1 DEF DownloadInv, TypeOK, Commands
  <2>2. /\ ctl'[wire.op] = ctl[wire.op] \cup wire.arg
        /\ \A op \in Ops : op # wire.op => ctl'[op] = ctl[op]
    BY <1>4, <2>1
  <2>3. /\ offIccm \in Nat /\ lenIccm \in Int /\ offDccm \in Nat
        /\ iccmSize \in Nat /\ dccmSize \in Nat /\ lenDccm \in Int
        /\ offIccm + lenIccm = iccmSize /\ offDccm + lenDccm = dccmSize
    BY DEF DownloadInv, TypeOK, CursorsSum
  <2>4. IccmFlight' /\ DccmFlight' /\ CpuFlight'
    BY <1>1 DEF IccmFlight, DccmFlight, CpuFlight
  <2>5. CASE wire.op = "iccm"
    <3>1. PICK lo \in Rom .. offIccm :
            InFlight(lo, offIccm) /\ ctl["iccm"] = Rom .. lo - 1
      BY <2>5 DEF DownloadInv, IccmFlight
    <3>2. ctl'["iccm"] = Rom .. offIccm - 1 /\ Rom <= offIccm
      <4>1. ctl'["iccm"] = (Rom .. lo - 1) \cup (lo .. offIccm - 1)
        BY <2>2, <2>5, <3>1 DEF InFlight
      <4>2. lo \in Int /\ Rom <= lo /\ lo <= offIccm
        BY <2>3, <3>1
      <4> QED
        BY <2>3, <4>1, <4>2, RangeSplit
    <3>3. /\ state \in {"ICCM", "DCCM"} /\ (state = "DCCM" => lenIccm = 0)
          /\ ctl'["dccm"] = {} /\ offDccm = 0 /\ ctl'["cpu_start"] = {}
      BY <2>2, <2>5 DEF DownloadInv, IccmFlight
    <3>4. CtlMatchesState'
      BY <1>1, <2>3, <3>2, <3>3 DEF CtlMatchesState, Early, Late, imageVars
    <3>5. CpuRunsWholeImage' /\ IccmBeforeDccm'
      BY <1>1, <3>3 DEF CpuRunsWholeImage, IccmBeforeDccm, Executed
    <3> QED
      BY <1>2, <2>4, <3>4, <3>5 DEF DownloadStep
  <2>6. CASE wire.op = "dccm"
    <3>1. PICK lo \in 0 .. offDccm :
            InFlight(lo, offDccm) /\ ctl["dccm"] = 0 .. lo - 1
      BY <2>6 DEF DownloadInv, DccmFlight
    <3>2. ctl'["dccm"] = 0 .. offDccm - 1
      <4>1. ctl'["dccm"] = (0 .. lo - 1) \cup (lo .. offDccm - 1)
        BY <2>2, <2>6, <3>1 DEF InFlight
      <4>2. lo \in Int /\ 0 <= lo /\ lo <= offDccm
        BY <2>3, <3>1
      <4> QED
        BY <2>3, <4>1, <4>2, RangeSplit
    <3>3. /\ state \in {"DCCM", "CLOSE_EVENT"} /\ lenIccm = 0
          /\ state = "CLOSE_EVENT" => lenDccm = 0
          /\ ctl'["iccm"] = Rom .. iccmSize - 1 /\ ctl'["cpu_start"] = {}
      BY <2>2, <2>6 DEF DownloadInv, DccmFlight
    <3>4. ctl'["iccm"] = Rom .. offIccm - 1
      BY <2>3, <3>3
    <3>5. CtlMatchesState'
      BY <1>1, <3>2, <3>3, <3>4 DEF CtlMatchesState, Early, Late, imageVars
    <3>6. CpuRunsWholeImage' /\ IccmBeforeDccm'
      BY <1>1, <3>3 DEF CpuRunsWholeImage, IccmBeforeDccm, Executed, imageVars
    <3> QED
      BY <1>2, <2>4, <3>5, <3>6 DEF DownloadStep
  <2>7. CASE wire.op \notin {"iccm", "dccm"}
    <3>1. ctl'["iccm"] = ctl["iccm"] /\ ctl'["dccm"] = ctl["dccm"]
      BY <2>2, <2>7
    <3>2. wire.op = "cpu_start" \/ ctl'["cpu_start"] = ctl["cpu_start"]
      BY <2>2
    <3>3. Live
      BY <1>1 DEF Live
    <3>4. CtlMatchesState'
      BY <1>1, <2>7, <3>1, <3>2, <3>3 DEF DownloadInv, CtlMatchesState, CpuFlight,
         Early, Late, imageVars
    <3>5. CpuRunsWholeImage' /\ IccmBeforeDccm'
      BY <1>1, <3>1, <3>2 DEF DownloadInv, CpuRunsWholeImage, IccmBeforeDccm,
         WholeImage, Executed, imageVars
    <3> QED
      BY <1>2, <2>4, <3>4, <3>5 DEF DownloadStep
  <2> QED
    BY <2>5, <2>6, <2>7
<1> QED
  BY <1>3, <1>4 DEF ControllerReply

\* A request starts from nothing: whatever it sends first is no chunk, and if a
\* download follows its cursors are at the beginning of the images.
LEMMA StartStep ==
  ASSUME ctl' = FreshCtl, CursorsSum',
         wire'.op \notin {"iccm", "dccm", "cpu_start"},
         \/ wire' = NoCmd /\ event' # "ok"
         \/ state' \notin Early \cup {"DCCM"} \cup Late
         \/ state' = "TEST_WRITE" /\ offIccm' = Rom /\ offDccm' = 0
  PROVE  DownloadStep
<1>1. ctl'["iccm"] = {} /\ ctl'["dccm"] = {} /\ ctl'["cpu_start"] = {}
  BY DEF FreshCtl
<1>2. IccmFlight' /\ DccmFlight' /\ CpuFlight'
  BY DEF IccmFlight, DccmFlight, CpuFlight
<1>3. CtlMatchesState'
  BY <1>1, ConstantsAssumption DEF CtlMatchesState, Live, Early, Late
<1>4. CpuRunsWholeImage' /\ IccmBeforeDccm'
  BY <1>1 DEF CpuRunsWholeImage, IccmBeforeDccm, Executed
<1> QED
  BY <1>2, <1>3, <1>4 DEF DownloadStep

\* Nothing has been downloaded at first.
LEMMA DownloadInit == Init => DownloadInv
<1> SUFFICES ASSUME Init PROVE DownloadInv
  OBVIOUS
<1>1. wire = NoCmd /\ event = "none" /\ ctl = FreshCtl /\ CursorsSum
  BY DEF Init, CursorsSum
<1>2. OneCommand /\ IdleIsQuiet
  BY <1>1 DEF OneCommand, IdleIsQuiet, Pending
<1>3. IccmFlight /\ DccmFlight /\ CpuFlight /\ CtlMatchesState
  BY <1>1 DEF IccmFlight, DccmFlight, CpuFlight, CtlMatchesState, Live
<1>4. CpuRunsWholeImage /\ IccmBeforeDccm
  BY <1>1 DEF CpuRunsWholeImage, IccmBeforeDccm, Executed, FreshCtl
<1> QED
  BY <1>1, <1>2, <1>3, <1>4, InitType DEF DownloadInv

\* Every step of the library, the stack and the controller.
LEMMA DownloadNext == DownloadInv /\ [Next]_vars => DownloadStep
<1> SUFFICES ASSUME DownloadInv, [Next]_vars PROVE DownloadStep
  OBVIOUS
<1> USE ConstantsAssumption
<1>0. CursorsSum
  BY DEF DownloadInv
<1>1. CASE VendorInit
  BY <1>0, <1>1, QuietStep DEF VendorInit, CursorsSum, imageVars
<1>2. CASE Cleanup \/ NullChunk \/ UNCHANGED vars
  <2>1. UNCHANGED <<state, imageVars, wire, event, ctl>>
    BY <1>2 DEF Cleanup, NullChunk, vars
  <2> QED
    BY <2>1 DEF DownloadInv, DownloadStep, CursorsSum, IccmFlight, DccmFlight,
       CpuFlight, CtlMatchesState, InFlight, Live, CpuRunsWholeImage,
       IccmBeforeDccm, WholeImage, Executed, imageVars
<1>3. CASE Restart
  <2>1. CursorsSum'
    BY <1>3 DEF Restart, CursorsSum
  <2>2. ctl' = FreshCtl /\ wire' = NoCmd /\ event' = "none"
    BY <1>3 DEF Restart
  <2> QED
    BY <2>1, <2>2, StartStep
<1>4. CASE ControllerReply
  BY <1>4, ReplyStep
<1>5. CASE CbackAbort
  BY <1>0, <1>5, QuietStep DEF CbackAbort, Abort, CursorsSum, imageVars
<1>6. CASE RegisterStep
  <2>1. RegNext[state] \in States /\ Cmd("reg") \in Commands
    BY <1>6, CommandType DEF RegisterStep, RegNext, States, DownloadStates
  <2>2. \/ state \in Early /\ RegNext[state] \in Early
        \/ state \in Late /\ RegNext[state] \in Late
    BY <1>6 DEF RegisterStep, RegNext, Early, Late
  <2>3. /\ event = "ok" /\ event' = "none" /\ UNCHANGED <<imageVars, ctl>>
        /\ Advance(RegNext[state], Cmd("reg"))
    BY <1>6 DEF RegisterStep, Dispatch
  <2>4. Cmd("reg").op = "reg"
    OBVIOUS
  <2> HIDE DEF Cmd
  <2> QED
    BY <2>1, <2>2, <2>3, <2>4, OtherStep
<1>7. CASE Iccm
  BY <1>7, IccmStep
<1>8. CASE Dccm
  BY <1>8, DccmStep
<1>9. CASE CloseEvent
  <2>1. "RF_CALIBRATION" \in States /\ Cmd("reg") \in Commands
    BY CommandType DEF States, DownloadStates
  <2>2. state \in Late /\ "RF_CALIBRATION" \in Late
    BY <1>9 DEF CloseEvent, Dispatch, Late
  <2>3. /\ event = "ok" /\ event' = "none" /\ UNCHANGED <<imageVars, ctl>>
        /\ Advance("RF_CALIBRATION", Cmd("reg"))
    BY <1>9 DEF CloseEvent, Dispatch
  <2> QED
    BY <2>1, <2>2, <2>3, OtherStep
<1>10. CASE StartCpu
  <2>1. "SET_PARAMS" \in States /\ Cmd("cpu_start") \in Commands
    BY CommandType DEF States, DownloadStates
  <2>2. state \in Late /\ "SET_PARAMS" \notin Early \cup {"DCCM"} \cup Late
    BY <1>10 DEF StartCpu, Dispatch, Early, Late
  <2>3. /\ event = "ok" /\ event' = "none" /\ UNCHANGED <<imageVars, ctl>>
        /\ Advance("SET_PARAMS", Cmd("cpu_start"))
    BY <1>10 DEF StartCpu, Dispatch
  <2> QED
    BY <2>1, <2>2, <2>3, OtherStep
<1>11. CASE SetParams
  <2> DEFINE next == IF Family = "W1U" THEN "SET_WAVEFORM_DATA" ELSE "SET_BD_ADDR"
  <2>1. /\ next \in States /\ Cmd("bd_addr") \in Commands
        /\ next \notin Early \cup {"DCCM"} \cup Late
    BY CommandType DEF States, Early, Late
  <2>2. /\ event = "ok" /\ event' = "none" /\ UNCHANGED <<imageVars, ctl>>
        /\ Advance(next, Cmd("bd_addr"))
    BY <1>11 DEF SetParams, Dispatch
  <2> HIDE DEF next
  <2> QED
    BY <2>1, <2>2, OtherStep
<1>12. ASSUME NEW next \in {"SET_MANU_DATA", "SET_BD_ADDR", "SET_WAKEUP_PARAMS"},
              NEW op \in {"wake_default", "wake_record", "wake_rows"},
              NEW arg \in SUBSET Int, Advance(next, Data(op, arg)),
              event = "ok", event' = "none", UNCHANGED <<imageVars, ctl>>
       PROVE  DownloadStep
  <2>1. Data(op, arg) \in Commands /\ Data(op, arg).op = op /\ next \in States
    BY CommandType DEF States
  <2>2. next \notin Early \cup {"DCCM"} \cup Late
    BY DEF Early, Late
  <2> HIDE DEF Data
  <2> QED
    BY <1>12, <2>1, <2>2, OtherStep
<1>13. ASSUME Abort \/ Succeed, event' = "none", UNCHANGED <<imageVars, ctl>>
       PROVE  DownloadStep
  BY <1>0, <1>13, QuietStep DEF Abort, Succeed, CursorsSum, imageVars
<1>14. CASE SetWaveformData
  <2>1. {r \in manfPara : cnt <= r} \in SUBSET Int
    <3>1. manfPara \subseteq Rows /\ Rows \subseteq Int
      BY DEF DownloadInv, TypeOK, Rows
    <3> QED
      BY <3>1
  <2>2. /\ event = "ok" /\ event' = "none" /\ UNCHANGED <<imageVars, ctl>>
        /\ \/ Abort \/ Succeed
           \/ Advance("SET_MANU_DATA", Data("wake_default", {0}))
           \/ Advance("SET_MANU_DATA",
                      Data("wake_rows", {r \in manfPara : cnt <= r}))
    BY <1>14 DEF SetWaveformData, Dispatch
  <2> QED
    BY <1>12, <1>13, <2>1, <2>2
<1>15. CASE SetBdAddr \/ SetWakeupParams
  <2>1. /\ event = "ok" /\ event' = "none" /\ UNCHANGED <<imageVars, ctl>>
        /\ state \in {"SET_BD_ADDR", "SET_WAKEUP_PARAMS"} /\ {cnt} \in SUBSET Int
    BY <1>15 DEF SetBdAddr, SetWakeupParams, Dispatch, DownloadInv, TypeOK
  <2>2. \E stop \in BOOLEAN : SendRecord(stop)
    BY <1>15 DEF SetBdAddr, SetWakeupParams
  <2>3. \/ Advance("SET_MANU_DATA", Data("wake_default", {0}))
        \/ Advance("SET_MANU_DATA", Data("wake_record", {cnt}))
        \/ Advance(state, Data("wake_record", {cnt}))
    BY <2>2 DEF SendRecord
  <2> QED
    BY <1>12, <2>1, <2>3
<1>16. CASE WriteManufacture
  BY <1>13, <1>16 DEF WriteManufacture, Dispatch
<1>17. CASE HwConfigQuickStart
  <2>1. /\ wire = NoCmd /\ event = "none" /\ event' = "none" /\ ctl' = FreshCtl
    BY <1>17 DEF HwConfigQuickStart, Requested, DownloadInv, IdleIsQuiet, Pending
  <2>2. UNCHANGED imageVars
    BY <1>17 DEF HwConfigQuickStart, NoBuffer
  <2>3. CursorsSum'
    BY <1>0, <2>2 DEF CursorsSum, imageVars
  <2>4. CASE NoBuffer
    BY <2>1, <2>3, <2>4, StartStep DEF NoBuffer
  <2>5. CASE \E next \in {"SET_WAVEFORM_DATA", "SET_WAKEUP_PARAMS"} :
               SendFirst(next, Cmd("bd_addr"))
    <3>1. state' \notin Early \cup {"DCCM"} \cup Late
      BY <2>5 DEF SendFirst, Early, Late
    <3>2. wire'.op \notin {"iccm", "dccm", "cpu_start"}
      BY <2>5 DEF SendFirst
    <3> QED
      BY <2>1, <2>3, <3>1, <3>2, StartStep
  <2> QED
    BY <1>17, <2>4, <2>5 DEF HwConfigQuickStart
<1>18. CASE HwConfigStart
  <2>1. /\ wire = NoCmd /\ event = "none" /\ event' = "none" /\ ctl' = FreshCtl
    BY <1>18 DEF HwConfigStart, Requested, DownloadInv, IdleIsQuiet, Pending
  <2>2. CASE NoBuffer
    <3>1. CursorsSum'
      BY <1>0, <2>2 DEF NoBuffer, CursorsSum, imageVars
    <3> QED
      BY <2>1, <2>2, <3>1, StartStep DEF NoBuffer
  <2>3. CASE SendFirst("SET_MANU_DATA", Cmd("reset"))
             /\ UNCHANGED <<cnt, imageVars, heapVars, fwFd>>
    <3>1. CursorsSum'
      BY <1>0, <2>3 DEF CursorsSum, imageVars
    <3>2. wire'.op \notin {"iccm", "dccm", "cpu_start"}
          /\ state' \notin Early \cup {"DCCM"} \cup Late
      BY <2>3 DEF SendFirst, Early, Late
    <3> QED
      BY <2>1, <3>1, <3>2, StartStep
  <2>4. ASSUME NEW image \in Images, NEW mallocs \in 0 .. 2,
               GetBinSize(image, mallocs), ReadError \/ ReadCrash \/ ReadImage
        PROVE  DownloadStep
    <3>1. image[1] \in Nat /\ image[2] \in Nat
      OBVIOUS
    <3>2. CursorsSum' /\ offIccm' = Rom /\ offDccm' = 0
      BY <2>4, <3>1 DEF GetBinSize, CursorsSum
    <3>3. wire'.op \notin {"iccm", "dccm", "cpu_start"}
          /\ (wire' = NoCmd \/ state' = "TEST_WRITE")
      BY <2>1, <2>4 DEF ReadError, ReadCrash, ReadImage, SendFirst
    <3> QED
      BY <2>1, <3>2, <3>3, StartStep
  <2> QED
    BY <1>18, <2>2, <2>3, <2>4 DEF HwConfigStart
<1> QED
  BY <1>1, <1>2, <1>3, <1>4, <1>5, <1>6, <1>7, <1>8, <1>9, <1>10, <1>11, <1>14,
     <1>15, <1>16, <1>17, <1>18 DEF Next, HwConfigCback

\* hw_cfg_cb.state, len_iccm, offset_iccm, len_dccm and offset_dccm always agree
\* with what the controller has acknowledged, whatever aborts and restarts.
THEOREM DownloadCorrect == Spec => []DownloadInv
<1>1. DownloadInv /\ [Next]_vars => DownloadInv'
  BY DownloadNext, NextType, QuietNext DEF DownloadInv, DownloadStep
<1> QED
  BY <1>1, DownloadInit, PTL DEF Spec

\* The START_CPU command never goes out, and is never executed, before the
\* controller has acknowledged both images to the last byte.
THEOREM CpuSafe == Spec => []CpuRunsWholeImage
<1>1. DownloadInv => CpuRunsWholeImage
  BY DEF DownloadInv
<1> QED
  BY <1>1, DownloadCorrect, PTL

\* No DCCM chunk goes out before the ICCM image is complete.
THEOREM DownloadOrder == Spec => []IccmBeforeDccm
<1>1. DownloadInv => IccmBeforeDccm
  BY DEF DownloadInv
<1> QED
  BY <1>1, DownloadCorrect, PTL

\* The command-response protocol: the controller never has a command of this
\* library while the event of another one waits, and none while it is idle.
THEOREM CommandDiscipline == Spec => [](OneCommand /\ IdleIsQuiet)
<1>1. Init => OneCommand /\ IdleIsQuiet
  BY DEF Init, OneCommand, IdleIsQuiet, Pending
<1> QED
  BY <1>1, QuietNext, PTL DEF Spec

\* Every chunk in flight carries bytes the controller does not have yet, within
\* its image, and at most RW_OPERATION_SIZE of them.
THEOREM ChunksFresh == Spec => []ChunksAreFresh
<1>1. DownloadInv => ChunksAreFresh
  <2> SUFFICES ASSUME DownloadInv, NEW op \in {"iccm", "dccm"}, wire.op = op
               PROVE  /\ wire.arg \cap ctl[op] = {}
                      /\ wire.arg \subseteq
                           0 .. (IF op = "iccm" THEN iccmSize ELSE dccmSize) - 1
                      /\ \A i, j \in wire.arg : i - j < Chunk
    BY DEF ChunksAreFresh
  <2> DEFINE off == IF op = "iccm" THEN offIccm ELSE offDccm
             size == IF op = "iccm" THEN iccmSize ELSE dccmSize
             base == IF op = "iccm" THEN Rom ELSE 0
  <2>1. off \in Nat /\ size \in Nat /\ base \in Nat /\ off <= size
        /\ Chunk \in Nat
    BY ConstantsAssumption
       DEF DownloadInv, TypeOK, CursorsSum, IccmFlight, DccmFlight
  <2>2. PICK lo \in base .. off :
          wire.arg = lo .. off - 1 /\ off <= lo + Chunk /\ ctl[op] = base .. lo - 1
    BY DEF DownloadInv, IccmFlight, DccmFlight, InFlight
  <2> HIDE DEF off, base
  <2> QED
    BY <2>1, <2>2
<1> QED
  BY <1>1, DownloadCorrect, PTL

HIDE DEF Ops, NoCmd, Cmd, Data, Sent, Bytes, Least
HIDE DEF ImageType, HeapType, FlagType, ConfType, TrafficType

(***************************************************************************)
(* Part 2: the configuration composed with the 15.4 frames.                *)
(***************************************************************************)
-----------------------------------------------------------------------------
(***************************************************************************)
(* The ends of hw_config_cback.                                            *)
(***************************************************************************)
\* The next command is out; or the request is answered; or, on W1U only, the
\* buffer is lost and nobody is told.
Passes == wire' # NoCmd /\ UNCHANGED <<stackVars, owned>>
Answers == /\ wire' = NoCmd /\ waiting' = FALSE /\ answer' \in {"success", "fail"}
           /\ UNCHANGED owned
Loses == /\ wire' = NoCmd /\ owned' = owned + 1 /\ UNCHANGED stackVars
         /\ Family = "W1U" /\ Interface # "USB" /\ state = "DCCM"

Handled ==
  /\ Alive /\ Alive' /\ cbacks /\ cbacks' /\ event = "ok" /\ event' = "none"
  /\ Passes \/ Answers \/ Loses

\* The first end of hw_config_cback: the next command goes out, or, if xmit_cb
\* fails, the request is answered.
LEMMA AdvanceEnds ==
  ASSUME cbacks, NEW next, NEW op \in Ops, NEW arg, Advance(next, Data(op, arg))
  PROVE  Passes \/ Answers
BY DEF Advance, Abort, Passes, Answers, Ops, Data, NoCmd

\* The other two ends answer the request.
LEMMA AbortEnds ==
  ASSUME cbacks, Abort \/ Succeed
  PROVE  Answers
BY DEF Abort, Succeed, Answers

\* hw_config_cback comes to one of its three ends, or dereferences NULL.
LEMMA HandlersEnd ==
  ASSUME HwConfigCback
  PROVE  CbackAbort \/ NullChunk \/ Handled
<1> USE DEF Dispatch, Alive, Cmd, Ops
<1>1. CASE RegisterStep
  BY <1>1, AdvanceEnds DEF RegisterStep, Handled, heapVars
<1>2. CASE Iccm
  BY <1>2, AdvanceEnds, AbortEnds DEF Iccm, Deref, Handled
<1>3. CASE Dccm
  BY <1>3, AdvanceEnds, AbortEnds DEF Dccm, Deref, Handled, Loses
<1>4. CASE CloseEvent
  BY <1>4, AdvanceEnds DEF CloseEvent, Handled
<1>5. CASE StartCpu \/ SetParams
  BY <1>5, AdvanceEnds DEF StartCpu, SetParams, Handled, heapVars
<1>6. CASE SetWaveformData
  BY <1>6, AdvanceEnds, AbortEnds DEF SetWaveformData, Handled, heapVars
<1>7. ASSUME NEW stop, SendRecord(stop), cbacks PROVE Passes \/ Answers
  BY <1>7, AdvanceEnds DEF SendRecord
<1>8. CASE SetBdAddr
  BY <1>7, <1>8 DEF SetBdAddr, Handled, heapVars
<1>9. CASE SetWakeupParams
  BY <1>7, <1>9 DEF SetWakeupParams, Handled, heapVars
<1>10. CASE WriteManufacture
  BY <1>10, AbortEnds DEF WriteManufacture, Handled, heapVars
<1> QED
  BY <1>1, <1>2, <1>3, <1>4, <1>5, <1>6, <1>8, <1>9, <1>10 DEF HwConfigCback
-----------------------------------------------------------------------------
(***************************************************************************)
(* What the stack sees.                                                    *)
(***************************************************************************)
\* The protocol between the library, the stack and the controller: one command at
\* a time, none while nobody waits, and only registered callbacks are waited for.
StackInv == OneCommand /\ IdleIsQuiet /\ (waiting => cbacks)

\* A frame of a 15.4 client changes nothing that the stack sees.
LEMMA FramesAreUnseen ==
  ASSUME Tx15p4 \/ UNCHANGED vars
  PROVE  UNCHANGED <<heapVars, confVars, cbacks, stackVars, wire, event, owned, ctl>>
BY DEF Tx15p4, vars, confVars

\* Only a request waits, and cleanup() makes an end of it.
LEMMA WaitersNext ==
  ASSUME StackInv, Next
  PROVE  waiting' => cbacks'
<1> USE DEF StackInv
<1>1. CASE VendorInit \/ Cleanup \/ Restart
  BY <1>1 DEF VendorInit, Cleanup, Restart
<1>2. CASE ControllerReply
  BY <1>2 DEF ControllerReply, stackVars
<1>3. CASE HwConfigQuickStart
  BY <1>3 DEF HwConfigQuickStart, Requested
<1>4. CASE HwConfigStart
  BY <1>4 DEF HwConfigStart, Requested
<1>5. CASE HwConfigCback
  BY <1>5, HandlersEnd DEF CbackAbort, Abort, NullChunk, Handled, stackVars
<1> QED  BY <1>1, <1>2, <1>3, <1>4, <1>5 DEF Next

\* One command at a time, and only a request waits.
LEMMA StackNext ==
  ASSUME StackInv, [CoexNext]_vars
  PROVE  StackInv'
<1>1. CASE Next
  BY <1>1, QuietNext, WaitersNext DEF StackInv
<1>2. CASE Tx15p4 \/ UNCHANGED vars
  <2>1. UNCHANGED <<heapVars, cbacks, stackVars, wire, event>>
    BY <1>2, FramesAreUnseen
  <2>2. OneCommand' /\ IdleIsQuiet'
    BY <2>1 DEF StackInv, OneCommand, IdleIsQuiet, Pending, Alive, heapVars, stackVars
  <2> QED  BY <2>1, <2>2 DEF StackInv, stackVars
<1> QED  BY <1>1, <1>2 DEF CoexNext

\* From there StackInv is an invariant of the composition.
LEMMA StackHolds == CoexSpec => []StackInv
<1>1. Init => StackInv
  BY DEF Init, StackInv, OneCommand, IdleIsQuiet, Pending
<1> QED  BY <1>1, StackNext, PTL DEF CoexSpec

\* Who waits for what, from the stack's side.
LEMMA PhaseOf ==
  /\ phase = "closed" <=> ~cbacks
  /\ phase = "open" <=> cbacks /\ ~waiting
  /\ phase = "busy" <=> cbacks /\ waiting /\ Pending /\ Alive
  /\ phase = "mute" <=> cbacks /\ waiting /\ ~(Pending /\ Alive)
BY DEF phase

\* The abstract phase of the next state, case by case.
LEMMA PhaseOfNext ==
  /\ phase' = "closed" <=> ~cbacks'
  /\ phase' = "open" <=> cbacks' /\ ~waiting'
  /\ phase' = "busy" <=> cbacks' /\ waiting' /\ Pending' /\ Alive'
  /\ phase' = "mute" <=> cbacks' /\ waiting' /\ ~(Pending' /\ Alive')
BY DEF phase

\* The event of a command is handled while the request waits for its answer.
LEMMA HandlerIsBusy ==
  ASSUME StackInv, Alive, cbacks, event # "none"
  PROVE  phase = "busy" /\ wire = NoCmd
BY PhaseOf DEF StackInv, IdleIsQuiet, OneCommand, Pending

\* What hw_config_cback makes of an event.
LEMMA HandlerImplements ==
  ASSUME StackInv, HwConfigCback
  PROVE  [Abstract!Next]_(Abstract!fvars)
<1> USE DEF Abstract!Next, Abstract!fvars
<1>1. CASE CbackAbort
  <2>1. event # "none" /\ Alive /\ UNCHANGED cbacks
    BY <1>1 DEF CbackAbort
  <2>2. CASE cbacks
    <3>1. phase = "busy" /\ phase' = "open" /\ answer' = "fail"
      BY <1>1, <2>1, <2>2, HandlerIsBusy, PhaseOfNext DEF CbackAbort, Abort
    <3> QED  BY <3>1 DEF Abstract!Answer
  <2>3. CASE ~cbacks
    BY <1>1, <2>1, <2>3, PhaseOf, PhaseOfNext DEF CbackAbort, Abort, stackVars
  <2> QED  BY <2>2, <2>3
<1>2. CASE NullChunk
  <2>1. phase = "busy" /\ phase' = "mute" /\ UNCHANGED answer
    BY <1>2, HandlerIsBusy, PhaseOf, PhaseOfNext DEF NullChunk, Alive, stackVars
  <2> QED  BY <2>1 DEF Abstract!FallMute
<1>3. CASE Handled
  <2>1. phase = "busy" /\ cbacks' /\ Alive' /\ event' = "none"
    BY <1>3, HandlerIsBusy DEF Handled
  <2>2. CASE Passes
    <3>1. phase' = "busy" /\ UNCHANGED answer
      BY <2>1, <2>2, PhaseOf, PhaseOfNext DEF Passes, stackVars, Pending
    <3> QED  BY <2>1, <3>1
  <2>3. CASE Answers
    <3>1. phase' = "open" /\ answer' \in {"success", "fail"}
      BY <2>1, <2>3, PhaseOfNext DEF Answers
    <3> QED  BY <2>1, <3>1 DEF Abstract!Answer
  <2>4. CASE Loses
    <3>1. phase' = "mute" /\ UNCHANGED answer
      BY <2>1, <2>4, PhaseOf, PhaseOfNext DEF Loses, stackVars, Pending
    <3> QED  BY <2>1, <3>1 DEF Abstract!FallMute
  <2> QED  BY <1>3, <2>2, <2>3, <2>4 DEF Handled
<1> QED  BY <1>1, <1>2, <1>3, HandlersEnd

\* What BT_VND_OP_FW_CFG makes of the request.
LEMMA RequestImplements ==
  ASSUME StackInv, HwConfigStart \/ HwConfigQuickStart
  PROVE  Abstract!Request
<1>1. phase = "open" /\ cbacks'
  BY PhaseOf DEF HwConfigStart, HwConfigQuickStart, Requested
<1>2. CASE NoBuffer
  <2>1. phase' = "open" /\ answer' = "fail"
    BY <1>1, <1>2, PhaseOf, PhaseOfNext DEF NoBuffer
  <2> QED  BY <1>1, <2>1 DEF Abstract!Request
<1>3. CASE waiting' = TRUE /\ answer' = "none"
  <2>1. phase' \in {"busy", "mute"}
    BY <1>1, <1>3, PhaseOfNext
  <2> QED  BY <1>1, <1>3, <2>1 DEF Abstract!Request
<1> QED
  BY <1>2, <1>3 DEF HwConfigStart, HwConfigQuickStart, SendFirst, ReadError,
     ReadCrash, ReadImage

\* Every step is one of FwCfg's or none of its business.
LEMMA StepImplements ==
  ASSUME StackInv, [CoexNext]_vars
  PROVE  [Abstract!Next]_(Abstract!fvars)
<1> USE DEF Abstract!Next, Abstract!fvars
<1>1. CASE VendorInit
  <2>1. phase = "closed" /\ phase' = "open" /\ answer' = "none"
    BY <1>1, PhaseOf, PhaseOfNext DEF VendorInit, StackInv
  <2> QED  BY <2>1 DEF Abstract!Open
<1>2. CASE Cleanup
  <2>1. phase # "closed" /\ phase' = "closed" /\ UNCHANGED answer
    BY <1>2, PhaseOf, PhaseOfNext DEF Cleanup
  <2> QED  BY <2>1 DEF Abstract!Close
<1>3. CASE Restart
  <2>1. phase' = "closed" /\ UNCHANGED answer
    BY <1>3, PhaseOfNext DEF Restart
  <2> QED  BY <2>1 DEF Abstract!Close
<1>4. CASE ControllerReply
  <2>1. UNCHANGED <<cbacks, waiting, answer, fault>> /\ Pending /\ Pending'
    BY <1>4 DEF ControllerReply, stackVars, heapVars, Pending
  <2>2. UNCHANGED phase
    BY <2>1 DEF phase, Alive
  <2> QED  BY <2>1, <2>2
<1>5. CASE HwConfigStart \/ HwConfigQuickStart
  BY <1>5, RequestImplements
<1>6. CASE HwConfigCback
  BY <1>6, HandlerImplements
<1>7. CASE Tx15p4 \/ UNCHANGED vars
  <2>1. UNCHANGED <<cbacks, waiting, answer, fault, wire, event>>
    BY <1>7, FramesAreUnseen DEF heapVars, stackVars
  <2>2. UNCHANGED phase
    BY <2>1 DEF phase, Pending, Alive
  <2> QED  BY <2>1, <2>2
<1> QED
  BY <1>1, <1>2, <1>3, <1>4, <1>5, <1>6, <1>7 DEF CoexNext, Next

\* Each BT_VND_OP_FW_CFG has at most one fwcfg_cb, which answers a request that
\* waits, and none comes after cleanup(): for every chip, whatever fails, and
\* with the frames of the 15.4 clients in between.
THEOREM AnsweredAsPromised == CoexSpec => ImplementsFwCfg
<1>1. Init => Abstract!Init
  BY DEF Init, Abstract!Init, phase
<1>2. StackInv /\ [CoexNext]_vars => [Abstract!Next]_(Abstract!fvars)
  BY StepImplements
<1> QED
  BY <1>1, <1>2, StackHolds, PTL DEF CoexSpec, ImplementsFwCfg, Abstract!Spec

\* A command buffer that is lost leaves the request without an answer; every other
\* end of every handler, and of the two operations, sends it or gives it back.
THEOREM BuffersAreAccounted == CoexSpec => BuffersAccounted
<1> DEFINE Kept == owned' = owned \/ (owned' = owned + 1 /\ phase' = "mute") \/ ~Alive
<1>1. ASSUME StackInv, [CoexNext]_vars PROVE Kept
  <2>1. CASE VendorInit \/ Cleanup \/ Restart
    BY <2>1 DEF VendorInit, Cleanup, Restart
  <2>2. CASE ControllerReply \/ NullChunk \/ CbackAbort
    BY <2>2 DEF ControllerReply, NullChunk, CbackAbort, Abort
  <2>3. CASE Handled
    <3>1. CASE Loses
      <4>1. phase' = "mute"
        BY <1>1, <2>3, <3>1, PhaseOfNext, HandlerIsBusy, PhaseOf
           DEF Handled, Loses, stackVars, Pending
      <4> QED  BY <3>1, <4>1 DEF Loses
    <3> QED  BY <2>3, <3>1 DEF Handled, Passes, Answers
  <2>4. CASE HwConfigStart \/ HwConfigQuickStart
    <3>1. cbacks' /\ event' = "none"
      BY <1>1, <2>4 DEF HwConfigStart, HwConfigQuickStart, Requested, StackInv,
         IdleIsQuiet, Pending
    <3>2. \/ UNCHANGED owned
          \/ owned' = owned + 1 /\ waiting' = TRUE /\ wire' = NoCmd
      BY <2>4 DEF HwConfigStart, HwConfigQuickStart, NoBuffer, SendFirst, ReadError,
         ReadCrash, ReadImage
    <3> QED  BY <3>1, <3>2, PhaseOfNext DEF Pending
  <2>5. CASE Tx15p4 \/ UNCHANGED vars
    BY <2>5, FramesAreUnseen
  <2> QED
    BY <1>1, <2>1, <2>2, <2>3, <2>4, <2>5, HandlersEnd DEF CoexNext, Next
<1>2. ASSUME StackInv, [CoexNext]_vars PROVE [Kept]_vars
  BY <1>1, <1>2
<1> QED  BY <1>2, StackHolds, PTL DEF CoexSpec, BuffersAccounted
-----------------------------------------------------------------------------
(***************************************************************************)
(* The inductive invariant of a configuration.                             *)
(***************************************************************************)
\* What the controller has executed of an operation or is working on.
Given(op) == ctl[op] \cup (IF wire.op = op THEN wire.arg ELSE {})

\* Only the parts that are downloaded have images.
ImagesInv ==
  ~Downloads => /\ lenIccm = 0 /\ lenDccm = 0
                /\ iccmBuf = "null" /\ dccmBuf = "null" /\ fault = "none"

\* As long as every header was valid and every malloc() worked, both images are
\* there while a download needs them.
Loading == Early \cup {"DCCM", "CLOSE_EVENT"}
HeapInv ==
  ~badImage =>
    /\ fault = "none"
    /\ Downloads /\ Live /\ state \in Loading => iccmBuf = "live" /\ dccmBuf = "live"

Released == ~fwFd /\ "live" \notin {iccmBuf, dccmBuf}

Addressed ==
  Given("bd_addr") # {} /\ (Downloads => Given("cpu_start") # {})

\* No wake-up data yet.
Unwoken ==
  /\ Given("wake_record") = {} /\ Given("wake_default") = {}
  /\ tries = 1 => manfCnt = manfConf

\* The last wake-up data is out.
Woken ==
  /\ Addressed
  /\ \E op \in {"wake_default", "wake_record", "wake_rows"} : Given(op) # {}
  /\ SendsRecords /\ tries = 1 =>
       /\ Given("wake_record") = 0 .. (IF Family = "W1" THEN Least(1, manfConf)
                                                        ELSE manfConf) - 1
       /\ Given("wake_default") # {} <=> manfConf = 0

\* Between two records.
Waking ==
  /\ Given("bd_addr") # {} /\ Given("wake_default") = {}
  /\ Given("wake_record") = 0 .. cnt - 1 /\ cnt >= 0 /\ (cnt > 0 => manfCnt > 0)
  /\ tries = 1 => manfCnt + cnt = manfConf

\* What each state of hw_cfg_cb says while a command or a good event is in flight.
DownloadingInv ==
  /\ state \in Early => Downloads \/ Family = "W2L"
  /\ state \in {"DCCM", "SET_PARAMS"} \cup Late => Downloads
  /\ state \in {"SET_PARAMS"} \cup Late => cnt = 0
  /\ state \in {"SET_PARAMS"} \cup (Late \ {"CLOSE_EVENT"}) => Released
  /\ state = "SET_PARAMS" => Given("cpu_start") # {}
  /\ Downloads /\ state \in DownloadStates => Unwoken

WakingInv ==
  /\ state = "SET_BD_ADDR" =>
       chip = <<"W1", "SDIO">> /\ cnt = 0 /\ Addressed /\ Unwoken
  /\ state = "SET_WAVEFORM_DATA" => ~SendsRecords /\ cnt = 0 /\ Addressed
  /\ state = "SET_WAKEUP_PARAMS" => ~Downloads /\ Waking
  /\ state = "SET_MANU_DATA" => (Downloads /\ Given("reset") # {}) \/ Woken

ConfigInv ==
  /\ Live => tries # 0 /\ DownloadingInv /\ WakingInv
  /\ tries = 0 => manfCnt = manfConf
  /\ Given("cpu_start") # {} => Released

SuccessInv ==
  answer = "success" =>
    /\ ~Pending /\ Alive
    /\ \/ Downloads /\ Given("reset") # {}
       \/ Addressed /\ chip = <<"W2", "USB">>
       \/ Woken
-----------------------------------------------------------------------------
(***************************************************************************)
(* Types, images and the heap.                                             *)
(***************************************************************************)
LEMMA CoexTypes == CoexSpec => []TypeOK
<1>1. Init => TypeOK
  BY InitType
<1>2. TypeOK /\ [CoexNext]_vars => TypeOK'
  <2> SUFFICES ASSUME TypeOK, [CoexNext]_vars PROVE TypeOK'
    OBVIOUS
  <2>1. CASE Tx15p4
    <3>1. ImageType' /\ HeapType'
      BY <2>1 DEF Tx15p4, TypeOK, ImageType, HeapType, imageVars, heapVars
    <3>2. FlagType'
      BY <2>1 DEF Tx15p4, TypeOK, FlagType, heapVars, stackVars
    <3>3. ConfType'
      BY <2>1 DEF Tx15p4, TypeOK, ConfType, confVars
    <3>4. TrafficType'
      BY <2>1 DEF Tx15p4, TypeOK, TrafficType, stackVars, States, DownloadStates
    <3> QED  BY <3>1, <3>2, <3>3, <3>4 DEF TypeOK
  <2>2. CASE [Next]_vars
    BY <2>2, NextType
  <2> QED  BY <2>1, <2>2 DEF CoexNext, vars
<1> QED  BY <1>1, <1>2, PTL DEF CoexSpec

\* The chip never changes.
LEMMA ChipIsConstant ==
  ASSUME [CoexNext]_vars
  PROVE  UNCHANGED chip
BY DEF CoexNext, vars, Next, VendorInit, Cleanup, Restart, HwConfigStart,
   HwConfigQuickStart, Requested, ControllerReply, HwConfigCback, CbackAbort,
   RegisterStep, Iccm, Dccm, NullChunk, CloseEvent, StartCpu, SetParams,
   SetWaveformData, SetBdAddr, SetWakeupParams, WriteManufacture, Tx15p4, confVars

\* Chips that are not downloaded never have an image.
LEMMA ImagesNext ==
  ASSUME ImagesInv, [CoexNext]_vars
  PROVE  ImagesInv'
<1> SUFFICES ASSUME ~Downloads, lenIccm = 0, lenDccm = 0, iccmBuf = "null",
                    dccmBuf = "null", fault = "none"
             PROVE  /\ lenIccm' = 0 /\ lenDccm' = 0
                    /\ iccmBuf' = "null" /\ dccmBuf' = "null" /\ fault' = "none"
  BY ChipIsConstant DEF ImagesInv, Downloads
<1> USE DEF imageVars, heapVars
<1>1. CASE VendorInit \/ Cleanup \/ ControllerReply \/ CbackAbort
  BY <1>1 DEF VendorInit, Cleanup, ControllerReply, CbackAbort
<1>2. CASE Restart
  BY <1>2 DEF Restart
<1>3. CASE HwConfigStart \/ HwConfigQuickStart
  BY <1>3 DEF HwConfigStart, HwConfigQuickStart, NoBuffer
<1>4. CASE Iccm \/ Dccm \/ NullChunk
  BY <1>4 DEF Iccm, Dccm, NullChunk, Sent
<1>5. CASE CloseEvent
  BY <1>5 DEF CloseEvent
<1>6. CASE RegisterStep \/ StartCpu \/ SetParams \/ SetWaveformData
  BY <1>6 DEF RegisterStep, StartCpu, SetParams, SetWaveformData
<1>7. CASE SetBdAddr \/ SetWakeupParams \/ WriteManufacture
  BY <1>7 DEF SetBdAddr, SetWakeupParams, WriteManufacture
<1>8. CASE Tx15p4 \/ UNCHANGED vars
  BY <1>8 DEF Tx15p4, vars
<1> QED
  BY <1>1, <1>2, <1>3, <1>4, <1>5, <1>6, <1>7, <1>8 DEF CoexNext, Next, HwConfigCback

\* Only a download needs its images, only one whose images are there is begun
\* without a trace of a failure, and only closing it gives them back.
LEMMA HeapNext ==
  ASSUME StackInv, ImagesInv, HeapInv, [CoexNext]_vars
  PROVE  HeapInv'
<1> SUFFICES ASSUME ~badImage'
             PROVE  /\ fault' = "none"
                    /\ Downloads /\ Live' /\ state' \in Loading =>
                         iccmBuf' = "live" /\ dccmBuf' = "live"
  BY ChipIsConstant DEF HeapInv, Downloads, Loading, Early
<1> USE DEF imageVars, heapVars, HeapInv
<1>1. CASE HwConfigStart
  <2>1. wire = NoCmd /\ event' = "none"
    BY <1>1 DEF HwConfigStart, Requested, StackInv, IdleIsQuiet, Pending
  <2>2. CASE NoBuffer
    BY <1>1, <2>1, <2>2 DEF HwConfigStart, NoBuffer, Live
  <2>3. CASE SendFirst("SET_MANU_DATA", Cmd("reset")) /\ UNCHANGED heapVars
    BY <2>3 DEF SendFirst, Loading, Early
  <2>4. ASSUME NEW image \in Images, NEW mallocs \in 0 .. 2,
               GetBinSize(image, mallocs), ReadError \/ ReadCrash \/ ReadImage
        PROVE  iccmBuf' = "live" /\ dccmBuf' = "live" /\ fault' = "none"
    <3>1. iccmBuf' = "live" /\ dccmBuf' = "live" /\ ~badImage
      <4> DEFINE valid == {image[1], image[2]} \subseteq MinAlloc .. MaxAlloc
      <4>1. badImage' = (badImage \/ ~valid \/ mallocs < 2)
        BY <2>4 DEF GetBinSize
      <4>2. ~(badImage \/ ~valid \/ mallocs < 2)
        BY <4>1, Zenon
      <4>3. mallocs = 2
        BY <4>2
      <4> QED  BY <2>4, <4>2, <4>3 DEF GetBinSize
    <3> QED
      BY <2>4, <3>1 DEF ReadError, ReadCrash, ReadImage, Dangling
  <2> QED  BY <1>1, <2>2, <2>3, <2>4 DEF HwConfigStart
<1> SUFFICES ASSUME ~HwConfigStart
             PROVE  /\ fault' = "none"
                    /\ Downloads /\ Live' /\ state' \in Loading =>
                         iccmBuf' = "live" /\ dccmBuf' = "live"
  BY <1>1
<1>2. CASE VendorInit \/ Restart
  BY <1>2 DEF VendorInit, Restart, Live
<1>3. CASE Cleanup \/ UNCHANGED vars
  BY <1>3 DEF Cleanup, Live, vars
<1>4. CASE ControllerReply
  BY <1>4 DEF ControllerReply, Live
<1>5. CASE HwConfigQuickStart
  BY <1>5 DEF HwConfigQuickStart, NoBuffer, Requested
<1>6. CASE CbackAbort
  BY <1>6 DEF CbackAbort, Abort, Live
<1>7. ASSUME NEW next \in States, NEW c, Advance(next, c) \/ Abort \/ Succeed,
             event = "ok", event' = "none", UNCHANGED heapVars,
             next \in Loading => state \in Loading
      PROVE  /\ fault' = "none"
             /\ Downloads /\ Live' /\ state' \in Loading =>
                  iccmBuf' = "live" /\ dccmBuf' = "live"
  BY <1>7 DEF Advance, Abort, Succeed, Live
<1>8. CASE RegisterStep
  BY <1>7, <1>8 DEF RegisterStep, Dispatch, RegNext, Loading, Early, States, DownloadStates
<1>9. CASE Iccm
  BY <1>9 DEF Iccm, Dispatch, Deref, Advance, Abort, Live, Loading, Early, ImagesInv
<1>10. CASE Dccm
  BY <1>10 DEF Dccm, Dispatch, Deref, Advance, Abort, Live, Loading, Early, ImagesInv
<1>11. CASE NullChunk
  BY <1>11 DEF NullChunk, Live, Loading, Early, ImagesInv, Sent
<1>12. CASE CloseEvent
  BY <1>12 DEF CloseEvent, Dispatch, Advance, Abort, Live, Loading, Early, ImagesInv
<1>13. CASE StartCpu \/ SetParams \/ WriteManufacture
  BY <1>7, <1>13 DEF StartCpu, SetParams, WriteManufacture, Dispatch, Loading, Early,
     States, DownloadStates
<1>14. CASE SetWaveformData
  BY <1>7, <1>14 DEF SetWaveformData, Dispatch, Loading, Early, States
<1>15. ASSUME NEW stop, SendRecord(stop), state \in {"SET_BD_ADDR", "SET_WAKEUP_PARAMS"},
              event = "ok", event' = "none", UNCHANGED heapVars
       PROVE  /\ fault' = "none"
              /\ Downloads /\ Live' /\ state' \in Loading =>
                   iccmBuf' = "live" /\ dccmBuf' = "live"
  BY <1>7, <1>15 DEF SendRecord, Loading, Early, States
<1>16. CASE SetBdAddr \/ SetWakeupParams
  BY <1>15, <1>16 DEF SetBdAddr, SetWakeupParams, Dispatch
<1>17. CASE Tx15p4
  BY <1>17 DEF Tx15p4, Downloads, Family
<1> QED
  BY <1>2, <1>3, <1>4, <1>5, <1>6, <1>8, <1>9, <1>10, <1>11, <1>12, <1>13, <1>14,
     <1>16, <1>17 DEF CoexNext, Next, HwConfigCback
-----------------------------------------------------------------------------
(***************************************************************************)
(* What the states of hw_cfg_cb say of a configuration.                    *)
(***************************************************************************)
\* A command that goes out adds to what its operation was given.
LEMMA GivenPasses ==
  ASSUME wire = NoCmd, UNCHANGED ctl, NEW op \in Ops, NEW arg, wire' = Data(op, arg)
  PROVE  \A o \in Ops : Given(o)' = IF o = op THEN ctl[o] \cup arg ELSE Given(o)
BY DEF Given, NoCmd, Data, Ops

\* Nothing is given back.
LEMMA GivenEnds ==
  ASSUME wire = NoCmd, UNCHANGED ctl, wire' = NoCmd
  PROVE  \A o \in Ops : Given(o)' = Given(o)
BY DEF Given

\* What was in flight is executed.
LEMMA GivenReplies ==
  ASSUME TypeOK, ControllerReply, event' = "ok"
  PROVE  \A o \in Ops : Given(o)' = Given(o)
<1>1. wire.op \in Ops /\ ctl \in [Ops -> SUBSET Int]
  BY DEF ControllerReply, TypeOK, TrafficType, Commands
<1>2. ctl' = [ctl EXCEPT ![wire.op] = @ \cup wire.arg] /\ wire' = NoCmd
  BY DEF ControllerReply
<1>3. \A o \in Ops : ctl'[o] = Given(o)
  BY <1>1, <1>2 DEF Given
<1>4. \A o \in Ops : o # wire'.op
  BY <1>2 DEF Ops, NoCmd
<1> QED  BY <1>3, <1>4 DEF Given

\* A request starts from nothing.
LEMMA GivenFresh ==
  ASSUME ctl' = FreshCtl
  PROVE  \A o \in Ops : Given(o)' = IF wire'.op = o THEN wire'.arg ELSE {}
BY DEF Given, FreshCtl

\* Nothing more is said of a configuration that has ended.
LEMMA ConfigEnds ==
  ASSUME ConfigInv, wire = NoCmd, wire' = NoCmd, event' # "ok", UNCHANGED ctl,
         (tries' = 0 => manfCnt' = manfConf'), Released => Released'
  PROVE  ConfigInv'
BY GivenEnds DEF ConfigInv, Live, Ops

\* Steps that change nothing of what the invariant is about.
LEMMA ConfigKept ==
  ASSUME ConfigInv, \A o \in Ops : Given(o)' = Given(o), Live' => Live,
         UNCHANGED <<state, cnt, manfCnt, fwFd, iccmBuf, dccmBuf, confVars>>
  PROVE  ConfigInv'
<1>1. UNCHANGED <<chip, tries, manfConf>>
  BY DEF confVars
<1>2. /\ Released' <=> Released
      /\ Addressed' <=> Addressed
      /\ Unwoken' <=> Unwoken
      /\ Waking' <=> Waking
  BY <1>1 DEF Released, Addressed, Unwoken, Waking, Ops, Downloads
<1>3. Woken' <=> Woken
  BY <1>1, <1>2 DEF Woken, SendsRecords, Family, Ops
<1>4. DownloadingInv => DownloadingInv'
  BY <1>1, <1>2 DEF DownloadingInv, Downloads, Family, Ops
<1>5. WakingInv => WakingInv'
  BY <1>1, <1>2, <1>3 DEF WakingInv, Downloads, SendsRecords, Family, Ops
<1> QED  BY <1>1, <1>2, <1>4, <1>5 DEF ConfigInv, Ops

\* A handler that runs finds its event alone.
Running ==
  /\ ConfigInv /\ DownloadingInv /\ WakingInv /\ tries # 0
  /\ wire = NoCmd /\ event = "ok" /\ event' = "none"
  /\ UNCHANGED <<ctl, confVars, badImage>>

\* An event is dispatched to a handler only while a configuration runs.
LEMMA HandlersRun ==
  ASSUME StackInv, ConfigInv, NEW s, Dispatch(s), UNCHANGED <<ctl, confVars, badImage>>
  PROVE  Running /\ state = s
BY HandlerIsBusy DEF Dispatch, Running, ConfigInv, Live

\* A configuration that ends leaves the claims about a running one to nobody.
LEMMA RunningEnds ==
  ASSUME Running, wire' = NoCmd, Released => Released'
  PROVE  ConfigInv'
BY ConfigEnds DEF Running, confVars

\* What an operation that is no wake-up data and no START_CPU leaves as it was.
LEMMA OthersGiven ==
  ASSUME Running, NEW op \in Ops, NEW arg, wire' = Data(op, arg), arg # {}
  PROVE  /\ Given(op)' # {} /\ Given(op)' = ctl[op] \cup arg
         /\ \A o \in Ops : Given(o) # {} => Given(o)' # {}
         /\ \A o \in Ops \ {op} : Given(o)' = Given(o)
         /\ Addressed => Addressed'
         /\ op \notin {"wake_record", "wake_default"} /\ UNCHANGED manfCnt
              => (Unwoken' <=> Unwoken)
<1>1. \A o \in Ops : Given(o)' = IF o = op THEN ctl[o] \cup arg ELSE Given(o)
  BY GivenPasses DEF Running
<1>2. \A o \in Ops : Given(o) = ctl[o]
  BY DEF Running, Given, NoCmd, Ops
<1>3. \A o \in Ops : Given(o) # {} => Given(o)' # {}
  BY <1>1, <1>2
<1>4. UNCHANGED <<chip, tries, manfConf>>
  BY DEF Running, confVars
<1>5. Addressed => Addressed'
  BY <1>3, <1>4 DEF Addressed, Downloads, Ops
<1>6. op \notin {"wake_record", "wake_default"} /\ UNCHANGED manfCnt
        => (Unwoken' <=> Unwoken)
  BY <1>1, <1>4 DEF Unwoken, Ops
<1> QED  BY <1>1, <1>3, <1>5, <1>6

\* The handlers of the download.
LEMMA DownloadConfig ==
  ASSUME StackInv, ImagesInv, ConfigInv, TypeOK,
         RegisterStep \/ Iccm \/ Dccm \/ CloseEvent \/ StartCpu
  PROVE  ConfigInv'
<1> USE DEF Cmd, Ops
<1>1. ASSUME Running, NEW op \in {"reg", "iccm", "dccm"}, NEW arg, arg # {},
             wire' = Data(op, arg), UNCHANGED manfCnt, Released => Released',
             state \in DownloadStates, state' \in DownloadStates \ {"SET_PARAMS"},
             state' \in Early => Downloads \/ Family = "W2L",
             state' \in {"DCCM"} \cup Late => Downloads,
             state' \in Late => cnt' = 0,
             state' \in Late \ {"CLOSE_EVENT"} => Released'
      PROVE  ConfigInv'
  <2>1. UNCHANGED <<chip, tries, manfConf>>
    BY <1>1 DEF Running, confVars
  <2>2. Given("cpu_start")' = Given("cpu_start") /\ (Unwoken' <=> Unwoken)
    BY <1>1, OthersGiven
  <2>3. Downloads => Unwoken
    BY <1>1 DEF Running, DownloadingInv
  <2>4. DownloadingInv'
    BY <1>1, <2>1, <2>2, <2>3 DEF DownloadingInv, Downloads, Family, Late, Early
  <2>5. WakingInv'
    BY <1>1 DEF WakingInv, DownloadStates
  <2> QED
    BY <1>1, <2>1, <2>2, <2>4, <2>5 DEF ConfigInv, Running
<1>2. CASE RegisterStep
  <2>1. Running
    BY <1>2, HandlersRun DEF RegisterStep, heapVars
  <2>2. UNCHANGED <<cnt, manfCnt, fwFd, iccmBuf, dccmBuf>>
    BY <1>2 DEF RegisterStep, heapVars
  <2>3. UNCHANGED Released
    BY <2>2 DEF Released
  <2>4. CASE Abort
    BY <2>1, <2>3, <2>4, RunningEnds DEF Abort
  <2>5. CASE state' = RegNext[state] /\ wire' = Cmd("reg")
    <3>1. state \in {"TEST_WRITE", "RF_CALIBRATION", "TX_POWER", "FWLOG_OUTPUT",
                     "START_CPU_BEFORE"}
      BY <1>2 DEF RegisterStep, RegNext
    <3>2. \/ state = "TEST_WRITE" /\ state' = "ICCM"
          \/ state \in Late \ {"CLOSE_EVENT"} /\ state' \in Late \ {"CLOSE_EVENT"}
      BY <2>5, <3>1 DEF RegNext, Late
    <3>3. state' = "ICCM" => Downloads \/ Family = "W2L"
      BY <2>1, <3>2 DEF Running, DownloadingInv, Early, Late
    <3>4. state' \in Late => Downloads /\ cnt = 0 /\ Released
      BY <2>1, <3>2 DEF Running, DownloadingInv, Early, Late
    <3> QED
      BY <1>1, <2>1, <2>2, <2>3, <2>5, <3>1, <3>2, <3>3, <3>4
         DEF DownloadStates, Early, Late
  <2> QED  BY <1>2, <2>4, <2>5 DEF RegisterStep, Advance
<1>3. CASE Iccm
  <2>1. Running /\ state = "ICCM"
    BY <1>3, HandlersRun DEF Iccm
  <2>2. UNCHANGED <<manfCnt, fwFd, iccmBuf, dccmBuf>>
    BY <1>3 DEF Iccm
  <2>3. UNCHANGED Released
    BY <2>2 DEF Released
  <2>4. CASE Abort
    BY <2>1, <2>3, <2>4, RunningEnds DEF Abort
  <2>5. CASE ~Sent(lenIccm) /\ ~Abort
    <3> DEFINE n == Least(lenIccm, Chunk)
    <3>1. Downloads
      BY <2>5 DEF ImagesInv, Sent
    <3>2. state' \in {"ICCM", "DCCM"} /\ wire' = Data("iccm", Bytes(offIccm, n))
      BY <1>3, <2>5 DEF Iccm, Advance
    <3>3. Bytes(offIccm, n) # {}
      <4>1. n \in Nat \ {0} /\ offIccm \in Nat
        BY <2>5, ConstantsAssumption DEF TypeOK, ImageType, Sent, Least
      <4>2. offIccm \in Bytes(offIccm, n)
        BY <4>1 DEF Bytes
      <4> QED  BY <4>2
    <3> HIDE DEF n
    <3> QED
      BY <1>1, <2>1, <2>2, <2>3, <3>1, <3>2, <3>3 DEF DownloadStates, Early, Late
  <2> QED  BY <1>3, <2>4, <2>5 DEF Iccm
<1>4. CASE Dccm
  <2>1. Running /\ state = "DCCM"
    BY <1>4, HandlersRun DEF Dccm
  <2>2. UNCHANGED <<manfCnt, fwFd, iccmBuf, dccmBuf>>
    BY <1>4 DEF Dccm
  <2>3. UNCHANGED Released
    BY <2>2 DEF Released
  <2>4. CASE wire' = NoCmd
    BY <2>1, <2>3, <2>4, RunningEnds
  <2>5. CASE wire' # NoCmd
    <3> DEFINE n == Least(lenDccm, Chunk)
    <3>1. Downloads
      BY <2>1 DEF Running, DownloadingInv
    <3>2. /\ ~Sent(lenDccm) /\ wire' = Data("dccm", Bytes(offDccm, n))
          /\ \/ state' = "DCCM"
             \/ state' = "CLOSE_EVENT" /\ cnt' = 0
      BY <1>4, <2>5 DEF Dccm, Advance, Abort
    <3>3. Bytes(offDccm, n) # {}
      <4>1. n \in Nat \ {0} /\ offDccm \in Nat
        BY <3>2, ConstantsAssumption DEF TypeOK, ImageType, Sent, Least
      <4>2. offDccm \in Bytes(offDccm, n)
        BY <4>1 DEF Bytes
      <4> QED  BY <4>2
    <3> HIDE DEF n
    <3> QED
      BY <1>1, <2>1, <2>2, <2>3, <3>1, <3>2, <3>3 DEF DownloadStates, Early, Late
  <2> QED  BY <2>4, <2>5
<1>5. CASE CloseEvent
  <2>1. Running /\ state = "CLOSE_EVENT"
    BY <1>5, HandlersRun DEF CloseEvent
  <2>2. Released' /\ UNCHANGED <<cnt, manfCnt>>
    BY <1>5 DEF CloseEvent, Released
  <2>3. CASE Abort
    BY <2>1, <2>2, <2>3, RunningEnds DEF Abort
  <2>4. CASE state' = "RF_CALIBRATION" /\ wire' = Cmd("reg")
    <3>1. Downloads /\ cnt = 0
      BY <2>1 DEF Running, DownloadingInv, Late
    <3> QED
      BY <1>1, <2>1, <2>2, <2>4, <3>1 DEF DownloadStates, Early, Late
  <2> QED  BY <1>5, <2>3, <2>4 DEF CloseEvent, Advance
<1>6. CASE StartCpu
  <2>1. Running /\ state = "START_CPU"
    BY <1>6, HandlersRun DEF StartCpu, heapVars
  <2>2. UNCHANGED <<cnt, manfCnt, fwFd, iccmBuf, dccmBuf>>
    BY <1>6 DEF StartCpu, heapVars
  <2>3. UNCHANGED Released
    BY <2>2 DEF Released
  <2>4. CASE Abort
    BY <2>1, <2>3, <2>4, RunningEnds DEF Abort
  <2>5. CASE state' = "SET_PARAMS" /\ wire' = Cmd("cpu_start")
    <3>1. Downloads /\ cnt' = 0 /\ Released' /\ Unwoken
      BY <2>1, <2>2, <2>3 DEF Running, DownloadingInv, Late, DownloadStates
    <3>2. UNCHANGED <<chip, tries, manfConf>>
      BY <2>1 DEF Running, confVars
    <3>3. Given("cpu_start")' # {} /\ Unwoken'
      BY <2>1, <2>2, <2>5, <3>1, OthersGiven DEF Data
    <3>4. DownloadingInv' /\ WakingInv'
      BY <2>5, <3>1, <3>2, <3>3
         DEF DownloadingInv, WakingInv, Downloads, Late, Early
    <3> QED
      BY <2>1, <3>1, <3>2, <3>4 DEF ConfigInv, Running
  <2> QED  BY <1>6, <2>4, <2>5 DEF StartCpu, Advance
<1> QED  BY <1>2, <1>3, <1>4, <1>5, <1>6

\* The controller's address, with which the wake-up data begins.
LEMMA SetParamsConfig ==
  ASSUME StackInv, ConfigInv, TypeOK, SetParams
  PROVE  ConfigInv'
<1> USE DEF Cmd, Ops
<1>1. Running /\ state = "SET_PARAMS"
  BY HandlersRun DEF SetParams, heapVars
<1>2. UNCHANGED <<cnt, manfCnt, fwFd, iccmBuf, dccmBuf>>
  BY DEF SetParams, heapVars
<1>3. UNCHANGED Released
  BY <1>2 DEF Released
<1>4. CASE Abort
  BY <1>1, <1>3, <1>4, RunningEnds DEF Abort
<1>5. CASE /\ state' = IF Family = "W1U" THEN "SET_WAVEFORM_DATA" ELSE "SET_BD_ADDR"
           /\ wire' = Cmd("bd_addr")
  <2>1. Downloads /\ cnt' = 0 /\ Released' /\ Unwoken /\ Given("cpu_start") # {}
    BY <1>1, <1>2, <1>3 DEF Running, DownloadingInv, Late, DownloadStates
  <2>2. UNCHANGED <<chip, tries, manfConf>>
    BY <1>1 DEF Running, confVars
  <2>3. Given("bd_addr")' # {} /\ Given("cpu_start")' # {} /\ Unwoken'
    BY <1>1, <1>2, <1>5, <2>1, OthersGiven DEF Data
  <2>4. Addressed'
    BY <2>3 DEF Addressed
  <2>5. chip = <<"W1", "SDIO">> \/ chip = <<"W1U", "SDIO">>
    BY <2>1 DEF Downloads
  <2>6. DownloadingInv' /\ WakingInv'
    BY <1>5, <2>1, <2>2, <2>3, <2>4, <2>5
       DEF DownloadingInv, WakingInv, Downloads, DownloadStates, Late, Early, Family,
           SendsRecords
  <2> QED  BY <1>1, <2>1, <2>2, <2>6 DEF ConfigInv, Running
<1> QED  BY <1>4, <1>5 DEF SetParams, Advance

\* The last command is on its way.
LEMMA LastConfig ==
  ASSUME Running, state' = "SET_MANU_DATA", Woken', tries' # 0,
         Given("cpu_start")' # {} => Released'
  PROVE  ConfigInv'
BY DEF ConfigInv, DownloadingInv, WakingInv, DownloadStates, Early, Late

\* Rows and the default record, of the parts that do not count records.
LEMMA WaveformConfig ==
  ASSUME StackInv, ConfigInv, TypeOK, SetWaveformData
  PROVE  ConfigInv'
<1> USE DEF Cmd, Ops
<1>1. Running /\ state = "SET_WAVEFORM_DATA"
  BY HandlersRun DEF SetWaveformData, heapVars
<1>2. UNCHANGED <<manfCnt, fwFd, iccmBuf, dccmBuf, chip, tries>>
  BY <1>1 DEF SetWaveformData, heapVars, Running, confVars
<1>3. UNCHANGED Released
  BY <1>2 DEF Released
<1>4. CASE Abort \/ Succeed
  BY <1>1, <1>3, <1>4, RunningEnds DEF Abort, Succeed
<1>5. ASSUME NEW op \in {"wake_default", "wake_rows"}, NEW arg, arg # {},
             state' = "SET_MANU_DATA", wire' = Data(op, arg)
      PROVE  ConfigInv'
  <2>1. ~SendsRecords /\ Addressed
    BY <1>1 DEF Running, WakingInv
  <2>2. Given(op)' # {} /\ Addressed' /\ Given("cpu_start")' = Given("cpu_start")
    BY <1>1, <1>5, <2>1, OthersGiven
  <2>3. Woken'
    BY <1>2, <2>1, <2>2 DEF Woken, SendsRecords, Family
  <2>4. Given("cpu_start")' # {} => Released'
    BY <1>1, <1>3, <2>2 DEF Running, ConfigInv
  <2> QED  BY <1>1, <1>2, <1>5, <2>3, <2>4, LastConfig DEF Running
<1>6. manfPara # {} => {r \in manfPara : cnt <= r} # {}
  <2>1. cnt = 0 /\ manfPara \subseteq Rows
    BY <1>1 DEF Running, WakingInv, TypeOK, ConfType
  <2>2. \A r \in manfPara : cnt <= r
    BY <2>1 DEF Rows
  <2> QED  BY <2>2
<1> QED
  BY <1>4, <1>5, <1>6 DEF SetWaveformData, Advance, Data

\* One record, of the parts that count them.
LEMMA RecordConfig ==
  ASSUME StackInv, ConfigInv, TypeOK, SetBdAddr \/ SetWakeupParams
  PROVE  ConfigInv'
<1> USE DEF Cmd, Ops
<1>1. Running /\ UNCHANGED <<fwFd, iccmBuf, dccmBuf>>
  <2>1. CASE SetBdAddr
    BY <2>1, HandlersRun DEF SetBdAddr, heapVars
  <2>2. CASE SetWakeupParams
    BY <2>2, HandlersRun DEF SetWakeupParams, heapVars
  <2> QED  BY <2>1, <2>2
<1>2. PICK stop \in BOOLEAN :
        /\ SendRecord(stop)
        /\ \/ state = "SET_BD_ADDR" /\ stop = (Family = "W1")
           \/ state = "SET_WAKEUP_PARAMS" /\ stop = FALSE
  <2>1. CASE SetBdAddr
    BY <2>1 DEF SetBdAddr, Dispatch
  <2>2. CASE SetWakeupParams
    BY <2>2 DEF SetWakeupParams, Dispatch
  <2> QED  BY <2>1, <2>2
<1>3. UNCHANGED <<chip, tries, manfConf, Released>> /\ tries' # 0
  BY <1>1 DEF Running, confVars, Released
<1>4. CASE Abort
  BY <1>1, <1>3, <1>4, ConfigEnds DEF Running, Abort
<1>5. /\ cnt \in Nat /\ manfCnt \in Nat /\ manfConf \in Nat /\ Addressed
      /\ Given("wake_default") = {} /\ Given("wake_record") = 0 .. cnt - 1
      /\ tries = 1 => manfCnt + cnt = manfConf
      /\ cnt > 0 => manfCnt > 0
  <2>1. cnt \in Int /\ manfCnt \in Nat /\ manfConf \in Nat
    BY DEF TypeOK, ImageType, ConfType
  <2>2. CASE state = "SET_BD_ADDR"
    <3>1. cnt = 0 /\ Addressed /\ Unwoken
      BY <1>1, <2>2 DEF Running, WakingInv
    <3> QED  BY <2>1, <3>1 DEF Unwoken
  <2>3. CASE state = "SET_WAKEUP_PARAMS"
    <3>1. ~Downloads /\ Waking
      BY <1>1, <2>3 DEF Running, WakingInv
    <3> QED  BY <2>1, <3>1 DEF Waking, Addressed
  <2> QED  BY <1>2, <2>2, <2>3
<1>6. Family = "W1" /\ SendsRecords => state = "SET_BD_ADDR" /\ cnt = 0 /\ stop
  <2>1. Family = "W1" /\ SendsRecords => Downloads
    BY DEF SendsRecords, Downloads, Family
  <2>2. state = "SET_WAKEUP_PARAMS" => ~Downloads
    BY <1>1 DEF Running, WakingInv
  <2>3. state = "SET_BD_ADDR" => cnt = 0
    BY <1>1 DEF Running, WakingInv
  <2> QED  BY <1>2, <2>1, <2>2, <2>3
<1>7. Given("cpu_start") # {} => Released'
  BY <1>1, <1>3 DEF Running, ConfigInv
<1>8. CASE manfCnt = 0 /\ ~Abort
  <2>1. state' = "SET_MANU_DATA" /\ wire' = Cmd("wake_default") /\ UNCHANGED manfCnt
    BY <1>2, <1>8 DEF SendRecord, Advance
  <2>2. /\ Given("wake_default")' # {} /\ Addressed'
        /\ Given("wake_record")' = Given("wake_record")
        /\ Given("cpu_start")' = Given("cpu_start")
    BY <1>1, <1>5, <2>1, OthersGiven DEF Data
  <2>3. cnt = 0 /\ Given("wake_record") = {} /\ (tries = 1 => manfConf = 0)
    BY <1>5, <1>8
  <2>4. Woken'
    BY <1>3, <2>2, <2>3 DEF Woken, SendsRecords, Family, Least
  <2> QED  BY <1>1, <1>3, <1>7, <2>1, <2>2, <2>4, LastConfig
<1>9. CASE manfCnt > 0 /\ ~Abort
  <2> DEFINE last == stop \/ manfCnt' = 0
  <2>1. /\ manfCnt' = manfCnt - 1 /\ wire' = Data("wake_record", {cnt})
        /\ cnt' = IF last THEN 0 ELSE cnt + 1
        /\ state' = IF last THEN "SET_MANU_DATA" ELSE state
    BY <1>2, <1>5, <1>9 DEF SendRecord, Advance
  <2>2. /\ Given("wake_record")' = ctl["wake_record"] \cup {cnt} /\ Addressed'
        /\ Given("wake_default")' = Given("wake_default")
        /\ Given("cpu_start")' = Given("cpu_start")
        /\ Given("bd_addr")' # {}
    BY <1>1, <1>5, <2>1, OthersGiven DEF Addressed
  <2>3. ctl["wake_record"] = Given("wake_record")
    BY <1>1 DEF Running, Given, NoCmd
  <2>4. Given("wake_record")' = 0 .. cnt
    <3>1. Given("wake_record")' = (0 .. cnt - 1) \cup {cnt}
      BY <1>5, <2>2, <2>3
    <3>2. (0 .. cnt - 1) \cup {cnt} = 0 .. cnt
      BY <1>5
    <3> QED  BY <3>1, <3>2
  <2>5. CASE last
    <3>1. SendsRecords /\ tries = 1 =>
            cnt + 1 = IF Family = "W1" THEN Least(1, manfConf) ELSE manfConf
      <4>1. CASE Family = "W1"
        BY <1>5, <1>6, <1>9, <4>1 DEF Least
      <4>2. CASE Family # "W1"
        <5>1. manfCnt' = 0
          BY <1>2, <2>5, <4>2
        <5> QED  BY <1>5, <2>1, <4>2, <5>1
      <4> QED  BY <4>1, <4>2
    <3>2. tries = 1 => manfConf # 0
      BY <1>5, <1>9
    <3>3. SendsRecords /\ tries = 1 =>
            Given("wake_record")' = 0 .. (IF Family = "W1" THEN Least(1, manfConf)
                                                           ELSE manfConf) - 1
      <4>1. (cnt + 1) - 1 = cnt
        BY <1>5
      <4> QED  BY <2>4, <3>1, <4>1
    <3>4. Given("wake_record")' # {}
      BY <2>2
    <3>5. Given("wake_default")' = {}
      BY <1>5, <2>2
    <3>6. Woken'
      BY <1>3, <2>2, <3>2, <3>3, <3>4, <3>5 DEF Woken, SendsRecords, Family, Least
    <3> QED  BY <1>1, <1>3, <1>7, <2>1, <2>2, <2>5, <3>6, LastConfig
  <2>6. CASE ~last
    <3>1. state = "SET_WAKEUP_PARAMS" /\ state' = "SET_WAKEUP_PARAMS" /\ ~Downloads'
      <4>1. state = "SET_BD_ADDR" => stop
        <5>1. state = "SET_BD_ADDR" => Family = "W1"
          BY <1>1 DEF Running, WakingInv, Family
        <5> QED  BY <1>2, <5>1
      <4>2. state = "SET_WAKEUP_PARAMS" => ~Downloads
        BY <1>1 DEF Running, WakingInv
      <4> QED  BY <1>2, <1>3, <2>1, <2>6, <4>1, <4>2 DEF Downloads
    <3>2. cnt' = cnt + 1 /\ manfCnt' > 0 /\ manfCnt' + cnt' = manfCnt + cnt
      BY <1>5, <1>9, <2>1, <2>6
    <3>3. Given("wake_record")' = 0 .. cnt' - 1
      BY <1>5, <2>4, <3>2
    <3>4. Waking'
      BY <1>3, <1>5, <2>2, <3>2, <3>3 DEF Waking
    <3>5. DownloadingInv' /\ WakingInv'
      BY <3>1, <3>4 DEF DownloadingInv, WakingInv, DownloadStates, Early, Late
    <3> QED  BY <1>3, <1>7, <2>2, <3>5 DEF ConfigInv
  <2> QED  BY <2>5, <2>6
<1> QED  BY <1>2, <1>4, <1>5, <1>8, <1>9

\* A request begins a configuration, of which nothing has been given yet.
LEMMA RequestConfig ==
  ASSUME StackInv, ConfigInv, TypeOK, HwConfigStart \/ HwConfigQuickStart
  PROVE  ConfigInv'
<1> USE DEF Cmd, Ops, Data
<1>1. /\ wire = NoCmd /\ event' = "none" /\ ctl' = FreshCtl /\ tries' = tries + 1
      /\ tries \in Nat /\ UNCHANGED <<chip, manfCnt, manfConf>>
  BY DEF HwConfigStart, HwConfigQuickStart, Requested, StackInv, IdleIsQuiet, Pending,
     TypeOK, ConfType
<1>2. tries' # 0 /\ (tries' = 1 => manfCnt' = manfConf')
  BY <1>1 DEF ConfigInv
<1>3. /\ wire' = NoCmd => \A o \in Ops : Given(o)' = {}
      /\ \A op \in Ops : wire' = Cmd(op) =>
           \A o \in Ops : Given(o)' = IF o = op THEN {0} ELSE {}
  BY <1>1, GivenFresh DEF NoCmd
<1>4. CASE wire' = NoCmd
  BY <1>1, <1>2, <1>3, <1>4 DEF ConfigInv, Live
<1>5. CASE wire' = Cmd("reset") /\ state' = "SET_MANU_DATA" /\ Downloads
  BY <1>1, <1>2, <1>3, <1>5 DEF ConfigInv, DownloadingInv, WakingInv, DownloadStates,
     Early, Late, Downloads
<1>6. CASE wire' = Cmd("reg") /\ state' = "TEST_WRITE" /\ Downloads
  BY <1>1, <1>2, <1>3, <1>6 DEF ConfigInv, DownloadingInv, WakingInv, Unwoken,
     Early, Late, Downloads
<1>7. CASE /\ wire' = Cmd("bd_addr") /\ cnt' = 0 /\ ~Downloads
           /\ state' = IF Family = "W2" THEN "SET_WAVEFORM_DATA" ELSE "SET_WAKEUP_PARAMS"
  <2>1. ~Downloads' /\ manfCnt' \in Nat /\ manfConf' \in Nat
    BY <1>1, <1>7 DEF Downloads, TypeOK, ConfType
  <2>2. Given("bd_addr")' # {} /\ Given("wake_default")' = {} /\ Given("wake_record")' = {}
    BY <1>3, <1>7
  <2>3. Addressed'
    BY <2>1, <2>2 DEF Addressed
  <2>4. Waking'
    <3>1. cnt' = 0
      BY <1>7
    <3>2. 0 .. cnt' - 1 = {} /\ cnt' >= 0 /\ ~(cnt' > 0)
      BY <3>1
    <3>3. manfCnt' + cnt' = manfCnt'
      <4>1. \A n \in Nat : n + 0 = n
        OBVIOUS
      <4> QED  BY <2>1, <3>1, <4>1
    <3> QED  BY <1>2, <2>2, <3>2, <3>3 DEF Waking
  <2>5. Family = "W2" => ~SendsRecords'
    BY <1>1 DEF Family, SendsRecords
  <2>6. DownloadingInv' /\ WakingInv'
    BY <1>7, <2>1, <2>3, <2>4, <2>5 DEF DownloadingInv, WakingInv, DownloadStates, Early, Late
  <2> QED  BY <1>2, <1>3, <1>7, <2>6 DEF ConfigInv
<1>8. CASE HwConfigQuickStart
  BY <1>1, <1>4, <1>7, <1>8 DEF HwConfigQuickStart, NoBuffer, SendFirst
<1>9. CASE HwConfigStart
  BY <1>1, <1>4, <1>5, <1>6, <1>9 DEF HwConfigStart, NoBuffer, SendFirst, ReadError,
     ReadCrash, ReadImage
<1> QED  BY <1>8, <1>9

\* What a running configuration has already given the controller.
LEMMA ConfigNext ==
  ASSUME StackInv, ImagesInv, ConfigInv, TypeOK, [CoexNext]_vars
  PROVE  ConfigInv'
<1>1. CASE VendorInit
  <2>1. /\ wire' = NoCmd /\ event' = "none" /\ UNCHANGED <<ctl, fwFd, iccmBuf, dccmBuf>>
        /\ manfCnt' = manfConf'
    BY <1>1 DEF VendorInit, heapVars
  <2>2. Given("cpu_start")' \subseteq Given("cpu_start")
    BY <2>1 DEF Given, NoCmd
  <2> QED  BY <2>1, <2>2 DEF ConfigInv, Live, Released
<1>2. CASE Restart
  BY <1>2, GivenFresh DEF Restart, ConfigInv, Live, Ops, NoCmd
<1>3. CASE Cleanup \/ UNCHANGED vars \/ NullChunk
  <2>1. UNCHANGED <<state, cnt, manfCnt, fwFd, iccmBuf, dccmBuf, confVars, wire, event, ctl>>
    BY <1>3 DEF Cleanup, vars, NullChunk, heapVars
  <2>2. \A o \in Ops : Given(o)' = Given(o)
    BY <2>1 DEF Given
  <2> QED  BY <2>1, <2>2, ConfigKept DEF Live
<1>4. CASE ControllerReply
  <2>1. /\ UNCHANGED <<state, cnt, manfCnt, fwFd, iccmBuf, dccmBuf, confVars>>
        /\ Live /\ wire' = NoCmd
    BY <1>4 DEF ControllerReply, heapVars, Live
  <2>2. CASE event' = "ok"
    BY <1>4, <2>1, <2>2, GivenReplies, ConfigKept
  <2>3. CASE event' = "error" /\ UNCHANGED ctl
    <3>1. Given("cpu_start")' \subseteq Given("cpu_start")
      BY <2>1, <2>3 DEF Given, NoCmd
    <3>2. UNCHANGED <<tries, manfConf, Released>>
      BY <2>1 DEF confVars, Released
    <3> QED  BY <2>1, <2>3, <3>1, <3>2 DEF ConfigInv, Live
  <2> QED  BY <1>4, <2>2, <2>3 DEF ControllerReply
<1>5. CASE HwConfigStart \/ HwConfigQuickStart
  BY <1>5, RequestConfig
<1>6. CASE CbackAbort
  <2>1. wire = NoCmd /\ wire' = NoCmd /\ event' # "ok"
    BY <1>6 DEF CbackAbort, Abort, StackInv, OneCommand
  <2>2. UNCHANGED <<ctl, tries, manfCnt, manfConf, Released>>
    BY <1>6 DEF CbackAbort, confVars, heapVars, Released
  <2>3. tries' = 0 => manfCnt' = manfConf'
    BY <2>2 DEF ConfigInv
  <2> QED  BY <2>1, <2>2, <2>3, ConfigEnds
<1>7. CASE RegisterStep \/ Iccm \/ Dccm \/ CloseEvent \/ StartCpu
  BY <1>7, DownloadConfig
<1>8. CASE SetParams
  BY <1>8, SetParamsConfig
<1>9. CASE SetWaveformData
  BY <1>9, WaveformConfig
<1>10. CASE SetBdAddr \/ SetWakeupParams
  BY <1>10, RecordConfig
<1>11. CASE WriteManufacture
  BY <1>11, HandlersRun, RunningEnds
     DEF WriteManufacture, Succeed, heapVars, Released
<1>12. CASE Tx15p4
  <2>1. /\ Family = "W2L" /\ state' = "TEST_WRITE" /\ ~fwFd'
        /\ UNCHANGED <<tries, chip, manfCnt, manfConf, iccmBuf, dccmBuf, wire, event, ctl>>
    BY <1>12 DEF Tx15p4, confVars, heapVars
  <2>2. Given("cpu_start")' = Given("cpu_start") /\ (Live' <=> Live)
    BY <2>1 DEF Given, Live
  <2>3. Released => Released'
    BY <2>1 DEF Released
  <2>4. ~Downloads' /\ Family' = "W2L"
    BY <2>1 DEF Downloads, Family
  <2>5. DownloadingInv' /\ WakingInv'
    BY <2>1, <2>4 DEF DownloadingInv, WakingInv, Early, Late
  <2> QED  BY <2>1, <2>2, <2>3, <2>5 DEF ConfigInv
<1> QED
  BY <1>1, <1>2, <1>3, <1>4, <1>5, <1>6, <1>7, <1>8, <1>9, <1>10, <1>11, <1>12
     DEF CoexNext, Next, HwConfigCback
-----------------------------------------------------------------------------
(***************************************************************************)
(* What a success says.                                                    *)
(***************************************************************************)
\* What a success says it goes on saying while the controller is left alone.
LEMMA SuccessKept ==
  ASSUME \/ Downloads /\ Given("reset") # {}
         \/ Addressed /\ chip = <<"W2", "USB">>
         \/ Woken,
         wire = NoCmd, wire' = NoCmd, UNCHANGED <<ctl, confVars>>
  PROVE  \/ Downloads' /\ Given("reset")' # {}
         \/ Addressed' /\ chip' = <<"W2", "USB">>
         \/ Woken'
<1>1. \A o \in Ops : Given(o)' = Given(o)
  BY GivenEnds
<1>2. UNCHANGED <<chip, tries, manfConf>>
  BY DEF confVars
<1>3. (Addressed' <=> Addressed) /\ (Downloads' <=> Downloads)
  BY <1>1, <1>2 DEF Addressed, Downloads, Ops
<1>4. Woken' <=> Woken
  BY <1>1, <1>2, <1>3 DEF Woken, SendsRecords, Family, Ops
<1> QED  BY <1>1, <1>2, <1>3, <1>4 DEF Ops

\* Only the two handlers that end a configuration report a success, when nothing
\* is in flight any more, and the controller is left alone until the answer is
\* withdrawn by the next request.
LEMMA SuccessNext ==
  ASSUME StackInv, ConfigInv, SuccessInv, [CoexNext]_vars
  PROVE  SuccessInv'
<1> USE DEF SuccessInv
<1>1. CASE VendorInit
  BY <1>1 DEF VendorInit
<1>2. CASE Restart
  BY <1>2 DEF Restart
<1>3. CASE HwConfigStart \/ HwConfigQuickStart
  BY <1>3 DEF HwConfigStart, HwConfigQuickStart, NoBuffer, SendFirst, ReadError,
     ReadCrash, ReadImage
<1>4. CASE UNCHANGED <<fault, wire, event, ctl, confVars, answer>>
  BY <1>4, SuccessKept DEF Pending, Alive
<1>5. CASE Cleanup \/ Tx15p4 \/ UNCHANGED vars
  BY <1>4, <1>5 DEF Cleanup, Tx15p4, vars, heapVars, stackVars
<1>6. CASE ControllerReply
  BY <1>6 DEF ControllerReply, Pending, stackVars
<1>7. CASE CbackAbort
  BY <1>7 DEF CbackAbort, Abort, Pending, stackVars
<1>8. CASE NullChunk
  BY <1>8 DEF NullChunk, Pending, stackVars
<1>9. ASSUME Handled, answer' # "success"
      PROVE  SuccessInv'
  BY <1>9
<1>10. ASSUME Handled, answer' = answer
       PROVE  SuccessInv'
  BY <1>10 DEF Handled, Pending
<1>11. ASSUME Succeed, NEW s, Dispatch(s), UNCHANGED <<ctl, confVars, heapVars>>,
              \/ s = "SET_MANU_DATA"
              \/ s = "SET_WAVEFORM_DATA" /\ chip = <<"W2", "USB">>
       PROVE  SuccessInv'
  <2>1. Running /\ state = s
    BY <1>11, HandlersRun DEF heapVars
  <2>2. \/ Downloads /\ Given("reset") # {}
        \/ Addressed /\ chip = <<"W2", "USB">>
        \/ Woken
    BY <1>11, <2>1 DEF Running, WakingInv
  <2>3. ~Pending' /\ Alive'
    BY <1>11 DEF Succeed, Dispatch, Pending, Alive, heapVars
  <2>4. wire = NoCmd /\ wire' = NoCmd
    BY <1>11, <2>1 DEF Running, Succeed
  <2> QED  BY <1>11, <2>2, <2>3, <2>4, SuccessKept
<1>12. ASSUME NEW next, NEW c, NEW s, Dispatch(s), Advance(next, c) \/ Abort
       PROVE  SuccessInv'
  BY <1>12 DEF Advance, Abort, Dispatch, Pending, stackVars
<1>13. CASE RegisterStep \/ StartCpu \/ SetParams \/ CloseEvent
  BY <1>12, <1>13 DEF RegisterStep, StartCpu, SetParams, CloseEvent
<1>14. CASE Iccm
  BY <1>12, <1>14 DEF Iccm
<1>15. CASE Dccm
  <2>1. CASE UNCHANGED stackVars
    BY <1>15, <2>1 DEF Dccm, Dispatch, Pending, stackVars
  <2> QED  BY <1>12, <1>15, <2>1 DEF Dccm
<1>16. CASE SetWaveformData
  BY <1>11, <1>12, <1>16 DEF SetWaveformData
<1>17. CASE SetBdAddr \/ SetWakeupParams
  BY <1>12, <1>17 DEF SetBdAddr, SetWakeupParams, SendRecord
<1>18. CASE WriteManufacture
  BY <1>11, <1>18 DEF WriteManufacture
<1> QED
  BY <1>1, <1>2, <1>3, <1>5, <1>6, <1>7, <1>8, <1>13, <1>14, <1>15, <1>16, <1>17, <1>18
     DEF CoexNext, Next, HwConfigCback

\* The whole inductive invariant.
CoexInv == TypeOK /\ StackInv /\ ImagesInv /\ HeapInv /\ ConfigInv /\ SuccessInv

\* The strengthenings hold together: each of them is kept by the ones before it.
LEMMA InvariantsHold == CoexSpec => []CoexInv
<1>1. Init => ImagesInv /\ HeapInv /\ ConfigInv /\ SuccessInv
  BY DEF Init, ImagesInv, HeapInv, ConfigInv, SuccessInv, Live, Given,
     FreshCtl, NoCmd, Ops
<1>2. CoexInv /\ [CoexNext]_vars => ImagesInv' /\ HeapInv' /\ ConfigInv' /\ SuccessInv'
  BY ImagesNext, HeapNext, ConfigNext, SuccessNext DEF CoexInv
<1> QED  BY <1>1, <1>2, CoexTypes, StackHolds, PTL DEF CoexSpec, CoexInv

\* The heap of the two images, which an abort leaves as it finds it and
\* hw_get_bin_size fills again, is damaged only in a process that has once read an
\* invalid image header or been refused memory: not by aborts, repeated
\* configurations, cleanup() or 15.4 frames alone.
THEOREM HeapIsSafe == CoexSpec => []HeapSafe
<1>1. CoexInv => HeapSafe
  BY DEF CoexInv, HeapInv, HeapSafe
<1> QED  BY <1>1, InvariantsHold, PTL

\* fwcfg_cb(SUCCESS) means a configured controller: found running and reset, or
\* given its address, started if it is downloaded, and given wake-up data; and a
\* download has released the firmware file and both images by then.
THEOREM SuccessIsConfigured == CoexSpec => []SuccessMeansConfigured
<1>1. ASSUME CoexInv, answer = "success"
      PROVE  /\ \/ Downloads /\ Executed("reset")
                \/ /\ Executed("bd_addr")
                   /\ Downloads => Executed("cpu_start")
                   /\ \/ chip = <<"W2", "USB">>
                      \/ \E op \in {"wake_default", "wake_record", "wake_rows"} : Executed(op)
             /\ Executed("cpu_start") => ~fwFd /\ "live" \notin {iccmBuf, dccmBuf}
  <2>1. \A o \in Ops : Given(o) = ctl[o]
    BY <1>1 DEF CoexInv, SuccessInv, Pending, Given, NoCmd, Ops
  <2>2. Addressed => Executed("bd_addr") /\ (Downloads => Executed("cpu_start"))
    BY <2>1 DEF Addressed, Executed, Ops
  <2>3. Woken => \E op \in {"wake_default", "wake_record", "wake_rows"} : Executed(op)
    BY <2>1 DEF Woken, Executed, Ops
  <2>4. Executed("cpu_start") => Released
    BY <1>1, <2>1 DEF CoexInv, ConfigInv, Executed, Ops
  <2>5. Woken => Addressed
    BY DEF Woken
  <2> QED
    BY <1>1, <2>1, <2>2, <2>3, <2>4, <2>5 DEF CoexInv, SuccessInv, Executed, Released, Ops
<1>2. CoexInv => SuccessMeansConfigured
  BY <1>1 DEF SuccessMeansConfigured
<1> QED  BY <1>2, InvariantsHold, PTL

\* The first successful configuration since init() has given the controller every
\* wake-up record of the configuration file (W1: the first one), and the default
\* record if and only if the file had none.
THEOREM RecordsAreComplete == CoexSpec => []WakeRecordsComplete
<1>1. ASSUME CoexInv, answer = "success", SendsRecords, ~Executed("reset"), tries = 1
      PROVE  /\ ctl["wake_record"] = 0 .. (IF Family = "W1" THEN Least(1, manfConf)
                                                            ELSE manfConf) - 1
             /\ Executed("wake_default") <=> manfConf = 0
  <2>1. \A o \in Ops : Given(o) = ctl[o]
    BY <1>1 DEF CoexInv, SuccessInv, Pending, Given, NoCmd, Ops
  <2>2. chip # <<"W2", "USB">>
    BY <1>1 DEF SendsRecords, Family
  <2>3. Woken
    BY <1>1, <2>1, <2>2 DEF CoexInv, SuccessInv, Executed, Ops
  <2> QED  BY <1>1, <2>1, <2>3 DEF Woken, Executed, Ops
<1>2. CoexInv => WakeRecordsComplete
  BY <1>1 DEF WakeRecordsComplete
<1> QED  BY <1>2, InvariantsHold, PTL

\* Once the first command of a request is out, the library falls silent only
\* through a crash, or on W1U over SDIO, where hw_config_cback takes the -1 of the
\* DCCM handler for TRUE; every other failure is reported.
THEOREM SilenceIsW1U == CoexSpec => NeverFallsSilent
<1> DEFINE Kept == chip # <<"W1U", "SDIO">> /\ phase = "busy" /\ fault' # "crash"
                     => phase' # "mute"
<1>1. ASSUME CoexInv, [CoexNext]_vars, chip # <<"W1U", "SDIO">>, phase = "busy",
             fault' # "crash", phase' = "mute"
      PROVE  FALSE
  <2>1. /\ cbacks /\ waiting /\ Pending /\ Alive
        /\ cbacks' /\ waiting' /\ ~Pending' /\ Alive'
    BY <1>1, PhaseOf, PhaseOfNext DEF Alive
  <2>2. CASE VendorInit \/ Cleanup \/ Restart
    BY <2>1, <2>2 DEF VendorInit, Cleanup, Restart
  <2>3. CASE ControllerReply
    BY <2>1, <2>3 DEF ControllerReply, Pending
  <2>4. CASE HwConfigStart \/ HwConfigQuickStart
    BY <2>1, <2>4 DEF HwConfigStart, HwConfigQuickStart, Requested
  <2>5. CASE CbackAbort
    BY <2>1, <2>5 DEF CbackAbort, Abort
  <2>6. CASE NullChunk
    BY <2>1, <2>6 DEF NullChunk, Alive
  <2>7. CASE Handled
    <3>1. ~Passes /\ ~Answers
      BY <2>1 DEF Passes, Answers, Pending
    <3>2. Family = "W1U" /\ state = "DCCM" /\ event = "ok"
      BY <2>7, <3>1 DEF Handled, Loses
    <3>3. Downloads
      BY <1>1, <3>2 DEF CoexInv, ConfigInv, DownloadingInv, Live
    <3> QED  BY <1>1, <3>2, <3>3 DEF Downloads, Family
  <2>8. CASE Tx15p4 \/ UNCHANGED vars
    BY <2>1, <2>8, FramesAreUnseen DEF Pending
  <2> QED
    BY <1>1, <2>2, <2>3, <2>4, <2>5, <2>6, <2>7, <2>8, HandlersEnd DEF CoexNext, Next
<1>2. ASSUME CoexInv, [CoexNext]_vars PROVE [Kept]_vars
  BY <1>1, <1>2
<1> QED  BY <1>2, InvariantsHold, PTL DEF CoexSpec, NeverFallsSilent
=============================================================================
