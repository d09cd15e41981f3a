---------------------------- MODULE HwConfigCoex ----------------------------
(***************************************************************************)
(* The configuration state machine together with the other user of         *)
(* hw_cfg_cb on the W2L chips: the 15.4 socket thread, which sends a       *)
(* client's frame with aml_15p4_tx at any moment once POWER_CTRL has       *)
(* started it, also while BT_VND_OP_FW_CFG is being answered.              *)
(***************************************************************************)
EXTENDS HwConfig

Tx15p4EndsConfig ==
  /\ Alive /\ Family = "W2L"
  /\ state' = "SET_MANU_DATA" /\ fwFd' = FALSE
  /\ UNCHANGED <<cnt, imageVars, heapVars, confVars, manfCnt, cbacks,
                 stackVars, wire, event, owned, ctl>>

\* aml_15p4_tx resets hw_cfg_cb before it looks for a buffer.  The frame itself
\* is answered to aml_15p4_data_cb, not to hw_config_cback.  Only W2L has the
\* thread that calls it.
Tx15p4 ==
  /\ Alive /\ Family = "W2L"
  /\ state' = "TEST_WRITE" /\ fwFd' = FALSE
  /\ UNCHANGED <<cnt, imageVars, heapVars, confVars, manfCnt, cbacks,
                 stackVars, wire, event, owned, ctl>>

CoexNext == Next \/ Tx15p4

\* The controller answers what it is sent, and the HCI layer delivers events.
CoexSpec ==
  /\ Init /\ [][CoexNext]_vars
  /\ WF_vars(ControllerReply) /\ WF_vars(HwConfigCback)
-----------------------------------------------------------------------------
(***************************************************************************)
(* The invariants and action properties of HwConfig are checked of         *)
(* CoexSpec, for all chips and any number of frames: a frame can spoil a   *)
(* configuration of W2L, but cannot lose a buffer or have a spoiled        *)
(* configuration reported as done.  Only DownloadInv does not hold of it:  *)
(* on W2L a frame puts the state of a download beside no download.         *)
(***************************************************************************)

\* If the controller answers, a request waits for ever only if the 15.4 clients go
\* on for ever, too: each of their frames sends the configuration back to its
\* first state, and one before every event keeps it from its end.  Otherwise the
\* request is reported, or the library has gone mute, or the stack has cleaned up.
BusyEnds == (phase = "busy" ~> phase # "busy") \/ []<><<Tx15p4>>_vars

\* The sections of the state enumeration: W2L is configured by the states of
\* "hardware undownload config" and "common end" only, so none of the handlers
\* under "hardware download config" is ever due while a request is waiting.
UndownloadStaysUndownload ==
  waiting /\ Alive => state \in {"SET_WAKEUP_PARAMS", "SET_MANU_DATA"}
=============================================================================
