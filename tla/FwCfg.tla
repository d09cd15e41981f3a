-------------------------------- MODULE FwCfg --------------------------------
(***************************************************************************)
(* What the vendor library promises the Bluetooth stack about              *)
(* BT_VND_OP_FW_CFG, with everything between the operation and its         *)
(* callback abstracted away: an operation is answered by at most one       *)
(* fwcfg_cb, an answer is only given while an operation waits for one, and *)
(* none is given after cleanup().  The library may also go mute, and then  *)
(* it stays mute: the stack has only its own timeout and cleanup() left.   *)
(***************************************************************************)

VARIABLES
  phase,    \* "closed": no callbacks registered; "open"; "busy": FW_CFG waits
            \* for fwcfg_cb; "mute": it waits, and nobody will ever call it
  answer    \* the last fwcfg_cb since the request: "none", "success", "fail"

fvars == <<phase, answer>>

Init == phase = "closed" /\ answer = "none"

Open == phase = "closed" /\ phase' = "open" /\ answer' = "none"

Close == phase # "closed" /\ phase' = "closed" /\ UNCHANGED answer

\* The operation either leaves the request waiting, or reports a failure before
\* it returns, or has already failed to get its first command out.
Request ==
  /\ phase = "open"
  /\ \/ phase' = "busy" /\ answer' = "none"
     \/ phase' = "mute" /\ answer' = "none"
     \/ phase' = "open" /\ answer' = "fail"

Answer(r) == phase = "busy" /\ phase' = "open" /\ answer' = r

FallMute == phase = "busy" /\ phase' = "mute" /\ UNCHANGED answer

Next ==
  \/ Open
  \/ Close
  \/ Request
  \/ \E r \in {"success", "fail"} : Answer(r)
  \/ FallMute

Spec == Init /\ [][Next]_fvars
==============================================================================
