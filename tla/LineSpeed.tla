----------------------------- MODULE LineSpeed -----------------------------
(***************************************************************************)
(* What aml_uart_init promises to its callers, who only see how it ends:   *)
(* the two ends of the line agree on 4 MBaud, or the host was mistaken, or *)
(* everything is back at 115200 with the power on, unless the power pin    *)
(* failed.  UartInit implements it; VendorOps opens its ports with it.     *)
(***************************************************************************)
VARIABLES
  call,       \* "idle", "moving" while aml_uart_init runs, "done"
  host,       \* speed of the tty
  ctl,        \* speed of the controller's side
  on,         \* the controller has power
  mistaken,   \* the host took something else for the controller's consent
  pinFailed   \* a write to the power pin failed during the call

vars == <<call, host, ctl, on, mistaken, pinFailed>>

Speeds == {"slow", "fast"}

Init ==
  /\ call = "idle" /\ host = "slow" /\ ctl \in Speeds /\ on = TRUE
  /\ mistaken = FALSE /\ pinFailed = FALSE

\* A controller without power forgets its speed.
AnyController ==
  /\ ctl' \in Speeds /\ on' \in BOOLEAN
  /\ on' \/ ctl' = "slow"

Begin ==
  /\ call = "idle" /\ call' = "moving"
  /\ host' = "slow" /\ AnyController
  /\ mistaken' = FALSE /\ pinFailed' = FALSE

\* Speed and power of the controller go up and down; the host's speed does not.
Move ==
  /\ call = "moving" /\ AnyController
  /\ pinFailed' \in {pinFailed, TRUE}
  /\ UNCHANGED <<call, host, mistaken>>

(***************************************************************************)
(* The three ways the call ends.                                           *)
(***************************************************************************)
Agree ==
  /\ host' = "fast" /\ ctl' = "fast" /\ on' = TRUE
  /\ mistaken' = FALSE /\ pinFailed' \in BOOLEAN

Mistake ==
  /\ host' = "fast" /\ AnyController
  /\ mistaken' = TRUE /\ pinFailed' \in BOOLEAN
  /\ on' \/ pinFailed'

GiveUp ==
  /\ host' = "slow" /\ mistaken' = FALSE
  /\ \/ ctl' = "slow" /\ on' = TRUE /\ pinFailed' = FALSE
     \/ AnyController /\ pinFailed' = TRUE

Finish ==
  /\ call = "moving" /\ call' = "done"
  /\ Agree \/ Mistake \/ GiveUp

\* A controller that the last attempt did not reset still obeys the command.
Late ==
  /\ mistaken \/ pinFailed
  /\ on /\ ctl' = "fast"
  /\ UNCHANGED <<host, on, mistaken, pinFailed>>

Close ==
  /\ call = "done" /\ call' = "idle"
  /\ UNCHANGED <<host, ctl, on, mistaken, pinFailed>>

Next ==
  \/ Begin \/ Move \/ Finish \/ Close
  \/ Late /\ UNCHANGED call

\* Every call returns.
Spec == Init /\ [][Next]_vars /\ WF_vars(Finish)
=============================================================================
