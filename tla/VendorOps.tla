----------------------------- MODULE VendorOps -----------------------------
(***************************************************************************)
(* BT_VND_OP_POWER_CTRL, USERIAL_OPEN, USERIAL_CLOSE and LPM_SET_MODE of   *)
(* every chip (interface_uart/ and interface_usb/, with upio.c and         *)
(* userial_vendor.c below them): the power pin, the kernel driver, the     *)
(* files of the process and the speed of the line, over several sessions,  *)
(* a stack process that may die, 15.4 daemons that come and go and a user  *)
(* who shuts the system down.                                              *)
(*                                                                         *)
(* One operation is one step.  aml_uart_init is represented by its result  *)
(* (UartInit) and FW_CFG by whether hw_cfg_cb.state is 0 and whether W1U   *)
(* has opened its node at the end of the download (HwConfig).              *)
(* ioctls that only inform a driver are left out, and so is the 15.4       *)
(* thread (Coex15p4).  The kernel and the daemons are external.            *)
(***************************************************************************)
EXTENDS Naturals, Integers, FiniteSets, FiniteSetsExt

CONSTANTS
  Chips,       \* the <<family, interface>> pairs to consider
  MaxFd,       \* bound: descriptors 1 .. MaxFd exist
  MaxSessions, \* bound: POWER_ON operations
  MaxRepeats   \* bound: FW_CFGs after the first of a session of W1U

\* The parts that libbt.c has an interface for.
Interfaces == {<<"W1", "SDIO">>, <<"W1U", "SDIO">>, <<"W1U", "USB">>,
  <<"W2", "USB">>, <<"W2", "SDIO">>, <<"W2", "PCIE">>,
  <<"W2L", "USB">>, <<"W2L", "SDIO">>}

\* A session and a repeated FW_CFG lose one descriptor at most and a session needs
\* two, so that with this bound First and Second exist: that the process runs out
\* of them is a failing open().
ASSUME OpsAssumption ==
  /\ Chips \subseteq Interfaces
  /\ MaxFd \in Nat /\ MaxSessions \in Nat /\ MaxRepeats \in Nat
  /\ MaxFd > MaxSessions + MaxRepeats

VARIABLES
  chip,        \* amlbt_transtype
  stack,       \* what it did last: "off", "on", "open" or "closed"
  opened,      \* the last USERIAL_OPEN succeeded
  cfg,         \* FW_CFG: "idle", "first" (a state 0 command), "busy", "loaded"
  asked,       \* a FW_CFG came since USERIAL_OPEN
  repeats,     \* the FW_CFGs of W1U after the first of their session
  pin,         \* the rfkill state: the controller has power
  driver,      \* the Bluetooth driver is loaded
  alive,       \* a 15.4 daemon uses the chip
  userReq,     \* sys.shutdown.requested says 0userrequested
  file,        \* what each descriptor of the process refers to
  gUserial, btSdio, vndUserial,  \* g_userial_fd, bt_sdio_fd, vnd_userial.fd
  host, ctl,   \* speed of the tty and of the controller's side
  w1BtPower,   \* w1_bt_power
  btRecovery,  \* bt_recovery
  dirty,       \* the controller holds what a stack configured
  mistaken,    \* aml_uart_init took something else for its consent
  sessions,
  kept,        \* closes that found 15.4 alive, or no coexistence node
  missed,      \* a session ended without a successful aml_uart_init
  pinFailed,   \* the last operation on the pin had a write that failed
  spared       \* the last POWER_OFF let 15.4 have the chip, or saw no node

config == <<cfg, asked, repeats>>
files == <<file, gUserial, btSdio, vndUserial>>
device == <<pin, driver, ctl, dirty, mistaken>>
world == <<alive, userReq>>
process == <<w1BtPower, btRecovery>>
history == <<kept, missed, pinFailed, spared>>
vars == <<chip, stack, opened, config, device, world, files, host, process,
          sessions, history>>

Family == chip[1]
Usb == chip[2] = "USB"
W2LSdio == chip = <<"W2L", "SDIO">>
W1USdio == chip = <<"W1U", "SDIO">>
OwnsPin == chip \in {<<"W1U", "SDIO">>, <<"W2", "SDIO">>, <<"W2", "PCIE">>}

Fds == 1 .. MaxFd
Free == {fd \in Fds : file[fd] = "free"}
First == Min(Free)
Second == Min(Free \ {First})

Init ==
  /\ chip \in Chips
  /\ stack = "off" /\ opened = FALSE
  /\ cfg = "idle" /\ asked = FALSE /\ repeats = 0
  /\ pin \in BOOLEAN /\ driver = FALSE /\ ctl = "slow" /\ dirty = FALSE
  /\ alive \in (IF Family = "W2L" THEN BOOLEAN ELSE {FALSE}) /\ userReq = FALSE
  /\ file = [fd \in Fds |-> "free"]
  /\ gUserial = -1 /\ btSdio = -1 /\ vndUserial = -1
  /\ host = "slow"
  /\ w1BtPower = FALSE /\ btRecovery = -1
  /\ sessions = 0 /\ kept = 0
  /\ missed = FALSE /\ mistaken = FALSE /\ pinFailed = FALSE /\ spared = FALSE
-----------------------------------------------------------------------------
(***************************************************************************)
(* upio.c, and the exit status of the coexistence node.                    *)
(***************************************************************************)

\* upio_set_bluetooth_power, whose result nobody looks at.
PowerDown ==
  \/ /\ pin' = FALSE /\ ctl' = "slow" /\ dirty' = FALSE
     /\ mistaken' = FALSE /\ pinFailed' = FALSE
  \/ pinFailed' = TRUE /\ UNCHANGED <<pin, ctl, dirty, mistaken>>

\* upio_power_get first: a controller that has power keeps its state.
PowerUp ==
  /\ \/ pin /\ UNCHANGED <<pin, pinFailed>>
     \/ ~pin /\ pin' \in BOOLEAN /\ pinFailed' = ~pin'
  /\ UNCHANGED <<ctl, dirty, mistaken>>

\* aml_get_w2l_coex_status: 0, "nobody", if the ioctl fails.
CoexStatus == {alive, FALSE}
-----------------------------------------------------------------------------
(***************************************************************************)
(* POWER_CTRL.                                                             *)
(***************************************************************************)
PowerOnW1 ==
  /\ Family = "W1"
  /\ w1BtPower' = driver
  /\ PowerUp

PowerOnOthers ==
  /\ Family # "W1"
  /\ PowerUp
  /\ UNCHANGED w1BtPower

\* insmod may fail; POWER_ON goes on.
PowerOn ==
  /\ stack = "off" /\ sessions < MaxSessions
  /\ stack' = "on" /\ sessions' = sessions + 1
  /\ PowerOnW1 \/ PowerOnOthers
  /\ driver' \in {driver, TRUE}
  /\ UNCHANGED <<chip, opened, config, world, files, host, btRecovery, kept, missed,
                 spared>>

PowerOffIgnoresUser ==
  /\ OwnsPin
  /\ PowerDown
  /\ spared' = FALSE
PowerOffInverted ==
  /\ OwnsPin
  /\ IF userReq THEN PowerDown
                ELSE UNCHANGED <<pin, ctl, dirty, mistaken, pinFailed>>
  /\ spared' = FALSE

\* The chips that have the pin for themselves.
PowerOffUart ==
  /\ OwnsPin
  /\ IF userReq THEN UNCHANGED <<pin, ctl, dirty, mistaken, pinFailed>>
                ELSE PowerDown
  /\ spared' = FALSE

\* The 15.4 daemons share the chip.
PowerOffW2l ==
  /\ W2LSdio
  /\ \/ /\ userReq \/ TRUE \in CoexStatus
        /\ spared' = ~userReq
        /\ UNCHANGED <<pin, ctl, dirty, mistaken, pinFailed>>
     \/ /\ ~userReq                            \* no coexistence node
        /\ spared' = TRUE
        /\ UNCHANGED <<pin, ctl, dirty, mistaken, pinFailed>>
     \/ /\ ~userReq /\ FALSE \in CoexStatus
        /\ PowerDown
        /\ spared' = FALSE

\* W1 and the chips on USB keep their power.
PowerOffNothing ==
  /\ Usb \/ Family = "W1"
  /\ spared' = FALSE
  /\ UNCHANGED <<pin, ctl, dirty, mistaken, pinFailed>>

\* The stack switches the power off after a session, and may do so before one.
PowerOff ==
  /\ stack \in {"closed", "off"}
  /\ stack' = "off"
  /\ PowerOffUart \/ PowerOffW2l \/ PowerOffNothing
  /\ UNCHANGED <<chip, opened, config, driver, world, files, host, process, sessions,
                 kept, missed>>
-----------------------------------------------------------------------------
(***************************************************************************)
(* USERIAL_OPEN.                                                           *)
(***************************************************************************)
Opening ==
  /\ stack = "on" /\ stack' = "open"
  /\ UNCHANGED <<chip, config, driver, world, process, sessions, kept, spared>>

NoUart == UNCHANGED <<host, pin, ctl, dirty, mistaken, missed, pinFailed>>

OpenFails == opened' = FALSE
OpenSucceeds == opened' = TRUE

\* userial_vendor_open: the tty, at 115200.
OpenUart ==
  /\ gUserial' = First /\ vndUserial' = First

\* aml_uart_init is what LineSpeed says of it (see UartInit).
Line == INSTANCE LineSpeed WITH call <- "done", on <- pin

\* A failed negotiation has cycled the power, others may have.
Negotiate ==
  /\ Line!Agree \/ Line!Mistake \/ Line!GiveUp
  /\ missed' = (missed \/ mistaken' \/ host' = "slow")
  /\ dirty' \in {FALSE, dirty /\ pin'}
  /\ host' = "slow" /\ ~pinFailed' => ~dirty'

Negotiated == host' = "fast"

UartOpenFails ==
  /\ ~Usb /\ ~W2LSdio
  /\ gUserial' = -1 /\ vndUserial' = -1
  /\ UNCHANGED <<file, btSdio, host, pin, ctl, dirty, mistaken, pinFailed>>
  /\ OpenFails /\ missed' = TRUE

UserialOpenW1uIgnores ==
  /\ W1USdio
  /\ OpenUart /\ file' = [file EXCEPT ![First] = "uart"]
  /\ UNCHANGED btSdio
  /\ Negotiate
  /\ OpenSucceeds

\* W1U on SDIO opens the Bluetooth node in FW_CFG (FwDownloaded), not here.
UserialOpenW1u ==
  /\ W1USdio
  /\ OpenUart /\ file' = [file EXCEPT ![First] = "uart"]
  /\ UNCHANGED btSdio
  /\ Negotiate
  /\ opened' = Negotiated

UartAndNode ==
  \/ /\ Negotiated /\ driver
     /\ btSdio' = Second
     /\ file' = [file EXCEPT ![First] = "uart", ![Second] = "bt"]
     /\ OpenSucceeds
  \/ /\ Negotiated /\ btSdio' = -1
     /\ file' = [file EXCEPT ![First] = "uart"]
     /\ OpenFails
  \/ /\ ~Negotiated /\ UNCHANGED btSdio
     /\ file' = [file EXCEPT ![First] = "uart"]
     /\ OpenFails

UserialOpenW2 ==
  /\ chip \in {<<"W2", "SDIO">>, <<"W2", "PCIE">>}
  /\ OpenUart
  /\ Negotiate
  /\ UartAndNode

\* A W1 that was running goes to 4 MBaud without asking, and its node may be
\* missing.
UserialOpenW1 ==
  /\ Family = "W1"
  /\ OpenUart
  /\ \/ /\ ~w1BtPower
        /\ Negotiate
        /\ UartAndNode
     \/ /\ w1BtPower
        /\ host' = "fast"
        /\ \/ driver /\ btSdio' = Second
              /\ file' = [file EXCEPT ![First] = "uart", ![Second] = "bt"]
           \/ btSdio' = -1 /\ file' = [file EXCEPT ![First] = "uart"]
        /\ OpenSucceeds
        /\ UNCHANGED <<pin, ctl, dirty, mistaken, missed, pinFailed>>

\* The UART of W2L is set up unless the daemons use the chip; that it failed is
\* not noticed.
UserialOpenW2l ==
  /\ W2LSdio
  /\ \/ UNCHANGED files /\ OpenFails /\ NoUart           \* no coexistence node
     \/ /\ TRUE \in CoexStatus
        /\ NoUart
        /\ \/ /\ driver /\ btSdio' = First
              /\ file' = [file EXCEPT ![First] = "bt"]
              /\ OpenSucceeds
           \/ btSdio' = -1 /\ UNCHANGED file /\ OpenFails
        /\ UNCHANGED <<gUserial, vndUserial>>
     \/ /\ FALSE \in CoexStatus
        /\ \/ /\ gUserial' = -1 /\ vndUserial' = -1
              /\ UNCHANGED <<file, btSdio>>
              /\ OpenFails /\ NoUart
           \/ /\ OpenUart
              /\ Negotiate
              /\ \/ /\ driver /\ btSdio' = Second
                    /\ file' = [file EXCEPT ![First] = "uart", ![Second] = "bt"]
                    /\ OpenSucceeds
                 \/ /\ btSdio' = -1
                    /\ file' = [file EXCEPT ![First] = "uart"]
                    /\ OpenFails

\* The node of the USB driver; W2L asks the coexistence node first.
UserialOpenUsb ==
  /\ Usb
  /\ \/ /\ driver /\ gUserial' = First
        /\ file' = [file EXCEPT ![First] = "bt"]
        /\ OpenSucceeds
     \/ gUserial' = -1 /\ UNCHANGED file /\ OpenFails
     \/ Family = "W2L" /\ UNCHANGED <<gUserial, file>> /\ OpenFails
  /\ UNCHANGED <<btSdio, vndUserial>> /\ NoUart

UserialOpen ==
  /\ Opening
  /\ \/ UartOpenFails
     \/ UserialOpenW1u \/ UserialOpenW1 \/ UserialOpenW2 \/ UserialOpenW2l
     \/ UserialOpenUsb
-----------------------------------------------------------------------------
(***************************************************************************)
(* FW_CFG and LPM_SET_MODE, while the port is open.                        *)
(***************************************************************************)
Running ==
  /\ stack = "open" /\ opened
  /\ UNCHANGED <<chip, stack, opened, world, host, w1BtPower, sessions, history>>

\* Only the SDIO parts of W1 and W1U begin with a command of state 0.
FwCfg ==
  /\ Running
  /\ cfg' \in (IF W1USdio \/ chip = <<"W1", "SDIO">> THEN {"first", "busy"} ELSE {"busy"})
  /\ asked' = TRUE
  /\ \/ W1USdio /\ asked /\ repeats < MaxRepeats /\ repeats' = repeats + 1
     \/ ~(W1USdio /\ asked) /\ UNCHANGED repeats
  /\ dirty' = TRUE
  /\ UNCHANGED <<files, pin, driver, ctl, mistaken, btRecovery>>

\* The events of a configuration end with its session.
FwCfgGoesOn ==
  /\ Running /\ asked
  /\ \/ cfg = "first" /\ cfg' = "busy"
     \/ cfg # "idle" /\ cfg' = "idle"
  /\ UNCHANGED <<asked, repeats, files, device, btRecovery>>

\* With the last chunk of the image W1U on SDIO opens the Bluetooth node, whether
\* or not an earlier download of the session did, and goes on if there is none.
FwDownloaded ==
  /\ Running /\ asked
  /\ W1USdio /\ cfg = "busy" /\ cfg' = "loaded"
  /\ \/ driver /\ btSdio' = First /\ file' = [file EXCEPT ![First] = "bt"]
     \/ btSdio' = -1 /\ UNCHANGED file
  /\ UNCHANGED <<asked, repeats, gUserial, vndUserial, device, btRecovery>>

\* IOCTL_GET_BT_RECOVERY, which may fail.
LpmDisable ==
  /\ Running
  /\ chip \in {<<"W2", "USB">>, <<"W2L", "USB">>}
  /\ btRecovery' \in {0, 1}
  /\ UNCHANGED <<device, files, config>>
-----------------------------------------------------------------------------
(***************************************************************************)
(* USERIAL_CLOSE.                                                          *)
(***************************************************************************)
CloseFiles(S) == file' = [fd \in Fds |-> IF fd \in S THEN "free" ELSE file[fd]]

\* hw_cfg_cb.state == 0
StateIsZero == cfg \in {"idle", "first"}

ResetsUnlessIdle ==
  CASE Family = "W1" -> ~userReq
    [] chip \in {<<"W2", "USB">>, <<"W2L", "USB">>} -> btRecovery = 0
    [] OTHER -> ~StateIsZero

\* Whether aml_reset_bt is called.  bt_recovery is -1 until LPM_SET_MODE.
Resets ==
  CASE Family = "W1" -> ~userReq
    [] chip \in {<<"W2", "USB">>, <<"W2L", "USB">>} -> btRecovery = 0 /\ StateIsZero
    [] OTHER -> StateIsZero

\* The port is there and the controller has power and listens at this speed.
\* aml_woble_configure, which W1 calls for the user, starts with a reset, too.
Reachable ==
  /\ pin
  /\ IF W2LSdio THEN btSdio # -1
                ELSE gUserial # -1 /\ (Usb \/ host = ctl)
ResetBt ==
  dirty' = (dirty /\ ~((Resets \/ Family = "W1") /\ Reachable))

CloseUartKeepsNode ==
  /\ ~Usb /\ ~W2LSdio
  /\ CloseFiles({vndUserial} \ {-1})
  /\ vndUserial' = -1 /\ gUserial' = -1 /\ btSdio' = -1
  /\ UNCHANGED kept
CloseUartForgets ==
  /\ ~Usb /\ ~W2LSdio
  /\ CloseFiles({btSdio, vndUserial} \ {-1})
  /\ vndUserial' = -1 /\ gUserial' = -1
  /\ UNCHANGED <<btSdio, kept>>

\* userial_vendor_close of a UART.
CloseUart ==
  /\ ~Usb /\ ~W2LSdio
  /\ CloseFiles({btSdio, vndUserial} \ {-1})
  /\ btSdio' = -1
  /\ IF vndUserial = -1 THEN UNCHANGED <<gUserial, vndUserial>>
                        ELSE vndUserial' = -1 /\ gUserial' = -1
  /\ UNCHANGED kept

\* userial_vendor_close on USB; W2L does it by itself.
CloseUsb ==
  /\ Usb
  /\ CloseFiles({gUserial} \ {-1})
  /\ gUserial' = -1
  /\ UNCHANGED <<btSdio, vndUserial, kept>>

\* The UART of W2L is closed only if no daemon uses the chip.
CloseW2l ==
  /\ W2LSdio
  /\ btSdio' = -1
  /\ \/ /\ FALSE \in CoexStatus
        /\ CloseFiles({btSdio, gUserial} \ {-1})
        /\ gUserial' = -1
        /\ UNCHANGED kept
     \/ /\ CloseFiles({btSdio} \ {-1})
        /\ kept' = kept + 1
        /\ UNCHANGED gUserial
  /\ UNCHANGED vndUserial

UserialClose ==
  /\ stack = "open" /\ stack' = "closed"
  /\ ResetBt
  /\ CloseUart \/ CloseUsb \/ CloseW2l
  /\ asked' = FALSE
  /\ UNCHANGED <<chip, opened, cfg, repeats, pin, driver, ctl, mistaken, world, host,
                 process, sessions, missed, pinFailed, spared>>
-----------------------------------------------------------------------------
(***************************************************************************)
(* The rest of the system.                                                 *)
(***************************************************************************)
Elsewhere == UNCHANGED <<chip, stack, opened, config, device, files, host, process,
                         sessions, history>>

\* A 15.4 daemon needs the chip under power, and may start or end at any time.
Daemon ==
  /\ Family = "W2L" /\ alive' = ~alive /\ (alive' => pin)
  /\ UNCHANGED userReq /\ Elsewhere

UserShutdown ==
  /\ ~userReq /\ userReq' = TRUE
  /\ UNCHANGED alive /\ Elsewhere

\* The process dies: its files are closed and its globals are fresh, the
\* controller, the pin and the driver stay as they are.
Crash ==
  /\ stack # "off"
  /\ stack' = "off" /\ opened' = FALSE
  /\ cfg' = "idle" /\ asked' = FALSE /\ repeats' = 0
  /\ file' = [fd \in Fds |-> "free"]
  /\ gUserial' = -1 /\ btSdio' = -1 /\ vndUserial' = -1
  /\ w1BtPower' = FALSE /\ btRecovery' = -1
  /\ missed' = (missed \/ stack = "on")
  /\ kept' = 0 /\ spared' = TRUE
  /\ UNCHANGED <<chip, device, world, host, sessions, pinFailed>>

\* The controller carries out what an earlier aml_uart_init left it with.
LateChange ==
  /\ Line!Late
  /\ UNCHANGED <<chip, stack, opened, config, driver, dirty, world, files, process,
                 sessions, kept, missed, spared>>

Next ==
  \/ PowerOn \/ UserialOpen \/ FwCfg \/ FwCfgGoesOn \/ FwDownloaded \/ LpmDisable
  \/ UserialClose \/ PowerOff
  \/ Daemon \/ UserShutdown \/ Crash \/ LateChange

Spec == Init /\ [][Next]_vars
-----------------------------------------------------------------------------
(***************************************************************************)
(* Properties.                                                             *)
(***************************************************************************)
Speeds == {"slow", "fast"}

TypeOK ==
  /\ chip \in Chips
  /\ stack \in {"off", "on", "open", "closed"} /\ cfg \in {"idle", "first", "busy", "loaded"}
  /\ repeats \in 0 .. MaxRepeats
  /\ file \in [Fds -> {"free", "uart", "bt"}]
  /\ {gUserial, btSdio, vndUserial} \subseteq Fds \cup {-1}
  /\ host \in Speeds /\ ctl \in Speeds
  /\ btRecovery \in {-1, 0, 1}
  /\ sessions \in 0 .. MaxSessions /\ kept \in 0 .. MaxSessions
  /\ {opened, asked, pin, driver, alive, userReq, w1BtPower, dirty, mistaken, missed,
      pinFailed, spared} \subseteq BOOLEAN

\* Whatever failed in a session, USERIAL_CLOSE leaves no file open that no
\* variable names, with two exceptions: W2L on SDIO loses the tty when a 15.4
\* daemon was there at a close and not at the open before or after it, and W1U on
\* SDIO a node with each FW_CFG that it repeats within a session.
FilesAccounted ==
  LET inUse == {fd \in Fds : file[fd] # "free"} IN
  /\ Cardinality(inUse \ {gUserial, btSdio}) <= kept + repeats
  /\ stack # "open" => Cardinality(inUse) <= kept + repeats

\* g_userial_fd and bt_sdio_fd are -1 or name a file of theirs, never a number
\* that was closed and may by now belong to somebody else.
NoStaleDescriptor ==
  /\ gUserial # -1 => file[gUserial] = (IF Usb THEN "bt" ELSE "uart")
  /\ btSdio # -1 => file[btSdio] = "bt"

\* When USERIAL_OPEN hands the tty to the stack, both ends of the line have the
\* same speed, unless aml_uart_init was mistaken.  W1 takes a loaded driver for a
\* controller at 4 MBaud, which is wrong if a negotiation before it failed or was
\* never finished.
SpeedsMatch ==
  stack = "open" /\ opened /\ ~Usb /\ ~W2LSdio =>
    host = ctl \/ mistaken \/ (Family = "W1" /\ missed)

\* A session that ends leaves nothing of itself in a controller that stays on:
\* except when hw_cfg_cb.state was not 0, when W2 or W2L on USB were not asked
\* about bt_recovery before, or when the controller could not be reached: it was
\* off, or its speed in doubt after a negotiation with a mistake or a failing pin.
SessionEndsReset ==
  stack = "closed" /\ opened /\ dirty =>
    \/ cfg \in {"busy", "loaded"}
    \/ chip \in {<<"W2", "USB">>, <<"W2L", "USB">>} /\ btRecovery # 0
    \/ ~pin \/ (~Usb /\ (mistaken \/ pinFailed \/ host # ctl))

\* After POWER_OFF the chips with a pin of their own have no power, unless the
\* user wants to be woken by them, a daemon has them, or the pin failed.
PowerIsCut ==
  stack = "off" /\ sessions > 0 /\ pin /\ ~Usb /\ Family # "W1" =>
    userReq \/ pinFailed \/ spared

\* Once the user has asked for the shutdown no operation leaves a controller
\* that should wake the system without power: POWER_OFF spares it, and the
\* power cycles of aml_uart_init end with the power on.
WakeKeepsPower ==
  [][userReq /\ pin => pin' \/ pinFailed']_vars
=============================================================================
