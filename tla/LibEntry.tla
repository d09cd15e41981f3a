----------------------------- MODULE LibEntry ------------------------------
(***************************************************************************)
(* The entry points of the library (bt_vendor_aml.c, libbt.c): how init()  *)
(* finds out which chip it serves and which table of operations op() goes  *)
(* through, and the operations that bt_vendor_aml.c answers by itself,     *)
(* with the functions of hardware.c and upio.c below them: LPM_SET_MODE,   *)
(* LPM_WAKE_SET_STATE and EPILOG.                                          *)
(*                                                                         *)
(* A chip is its <<interface, family>>; the revision decides nothing here. *)
(* A device is represented by the chip its ids spell.  The operations of   *)
(* the tables are VendorOps and HwConfig.  The buses, the persistent       *)
(* property, the stack and the controller are external.                    *)
(***************************************************************************)
EXTENDS Naturals

CONSTANTS
  UsbIds,    \* chips that idVendor and idProduct of a USB device may spell
  SdioIds,   \* the same of a device below mmc_host
  Names,     \* chips that persist.vendor.bt_name may name
  MaxResets  \* bound on the HCI_RESETs of epilogs that wait for their answer

Interfaces == {"SDIO", "USB", "PCIE", "other"}
Families == {"unknown", "W1", "W1U", "W2", "W2L", "other"}
Unset == <<"SDIO", "unknown">>    \* all bits of amlbt_transtype are 0
NoTable == <<"NULL", "NULL">>

ASSUME EntryAssumption ==
  /\ UsbIds \cup SdioIds \cup Names \subseteq Interfaces \X Families
  /\ MaxResets \in Nat

VARIABLES
  usb, sdio,   \* the devices that are plugged in
  name,        \* what the property names, Unset if it names no chip
  seen,        \* what this process has had the occasion to see
  only15p4,    \* amlbt_fw_mode gives the chip to 15.4 alone
  transtype,   \* amlbt_transtype
  table,       \* libbt_interface
  cbacks,      \* bt_vendor_cbacks is not NULL: the last init() returned 0
  upio,        \* upio_state, of the two pins that are used
  node,        \* what /proc/bluetooth/sleep/{lpm, btwrite} last took
  failed,      \* the last write to the node failed
  epilog,      \* the stack's side of EPILOG: "idle", "waiting" or "over"
  resets       \* how many HCI_RESETs are on their way to hw_epilog_cback

world == <<usb, sdio, name, seen>>
entry == <<only15p4, transtype, table, cbacks>>
pins == <<upio, node, failed>>
ending == <<epilog, resets>>
vars == <<world, entry, pins, ending>>

Pins == {"lpm", "wake"}
Visible == usb \cup sdio \cup ({name} \ {Unset})

Init ==
  /\ usb \in SUBSET UsbIds /\ sdio \in SUBSET SdioIds /\ name \in Names \cup {Unset}
  /\ seen = Visible
  /\ only15p4 = FALSE /\ transtype = Unset /\ table = NoTable /\ cbacks = FALSE
  /\ upio = [p \in Pins |-> "unknown"]
  /\ node \in [Pins -> {"on", "off"}]
  /\ failed = [p \in Pins |-> FALSE]
  /\ epilog = "idle" /\ resets = 0
-----------------------------------------------------------------------------
(***************************************************************************)
(* init(): the chip.                                                       *)
(***************************************************************************)
PersistKeepsInterface(t) == IF name = Unset THEN t ELSE <<t[1], name[2]>>

\* amlbt_transtype_check_by_persist
ByPersist(t) == IF name = Unset THEN t ELSE name

\* A device that goes away between the two files that describe it: the vendor
\* is read, and get_key_value returns 0 for the product.
Torn(devices) == IF devices = {} THEN {} ELSE {Unset}

\* scan_aml_usb_devices: the first device in the order of readdir, or none,
\* also because a directory could not be opened.
UsbScan(t) == {t} \cup usb \cup Torn(usb)

\* scan_file_sys and amlbt_sdio_check, likewise.
SdioScan(t) == {t} \cup sdio \cup Torn(sdio)

\* amlbt_transtype_check, which looks on the second bus for what it did not
\* find on the first.
TranstypeCheck(t) ==
  UNION {IF u[2] = "unknown" THEN SdioScan(u) ELSE {u} : u \in UsbScan(t)}

\* A chip that is known stays known: cleanup() does not reset it.
Detect ==
  LET t == ByPersist(transtype) IN
  transtype' \in (IF t[2] = "unknown" THEN TranstypeCheck(t) ELSE {t})
-----------------------------------------------------------------------------
(***************************************************************************)
(* init() and cleanup().                                                   *)
(***************************************************************************)
\* The chips that libbt.c has a table for; all of PCIE has that of W2.
TableOf(t) ==
  CASE t[1] = "USB" /\ t[2] \in {"W1U", "W2", "W2L"} -> <<"usb", t[2]>>
    [] t[1] = "SDIO" /\ t[2] \notin {"unknown", "other"} -> <<"uart", t[2]>>
    [] t[1] = "PCIE" -> <<"uart", "W2">>
    [] OTHER -> NoTable

\* amlbt_interface_init fails for no interface but an unknown one, and leaves
\* the pointer alone when the family has no table.
InterfaceInit ==
  /\ table' = IF TableOf(transtype') = NoTable THEN table ELSE TableOf(transtype')
  /\ cbacks' = (transtype'[1] # "other")

UpioInitOff == upio' = [p \in Pins |-> "off"]
UpioInit == upio' = [p \in Pins |-> "unknown"]

\* load_aml_stack_conf: the mode the file gives, or, without one, that of before.
LoadConf == only15p4' \in BOOLEAN

VendorInit ==
  /\ ~cbacks
  /\ LoadConf
  /\ \/ /\ only15p4'
        /\ UNCHANGED <<transtype, table, cbacks, upio>>
     \/ /\ ~only15p4'
        /\ Detect /\ UpioInit /\ InterfaceInit
  /\ UNCHANGED <<world, node, failed, ending>>

Cleanup ==
  /\ cbacks /\ epilog # "waiting"
  /\ cbacks' = FALSE /\ table' = NoTable /\ epilog' = "idle"
  /\ UNCHANGED <<world, only15p4, transtype, pins, resets>>
-----------------------------------------------------------------------------
(***************************************************************************)
(* upio_set, LPM_SET_MODE and LPM_WAKE_SET_STATE.                          *)
(***************************************************************************)
\* The state is recorded first; then open and write may fail.
UpioSet(pin, action) ==
  IF upio[pin] = action THEN UNCHANGED pins ELSE
  /\ upio' = [upio EXCEPT ![pin] = action]
  /\ \/ /\ node' = [node EXCEPT ![pin] = action]
        /\ failed' = [failed EXCEPT ![pin] = FALSE]
     \/ /\ failed' = [failed EXCEPT ![pin] = TRUE]
        /\ UNCHANGED node

\* The chip's operation returns 0, but the table must be there; hw_lpm_enable
\* does nothing without a buffer, which it does not send.
LpmSetMode(action) ==
  /\ cbacks /\ table # NoTable
  /\ UpioSet("lpm", action) \/ UNCHANGED pins
  /\ UNCHANGED <<world, entry, ending>>

LpmWakeSetState(action) ==
  /\ cbacks
  /\ UpioSet("wake", action)
  /\ UNCHANGED <<world, entry, ending>>
-----------------------------------------------------------------------------
(***************************************************************************)
(* EPILOG.                                                                 *)
(***************************************************************************)
\* Without a buffer the stack is told at once.  The result of xmit_cb is not
\* looked at.  Nothing asks whether the command of an epilog that the stack gave
\* up is still on its way.
EpilogProcess ==
  /\ cbacks /\ epilog = "idle"
  /\ \/ epilog' = "over" /\ UNCHANGED resets
     \/ epilog' = "waiting" /\ UNCHANGED resets
     \/ epilog' = "waiting" /\ resets < MaxResets /\ resets' = resets + 1
  /\ UNCHANGED <<world, entry, pins>>

EpilogCbackNeedsTable ==
  /\ resets > 0 /\ resets' = resets - 1
  /\ epilog' = IF table # NoTable /\ epilog = "waiting" THEN "over" ELSE epilog
  /\ UNCHANGED <<world, entry, pins>>

\* The answer of the controller, to this epilog or to one of before; after
\* cleanup() it goes nowhere.
EpilogCback ==
  /\ resets > 0 /\ resets' = resets - 1
  /\ epilog' = IF cbacks /\ epilog = "waiting" THEN "over" ELSE epilog
  /\ UNCHANGED <<world, entry, pins>>

\* The stack's own timer.
GiveUp ==
  /\ epilog = "waiting" /\ epilog' = "over"
  /\ UNCHANGED <<world, entry, pins, resets>>
-----------------------------------------------------------------------------
(***************************************************************************)
(* The rest of the system.                                                 *)
(***************************************************************************)
Plug ==
  /\ usb' \in SUBSET UsbIds /\ sdio' \in SUBSET SdioIds /\ name' \in Names \cup {Unset}
  /\ seen' = seen \cup Visible'
  /\ UNCHANGED <<entry, pins, ending>>

\* The process dies, for instance in op() through a NULL table or in readdir()
\* of a directory that did not open.
Crash ==
  /\ seen' = Visible
  /\ only15p4' = FALSE /\ transtype' = Unset /\ table' = NoTable /\ cbacks' = FALSE
  /\ upio' = [p \in Pins |-> "unknown"] /\ failed' = [p \in Pins |-> FALSE]
  /\ epilog' = "idle" /\ resets' = 0
  /\ UNCHANGED <<usb, sdio, name, node>>

Next ==
  \/ VendorInit \/ Cleanup
  \/ \E action \in {"on", "off"} : LpmSetMode(action) \/ LpmWakeSetState(action)
  \/ EpilogProcess \/ EpilogCback \/ GiveUp
  \/ Plug \/ Crash

\* A command that was sent is answered, and the stack's thread delivers it.
Spec == Init /\ [][Next]_vars /\ WF_vars(EpilogCback)
-----------------------------------------------------------------------------
(***************************************************************************)
(* Properties.                                                             *)
(***************************************************************************)
TypeOK ==
  /\ usb \subseteq UsbIds /\ sdio \subseteq SdioIds /\ name \in Names \cup {Unset}
  /\ seen \subseteq UsbIds \cup SdioIds \cup Names
  /\ only15p4 \in BOOLEAN
  /\ transtype \in Interfaces \X Families
  /\ table \in {NoTable, <<"uart", "W1">>} \cup {"usb", "uart"} \X {"W1U", "W2", "W2L"}
  /\ upio \in [Pins -> {"unknown", "on", "off"}]
  /\ node \in [Pins -> {"on", "off"}]
  /\ epilog \in {"idle", "waiting", "over"}
  /\ failed \in [Pins -> BOOLEAN] /\ cbacks \in BOOLEAN /\ resets \in 0..MaxResets

\* The table that op() goes through is that of a chip which a bus or the
\* property has shown to this process, however often devices came and went
\* between and during the scans: a chip is never put together from two.
TableOfChip ==
  table # NoTable => transtype \in seen /\ table = TableOf(transtype)

\* upio_set may skip a write that repeats what it recorded: unless the last
\* write failed, the node has the recorded state, also when a process died
\* with the pin asserted.
LastWritten ==
  \A p \in Pins : upio[p] # "unknown" /\ ~failed[p] => node[p] = upio[p]

\* amlbt_interface_init means to fail when the chip is not known, so that after
\* init() has returned 0 op() has a table to go through.
OpHasTable == cbacks => table # NoTable

\* An EPILOG whose command was sent is followed by epilog_cb, also in a library
\* without a table and after an epilog the stack has given up; only one whose
\* command was not sent leaves the stack to its own timer.
EpilogEnds == epilog = "waiting" /\ resets > 0 ~> epilog # "waiting"
=============================================================================
