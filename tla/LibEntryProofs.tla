-------------------------- MODULE LibEntryProofs ---------------------------
(***************************************************************************)
(* Proofs about LibEntry, for all devices, names and their ids.            *)
(***************************************************************************)
EXTENDS LibEntry, TLAPS

\* What is remembered of a chip: it is that of no device yet, or of one that
\* was shown; and there is a table only between init() and cleanup().
EntryInv ==
  /\ Visible \subseteq seen
  /\ transtype = Unset \/ transtype \in seen
  /\ ~cbacks => table = NoTable
  /\ table # NoTable => table = TableOf(transtype)

\* The results of detection are what the variables say of a chip.
LEMMA Detected ==
  ASSUME Visible \subseteq seen, transtype = Unset \/ transtype \in seen, Detect
  PROVE  transtype' = Unset \/ transtype' \in seen
<1> DEFINE t == ByPersist(transtype)
<1>1. t = Unset \/ t \in seen
  BY DEF ByPersist, Visible
<1>2. CASE t[2] # "unknown"
  BY <1>1, <1>2 DEF Detect
<1>3. CASE t[2] = "unknown"
  <2>1. transtype' \in TranstypeCheck(t)
    BY <1>3 DEF Detect
  <2>2. PICK u \in UsbScan(t) :
          transtype' \in (IF u[2] = "unknown" THEN SdioScan(u) ELSE {u})
    BY <2>1 DEF TranstypeCheck
  <2>3. u = Unset \/ u \in seen
    BY <2>2, <1>1 DEF UsbScan, Torn, Visible
  <2> QED  BY <2>2, <2>3 DEF SdioScan, Torn, Visible
<1> QED  BY <1>2, <1>3

\* amlbt_interface_init has no table for the chip that is none.
LEMMA UnsetHasNoTable == TableOf(Unset) = NoTable
BY DEF TableOf, Unset

\* Every step keeps what is remembered.
LEMMA EntryNext == EntryInv /\ [Next]_vars => EntryInv'
<1> SUFFICES ASSUME EntryInv, [Next]_vars PROVE EntryInv'
  OBVIOUS
<1> USE DEF EntryInv
<1>1. CASE VendorInit
  <2>1. Visible' = Visible /\ seen' = seen /\ table = NoTable
    BY <1>1 DEF VendorInit, world, Visible
  <2>2. CASE UNCHANGED <<transtype, table, cbacks>>
    BY <2>1, <2>2
  <2>3. CASE Detect /\ InterfaceInit
    <3>1. transtype' = Unset \/ transtype' \in seen
      BY <2>3, Detected
    <3>2. table' = TableOf(transtype') \/ table' = NoTable
      BY <2>1, <2>3 DEF InterfaceInit
    <3>3. ~cbacks' => table' = NoTable
      <4> SUFFICES ASSUME transtype'[1] = "other" PROVE table' = NoTable
        BY <2>3 DEF InterfaceInit
      <4>1. TableOf(transtype') = NoTable
        BY DEF TableOf
      <4> QED  BY <4>1, <3>2
    <3> QED  BY <2>1, <3>1, <3>2, <3>3
  <2> QED  BY <1>1, <2>2, <2>3 DEF VendorInit
<1>2. CASE Cleanup
  BY <1>2 DEF Cleanup, world, Visible
<1>3. ASSUME NEW action \in {"on", "off"}, LpmSetMode(action) \/ LpmWakeSetState(action)
      PROVE  EntryInv'
  BY <1>3 DEF LpmSetMode, LpmWakeSetState, world, entry, Visible
<1>4. CASE EpilogProcess \/ EpilogCback \/ GiveUp
  BY <1>4 DEF EpilogProcess, EpilogCback, GiveUp, world, entry, Visible
<1>5. CASE Plug
  BY <1>5 DEF Plug, entry, Visible
<1>6. CASE Crash
  BY <1>6 DEF Crash, Visible
<1>7. CASE UNCHANGED vars
  BY <1>7 DEF vars, world, entry, Visible
<1> QED  BY <1>1, <1>2, <1>3, <1>4, <1>5, <1>6, <1>7 DEF Next

\* The table that op() goes through is that of a chip which this process was
\* shown, whatever is plugged in or taken away and whatever ids there are.
THEOREM ServesAShownChip == Spec => []TableOfChip
<1>1. Init => EntryInv
  BY DEF Init, EntryInv
<1>2. EntryInv => TableOfChip
  BY UnsetHasNoTable DEF EntryInv, TableOfChip
<1> QED  BY <1>1, <1>2, EntryNext, PTL DEF Spec
-----------------------------------------------------------------------------
\* upio_set is the only one that touches the nodes, and it keeps its record.
LEMMA UpioSetKeeps ==
  ASSUME NEW pin \in Pins, NEW action, LastWritten, UpioSet(pin, action),
         upio \in [Pins -> {"unknown", "on", "off"}],
         node \in [Pins -> {"on", "off"}], failed \in [Pins -> BOOLEAN]
  PROVE  LastWritten'
<1>1. CASE UNCHANGED pins
  BY <1>1 DEF pins, LastWritten
<1>2. CASE /\ upio' = [upio EXCEPT ![pin] = action]
           /\ node' = [node EXCEPT ![pin] = action]
           /\ failed' = [failed EXCEPT ![pin] = FALSE]
  BY <1>2 DEF LastWritten
<1>3. CASE /\ upio' = [upio EXCEPT ![pin] = action]
           /\ node' = node
           /\ failed' = [failed EXCEPT ![pin] = TRUE]
  BY <1>3 DEF LastWritten
<1> QED  BY <1>1, <1>2, <1>3 DEF UpioSet

\* The types of the three, which are all that LastWritten is about.
PinTypes ==
  /\ upio \in [Pins -> {"unknown", "on", "off"}]
  /\ node \in [Pins -> {"on", "off"}]
  /\ failed \in [Pins -> BOOLEAN]

\* upio_set records what it writes; the failure of the write is recorded too.
LEMMA PinsNext == PinTypes /\ LastWritten /\ [Next]_vars => PinTypes' /\ LastWritten'
<1> SUFFICES ASSUME PinTypes, LastWritten, [Next]_vars
             PROVE  PinTypes' /\ LastWritten'
  OBVIOUS
<1> USE DEF PinTypes
<1>1. CASE UNCHANGED pins
  BY <1>1 DEF pins, LastWritten
<1>2. ASSUME NEW pin \in Pins, NEW action \in {"on", "off"}, UpioSet(pin, action)
      PROVE  PinTypes' /\ LastWritten'
  <2>1. LastWritten'
    BY <1>2, UpioSetKeeps
  <2>2. PinTypes'
    BY <1>2 DEF UpioSet, pins
  <2> QED  BY <2>1, <2>2
<1>3. CASE /\ upio' = [p \in Pins |-> "unknown"] /\ node' = node
           /\ failed' \in [Pins -> BOOLEAN]
  BY <1>3 DEF LastWritten
<1>4. VendorInit => UNCHANGED pins \/ (UpioInit /\ UNCHANGED <<node, failed>>)
  BY DEF VendorInit, pins
<1>5. ASSUME NEW action \in {"on", "off"}, LpmSetMode(action) \/ LpmWakeSetState(action)
      PROVE  UNCHANGED pins \/ \E pin \in Pins : UpioSet(pin, action)
  BY <1>5 DEF LpmSetMode, LpmWakeSetState, Pins
<1>6. Cleanup \/ EpilogProcess \/ EpilogCback \/ GiveUp \/ Plug => UNCHANGED pins
  BY DEF Cleanup, EpilogProcess, EpilogCback, GiveUp, Plug
<1>7. Crash => /\ upio' = [p \in Pins |-> "unknown"] /\ node' = node
               /\ failed' \in [Pins -> BOOLEAN]
  BY DEF Crash
<1>8. UNCHANGED vars => UNCHANGED pins
  BY DEF vars
<1>9. CASE VendorInit
  BY <1>1, <1>3, <1>4, <1>9 DEF UpioInit
<1>10. ASSUME NEW action \in {"on", "off"}, LpmSetMode(action) \/ LpmWakeSetState(action)
       PROVE  PinTypes' /\ LastWritten'
  BY <1>1, <1>2, <1>5, <1>10
<1> QED  BY <1>1, <1>3, <1>6, <1>7, <1>8, <1>9, <1>10 DEF Next

\* upio_state is what the node last took unless the last write failed, over
\* any number of processes, each of which starts with nothing recorded.
THEOREM RecordIsTrue == Spec => []LastWritten
<1>1. Init => PinTypes /\ LastWritten
  BY DEF Init, PinTypes, LastWritten
<1> QED  BY <1>1, PinsNext, PTL DEF Spec
-----------------------------------------------------------------------------
\* What detection and init() choose from are chips and tables.
LEMMA ChipsAreTyped ==
  /\ Unset \in Interfaces \X Families
  /\ Names \cup {Unset} \subseteq Interfaces \X Families
  /\ \A t \in Interfaces \X Families :
       TableOf(t) \in {NoTable, <<"uart", "W1">>} \cup {"usb", "uart"} \X {"W1U", "W2", "W2L"}
<1>1. Unset \in Interfaces \X Families
  BY DEF Unset, Interfaces, Families
<1>2. ASSUME NEW t \in Interfaces \X Families
      PROVE  TableOf(t) \in {NoTable, <<"uart", "W1">>}
                            \cup {"usb", "uart"} \X {"W1U", "W2", "W2L"}
  <2>1. PICK i \in Interfaces, f \in Families : t = <<i, f>>
    OBVIOUS
  <2>2. t[1] \in Interfaces /\ t[2] \in Families
    BY <2>1
  <2> QED  BY <2>2 DEF TableOf, Families
<1> QED  BY <1>1, <1>2, EntryAssumption DEF EntryAssumption

\* upio_set keeps the types of the pins.
LEMMA UpioSetType ==
  ASSUME PinTypes, NEW pin \in Pins, NEW action \in {"on", "off"},
         UpioSet(pin, action) \/ UNCHANGED pins
  PROVE  PinTypes'
BY DEF PinTypes, UpioSet, pins

\* Every step keeps the types; those of the chip rest on EntryInv, by which it is
\* one that was shown.
LEMMA TypeNext == TypeOK /\ EntryInv /\ [Next]_vars => TypeOK'
<1> SUFFICES ASSUME TypeOK, EntryInv, [Next]_vars PROVE TypeOK'
  OBVIOUS
<1> DEFINE Chips == Interfaces \X Families
           Tables == {NoTable, <<"uart", "W1">>} \cup {"usb", "uart"} \X {"W1U", "W2", "W2L"}
<1>1. TypeOK <=> /\ usb \subseteq UsbIds /\ sdio \subseteq SdioIds
                 /\ name \in Names \cup {Unset} /\ seen \subseteq UsbIds \cup SdioIds \cup Names
                 /\ only15p4 \in BOOLEAN /\ transtype \in Chips /\ table \in Tables
                 /\ PinTypes /\ epilog \in {"idle", "waiting", "over"}
                 /\ cbacks \in BOOLEAN /\ resets \in 0..MaxResets
  BY DEF TypeOK, PinTypes
<1>2. EntryInv'
  BY EntryNext
<1>3. seen' \subseteq UsbIds \cup SdioIds \cup Names => transtype' \in Chips
  BY <1>2, EntryAssumption, ChipsAreTyped DEF EntryInv, EntryAssumption
<1>4. NoTable \in Tables
  OBVIOUS
<1>5. CASE VendorInit
  <2>1. CASE UNCHANGED <<transtype, table, cbacks, upio>>
    BY <1>5, <2>1 DEF VendorInit, LoadConf, TypeOK, world, ending
  <2>2. CASE Detect /\ UpioInit /\ InterfaceInit
    <3>1. /\ UNCHANGED <<usb, sdio, name, seen, node, failed, epilog, resets>>
          /\ only15p4' \in BOOLEAN
      BY <1>5 DEF VendorInit, LoadConf, world, ending
    <3>2. transtype' \in Chips
      BY <1>3, <3>1 DEF TypeOK
    <3>3. table' \in Tables /\ cbacks' \in BOOLEAN
      BY <2>2, <3>2, ChipsAreTyped DEF InterfaceInit, TypeOK
    <3>4. PinTypes'
      BY <2>2, <3>1 DEF UpioInit, PinTypes, TypeOK
    <3> HIDE DEF Tables
    <3> QED  BY <3>1, <3>2, <3>3, <3>4 DEF TypeOK, PinTypes, Tables
  <2> QED  BY <1>5, <2>1, <2>2 DEF VendorInit
<1>6. CASE Cleanup
  BY <1>6, <1>4 DEF Cleanup, TypeOK, world, pins
<1>7. ASSUME NEW action \in {"on", "off"}, LpmSetMode(action) \/ LpmWakeSetState(action)
      PROVE  TypeOK'
  <2>1. PinTypes'
    BY <1>7, UpioSetType DEF LpmSetMode, LpmWakeSetState, Pins, TypeOK, PinTypes
  <2>2. UNCHANGED <<world, entry, ending>>
    BY <1>7 DEF LpmSetMode, LpmWakeSetState
  <2> QED  BY <2>1, <2>2 DEF TypeOK, PinTypes, world, entry, ending
<1>8. CASE EpilogProcess \/ EpilogCback \/ GiveUp
  <2>1. resets' \in 0..MaxResets
    BY <1>8, EntryAssumption
    DEF EntryAssumption, EpilogProcess, EpilogCback, GiveUp, TypeOK
  <2>2. epilog' \in {"idle", "waiting", "over"} /\ UNCHANGED <<world, entry, pins>>
    BY <1>8 DEF EpilogProcess, EpilogCback, GiveUp, TypeOK
  <2> QED  BY <2>1, <2>2 DEF TypeOK, world, entry, pins
<1>9. CASE Plug
  BY <1>9 DEF Plug, TypeOK, Visible, entry, pins, ending
<1>10. CASE Crash
  <2>1. transtype' \in Chips /\ table' \in Tables
    BY <1>4, <1>10, ChipsAreTyped DEF Crash
  <2>2. PinTypes'
    BY <1>10 DEF Crash, TypeOK, PinTypes
  <2>3. resets' \in 0..MaxResets
    BY <1>10, EntryAssumption DEF Crash, EntryAssumption
  <2> HIDE DEF Tables
  <2> QED  BY <1>10, <2>1, <2>2, <2>3 DEF Crash, TypeOK, PinTypes, Visible, Tables
<1>11. CASE UNCHANGED vars
  BY <1>11 DEF vars, world, entry, pins, ending, TypeOK
<1> QED  BY <1>5, <1>6, <1>7, <1>8, <1>9, <1>10, <1>11 DEF Next

\* Every variable has its type; above all, libbt_interface is NULL or one of the
\* seven tables, whatever ids are read from the buses.
THEOREM Typed == Spec => []TypeOK
<1>1. Init => TypeOK
  <2>1. 0 \in 0..MaxResets
    BY EntryAssumption DEF EntryAssumption
  <2> QED  BY <2>1, ChipsAreTyped DEF Init, TypeOK, Visible
<1>2. Init => EntryInv
  BY DEF Init, EntryInv
<1> QED  BY <1>1, <1>2, EntryNext, TypeNext, PTL DEF Spec
=============================================================================
