--------------------------- MODULE VendorOpsProofs ---------------------------
(***************************************************************************)
(* Proofs about the operations of VendorOps: what a session leaves open,   *)
(* what it leaves in the controller, and when the power is on, for every   *)
(* chip, any number of sessions and any number of descriptors.             *)
(***************************************************************************)
EXTENDS VendorOps, FiniteSetTheorems, TLAPS

-----------------------------------------------------------------------------
(***************************************************************************)
(* The inductive invariant.                                                *)
(***************************************************************************)
InUse == {fd \in Fds : file[fd] # "free"}
Uart == ~Usb /\ ~W2LSdio

\* A session closes its files once, so it adds one to kept at most.
KeptInv == kept + (IF stack \in {"on", "open"} THEN 1 ELSE 0) <= sessions

\* The ports: the Bluetooth node is closed with every session, userial_vendor.c
\* keeps the tty under two names, and a port that was handed out is there.
PortInv ==
  /\ stack # "open" \/ Usb => btSdio = -1
  /\ Uart => vndUserial = gUserial
  /\ stack = "open" /\ opened => IF W2LSdio THEN btSdio # -1 ELSE gUserial # -1

\* What this process has open and no variable names.
Unnamed == InUse \ {gUserial, btSdio}

\* A download that is still to end loses the node, if it is open by then: as every
\* FW_CFG but the first of a session is counted before it does, what it may lose
\* is paid for, and before the first there is no node to lose.
MayLose == W1USdio /\ btSdio # -1 /\ cfg \in {"first", "busy"}
NodeInv ==
  /\ Cardinality(Unnamed) + (IF MayLose THEN 1 ELSE 0) <= kept + repeats
  /\ W1USdio /\ ~asked => btSdio = -1

FilesInv == NoStaleDescriptor /\ FilesAccounted /\ PortInv /\ NodeInv

\* A tty is handed out at 4 MBaud only; and W1 takes a driver that is loaded
\* before POWER_ON for a controller at 4 MBaud.
SpeedInv ==
  /\ stack = "open" /\ opened /\ Uart => host = "fast"
  /\ Family = "W1" /\ (w1BtPower \/ (driver /\ stack # "on"))
       => ctl = "fast" \/ mistaken \/ missed
-----------------------------------------------------------------------------
(***************************************************************************)
(* Descriptors.                                                            *)
(***************************************************************************)
\* The least descriptor, which open() returns, is one of those that are free.
LEMMA LeastIsMember ==
  ASSUME NEW S \in SUBSET Nat, S # {}
  PROVE  Min(S) \in S
<1>1. \E x \in S : \A y \in S : ~(<<y, x>> \in OpToRel(<, Nat))
  BY NatLessThanWellFounded, WFMin
<1>2. PICK x \in S : \A y \in S : ~(y < x)
  BY <1>1 DEF OpToRel
<1>3. \A y \in S : x <= y
  BY <1>2
<1> QED  BY <1>3 DEF Min

\* A subset of a finite set is finite and no larger.
LEMMA Fewer ==
  ASSUME NEW T, IsFiniteSet(T), NEW S \in SUBSET T
  PROVE  /\ IsFiniteSet(S) /\ Cardinality(S) \in Nat /\ Cardinality(T) \in Nat
         /\ Cardinality(S) <= Cardinality(T)
BY FS_Subset, FS_CardinalityType

\* The descriptors of a process.
LEMMA FdsAreFinite == IsFiniteSet(Fds) /\ Cardinality(Fds) = MaxFd /\ Fds \subseteq Nat
BY OpsAssumption, FS_Interval DEF OpsAssumption, Fds

\* The descriptors in use can be counted.
LEMMA InUseIsFinite == InUse \subseteq Fds /\ IsFiniteSet(InUse) /\ Cardinality(InUse) \in Nat
<1>1. InUse \in SUBSET Fds
  BY DEF InUse
<1> QED  BY <1>1, FdsAreFinite, Fewer

\* The least free descriptor, and one after it if two are free.
LEMMA FreeDescriptors ==
  /\ Cardinality(InUse) < MaxFd => First \in Free
  /\ Cardinality(InUse) + 1 < MaxFd => Second \in Free /\ Second # First
<1>1. MaxFd \in Nat /\ Cardinality(InUse) \in Nat /\ IsFiniteSet(InUse)
  BY OpsAssumption, InUseIsFinite DEF OpsAssumption
<1>2. ASSUME Free = {}
      PROVE  ~(Cardinality(InUse) < MaxFd)
  <2>1. InUse = Fds
    BY <1>2 DEF Free, InUse
  <2> QED  BY <1>1, <2>1, FdsAreFinite
<1>3. ASSUME NEW fd, Free \subseteq {fd}
      PROVE  ~(Cardinality(InUse) + 1 < MaxFd)
  <2>1. Fds \subseteq InUse \cup {fd}
    BY <1>3 DEF Free, InUse
  <2>2. /\ IsFiniteSet(InUse \cup {fd})
        /\ Cardinality(InUse \cup {fd}) \in {Cardinality(InUse), Cardinality(InUse) + 1}
    BY <1>1, FS_AddElement
  <2>3. Cardinality(Fds) <= Cardinality(InUse \cup {fd}) /\ Cardinality(InUse \cup {fd}) \in Nat
    BY <2>1, <2>2, Fewer
  <2> QED  BY <1>1, <2>2, <2>3, FdsAreFinite
<1>4. Free \in SUBSET Nat
  BY FdsAreFinite DEF Free
<1>5. Cardinality(InUse) < MaxFd => First \in Free
  BY <1>2, <1>4, LeastIsMember DEF First
<1>6. ASSUME Cardinality(InUse) + 1 < MaxFd
      PROVE  Second \in Free /\ Second # First
  <2>1. Free \ {First} \in SUBSET Nat /\ Free \ {First} # {}
    BY <1>3, <1>4, <1>6
  <2>2. Second \in Free \ {First}
    BY <2>1, LeastIsMember DEF Second
  <2> QED  BY <2>2
<1> QED  BY <1>5, <1>6

\* Before USERIAL_OPEN no session and no repeated FW_CFG of this process has left
\* more than one descriptor open, so two are free.
LEMMA NewDescriptors ==
  ASSUME TypeOK, KeptInv, FilesInv, stack = "on"
  PROVE  First \in Fds /\ Second \in Fds /\ First # Second
         /\ file[First] = "free" /\ file[Second] = "free"
<1>1. Cardinality(InUse) <= kept + repeats
  BY DEF FilesInv, FilesAccounted, InUse
<1>2. /\ kept + 1 <= sessions /\ sessions \in 0 .. MaxSessions /\ kept \in Nat
      /\ repeats \in 0 .. MaxRepeats
  BY DEF KeptInv, TypeOK
<1>3. Cardinality(InUse) + 1 < MaxFd /\ Cardinality(InUse) < MaxFd
  BY <1>1, <1>2, InUseIsFinite, OpsAssumption DEF OpsAssumption
<1> QED  BY <1>3, FreeDescriptors DEF Free

\* A download that ends finds a descriptor for the node.
LEMMA NodeDescriptor ==
  ASSUME TypeOK, KeptInv, FilesInv, FwDownloaded
  PROVE  First \in Fds /\ file[First] = "free"
<1>1. /\ kept + 1 <= sessions /\ sessions \in 0 .. MaxSessions /\ kept \in Nat
      /\ repeats \in 0 .. MaxRepeats
  BY DEF KeptInv, TypeOK, FwDownloaded, Running
<1>2. Cardinality(Unnamed) + (IF btSdio # -1 THEN 1 ELSE 0) <= kept + repeats
  BY DEF FilesInv, NodeInv, MayLose, FwDownloaded
<1>3. Unnamed \in SUBSET InUse /\ IsFiniteSet(Unnamed) /\ Cardinality(Unnamed) \in Nat
  <2>1. Unnamed \in SUBSET InUse
    BY DEF Unnamed
  <2> QED  BY <2>1, InUseIsFinite, Fewer
<1>4. /\ IsFiniteSet(Unnamed \cup {gUserial})
      /\ Cardinality(Unnamed \cup {gUserial})
           \in {Cardinality(Unnamed), Cardinality(Unnamed) + 1}
  BY <1>3, FS_AddElement
<1>5. Cardinality(InUse) <= kept + repeats + 1
  <2>1. CASE btSdio = -1
    <3>1. InUse \subseteq Unnamed \cup {gUserial}
      BY <2>1, FdsAreFinite DEF Unnamed, InUse
    <3>2. Cardinality(InUse) <= Cardinality(Unnamed \cup {gUserial})
          /\ Cardinality(Unnamed \cup {gUserial}) \in Nat
      BY <3>1, <1>4, Fewer
    <3> QED  BY <1>1, <1>2, <1>3, <1>4, <2>1, <3>2, InUseIsFinite
  <2>2. CASE btSdio # -1
    <3>1. InUse \subseteq (Unnamed \cup {gUserial}) \cup {btSdio}
      BY DEF Unnamed
    <3>2. /\ IsFiniteSet((Unnamed \cup {gUserial}) \cup {btSdio})
          /\ Cardinality((Unnamed \cup {gUserial}) \cup {btSdio})
               \in {Cardinality(Unnamed \cup {gUserial}), Cardinality(Unnamed \cup {gUserial}) + 1}
      BY <1>4, FS_AddElement
    <3>3. Cardinality(InUse) <= Cardinality((Unnamed \cup {gUserial}) \cup {btSdio})
          /\ Cardinality((Unnamed \cup {gUserial}) \cup {btSdio}) \in Nat
      BY <3>1, <3>2, Fewer
    <3> QED  BY <1>1, <1>2, <1>3, <1>4, <2>2, <3>2, <3>3, InUseIsFinite
  <2> QED  BY <2>1, <2>2
<1>6. Cardinality(InUse) < MaxFd
  BY <1>1, <1>5, InUseIsFinite, OpsAssumption DEF OpsAssumption
<1> QED  BY <1>6, FreeDescriptors DEF Free
-----------------------------------------------------------------------------
(***************************************************************************)
(* The operations on files.                                                *)
(***************************************************************************)
\* Who leaves what of USERIAL_OPEN.
OpenNothing ==
  /\ UNCHANGED file /\ btSdio' \in {btSdio, -1} /\ ~opened'
  /\ gUserial' \in {gUserial, -1} /\ vndUserial' \in {vndUserial, -1}
  /\ Uart => gUserial' = -1 /\ vndUserial' = -1
OpenTty ==
  /\ ~Usb /\ file' = [file EXCEPT ![First] = "uart"]
  /\ gUserial' = First /\ vndUserial' = First /\ btSdio' \in {btSdio, -1}
  /\ W2LSdio => ~opened'
OpenTtyAndNode ==
  /\ ~Usb /\ ~W1USdio /\ file' = [file EXCEPT ![First] = "uart", ![Second] = "bt"]
  /\ gUserial' = First /\ vndUserial' = First /\ btSdio' = Second
OpenNode ==
  /\ W2LSdio /\ file' = [file EXCEPT ![First] = "bt"]
  /\ btSdio' = First /\ UNCHANGED <<gUserial, vndUserial>>
OpenUsbNode ==
  /\ Usb /\ file' = [file EXCEPT ![First] = "bt"]
  /\ gUserial' = First /\ UNCHANGED <<btSdio, vndUserial>>

\* The interface of the chip decides what USERIAL_OPEN opens.
LEMMA OpenEnds ==
  ASSUME TypeOK, UserialOpen
  PROVE  /\ UNCHANGED <<chip, kept, sessions, cfg, asked, repeats>> /\ stack = "on" /\ stack' = "open"
         /\ OpenNothing \/ OpenTty \/ OpenTtyAndNode \/ OpenNode \/ OpenUsbNode
<1>1. UNCHANGED <<chip, kept, sessions, cfg, asked, repeats>> /\ stack = "on"
      /\ stack' = "open"
  BY DEF UserialOpen, Opening, config
<1>2. chip \in Interfaces
  BY OpsAssumption DEF OpsAssumption, TypeOK
<1> SUFFICES OpenNothing \/ OpenTty \/ OpenTtyAndNode \/ OpenNode \/ OpenUsbNode
  BY <1>1
<1>3. CASE UartOpenFails
  BY <1>3 DEF UartOpenFails, OpenNothing, Uart, OpenFails
<1>4. CASE UserialOpenW1u
  BY <1>4 DEF UserialOpenW1u, OpenUart, OpenTty, Usb, W2LSdio, W1USdio
<1>5. CASE UserialOpenW2
  BY <1>5 DEF UserialOpenW2, OpenUart, UartAndNode, OpenTty, OpenTtyAndNode, Usb, W2LSdio,
     W1USdio
<1>6. CASE UserialOpenW1
  <2>1. ~Usb /\ ~W2LSdio /\ ~W1USdio
    BY <1>2, <1>6 DEF UserialOpenW1, Family, Usb, W2LSdio, W1USdio, Interfaces
  <2> QED
    BY <1>6, <2>1 DEF UserialOpenW1, OpenUart, UartAndNode, OpenTty, OpenTtyAndNode
<1>7. CASE UserialOpenW2l
  <2>1. ~Usb /\ ~Uart /\ W2LSdio /\ ~W1USdio
    BY <1>7 DEF UserialOpenW2l, Uart, Usb, W2LSdio, W1USdio
  <2> QED
    BY <1>7, <2>1 DEF UserialOpenW2l, OpenUart, OpenTty, OpenTtyAndNode, OpenNode,
       OpenNothing, OpenFails, files
<1>8. CASE UserialOpenUsb
  BY <1>8 DEF UserialOpenUsb, OpenUsbNode, OpenNothing, OpenFails, Uart
<1> QED
  BY <1>3, <1>4, <1>5, <1>6, <1>7, <1>8 DEF UserialOpen

FilesType ==
  /\ file \in [Fds -> {"free", "uart", "bt"}]
  /\ {gUserial, btSdio, vndUserial} \subseteq Fds \cup {-1}

\* USERIAL_OPEN finds nothing of its own open, and names what it opens.
LEMMA OpenKeepsFiles ==
  ASSUME TypeOK, KeptInv, FilesInv, UserialOpen
  PROVE  FilesInv' /\ FilesType'
<1>1. /\ First \in Fds /\ Second \in Fds /\ First # Second
      /\ file[First] = "free" /\ file[Second] = "free"
  BY NewDescriptors, OpenEnds
<1>2. FilesType
  BY DEF TypeOK, FilesType
<1>3. /\ UNCHANGED <<chip, kept, repeats>> /\ stack' = "open" /\ stack = "on"
      /\ btSdio = -1 /\ -1 \notin Fds
  BY OpenEnds, FdsAreFinite DEF FilesInv, PortInv
<1>4. gUserial # -1 => file[gUserial] = (IF Usb THEN "bt" ELSE "uart")
  BY DEF FilesInv, NoStaleDescriptor
<1>5. W2LSdio => ~Usb /\ ~Uart
  BY DEF W2LSdio, Usb, Uart
<1>6. (Usb' <=> Usb) /\ (Uart' <=> Uart) /\ (W2LSdio' <=> W2LSdio)
  BY <1>3 DEF Usb, Uart, W2LSdio
<1> DEFINE Goal == FilesType' /\ NoStaleDescriptor' /\ PortInv' /\ Unnamed' \subseteq InUse
<1>7. ASSUME OpenNothing PROVE Goal
  BY <1>2, <1>3, <1>4, <1>5, <1>6, <1>7
     DEF OpenNothing, FilesType, NoStaleDescriptor, PortInv, FilesInv, Unnamed, InUse
<1>8. ASSUME OpenTty PROVE Goal
  BY <1>1, <1>2, <1>3, <1>5, <1>6, <1>8
     DEF OpenTty, FilesType, NoStaleDescriptor, PortInv, Unnamed, InUse
<1>9. ASSUME OpenTtyAndNode PROVE Goal
  BY <1>1, <1>2, <1>3, <1>5, <1>6, <1>9
     DEF OpenTtyAndNode, FilesType, NoStaleDescriptor, PortInv, Unnamed, InUse
<1>10. ASSUME OpenNode PROVE Goal
  BY <1>1, <1>2, <1>3, <1>4, <1>5, <1>6, <1>10
     DEF OpenNode, FilesType, NoStaleDescriptor, PortInv, Unnamed, InUse
<1>11. ASSUME OpenUsbNode PROVE Goal
  BY <1>1, <1>2, <1>3, <1>5, <1>6, <1>11
     DEF OpenUsbNode, FilesType, NoStaleDescriptor, PortInv, Unnamed, InUse, Uart
<1>12. Goal
  BY <1>7, <1>8, <1>9, <1>10, <1>11, OpenEnds
<1>13. Cardinality(Unnamed') <= kept + repeats
  <2>1. Cardinality(InUse) <= kept + repeats /\ kept \in Nat /\ repeats \in Nat
    BY <1>3 DEF FilesInv, FilesAccounted, InUse, TypeOK
  <2>2. Cardinality(Unnamed') <= Cardinality(InUse) /\ Cardinality(Unnamed') \in Nat
    BY <1>12, InUseIsFinite, Fewer
  <2> QED  BY <2>1, <2>2, InUseIsFinite
<1>14. FilesAccounted'
  BY <1>3, <1>13 DEF FilesAccounted, Unnamed, InUse
<1>15. NodeInv'
  <2>1. W1USdio' => ~Usb /\ ~W2LSdio
    BY <1>3 DEF W1USdio, Usb, W2LSdio
  <2>2. W1USdio' => btSdio' = -1
    BY <1>3, <2>1, OpenEnds
       DEF OpenNothing, OpenTty, OpenTtyAndNode, OpenNode, OpenUsbNode, W1USdio
  <2>3. MayLose' = FALSE
    BY <2>2 DEF MayLose
  <2>4. Cardinality(Unnamed') \in Nat
    BY <1>12, InUseIsFinite, Fewer
  <2> QED  BY <1>3, <1>13, <2>2, <2>3, <2>4 DEF NodeInv
<1> QED  BY <1>12, <1>14, <1>15 DEF FilesInv

\* USERIAL_CLOSE closes what is named, or counts what it leaves.
LEMMA CloseKeepsFiles ==
  ASSUME TypeOK, FilesInv, UserialClose
  PROVE  FilesInv' /\ FilesType' /\ kept' \in {kept, kept + 1}
<1>1. /\ UNCHANGED <<chip, repeats>> /\ stack' = "closed" /\ stack = "open" /\ -1 \notin Fds
      /\ (Usb' <=> Usb) /\ (Uart' <=> Uart) /\ (W2LSdio' <=> W2LSdio)
  BY FdsAreFinite DEF UserialClose, Usb, Uart, W2LSdio
<1>2. FilesType /\ NoStaleDescriptor /\ PortInv
  BY DEF TypeOK, FilesType, FilesInv
<1>3. Cardinality(Unnamed) <= kept + repeats /\ kept \in Nat /\ repeats \in Nat
  BY DEF FilesInv, FilesAccounted, Unnamed, InUse, TypeOK
<1>4. IsFiniteSet(Unnamed) /\ Cardinality(Unnamed) \in Nat
  <2>1. Unnamed \in SUBSET InUse
    BY DEF Unnamed
  <2> QED  BY <2>1, InUseIsFinite, Fewer
<1> DEFINE Goal == FilesType' /\ NoStaleDescriptor' /\ PortInv'
<1>5. ASSUME CloseUart PROVE Goal /\ InUse' \subseteq Unnamed /\ kept' = kept
  BY <1>1, <1>2, <1>5
     DEF CloseUart, CloseFiles, FilesType, NoStaleDescriptor, PortInv, Unnamed, InUse, Uart
<1>6. ASSUME CloseUsb PROVE Goal /\ InUse' \subseteq Unnamed /\ kept' = kept
  BY <1>1, <1>2, <1>6
     DEF CloseUsb, CloseFiles, FilesType, NoStaleDescriptor, PortInv, Unnamed, InUse, Uart
<1>7. ASSUME CloseW2l
      PROVE  /\ Goal
             /\ \/ InUse' \subseteq Unnamed /\ kept' = kept
                \/ InUse' \subseteq Unnamed \cup {gUserial} /\ kept' = kept + 1
  <2>1. ~Usb /\ ~Uart
    BY <1>7 DEF CloseW2l, W2LSdio, Usb, Uart
  <2> QED
    BY <1>1, <1>2, <1>7, <2>1
       DEF CloseW2l, CloseFiles, FilesType, NoStaleDescriptor, PortInv, Unnamed, InUse
<1>8. Goal /\ \/ InUse' \subseteq Unnamed /\ kept' = kept
              \/ InUse' \subseteq Unnamed \cup {gUserial} /\ kept' = kept + 1
  BY <1>5, <1>6, <1>7 DEF UserialClose
<1>9. Cardinality(InUse') <= kept' + repeats /\ IsFiniteSet(InUse') /\ Cardinality(InUse') \in Nat
  <2>1. CASE InUse' \subseteq Unnamed /\ kept' = kept
    <3>1. Cardinality(InUse') <= Cardinality(Unnamed) /\ Cardinality(InUse') \in Nat
          /\ IsFiniteSet(InUse')
      BY <1>4, <2>1, Fewer
    <3> QED  BY <1>3, <1>4, <2>1, <3>1
  <2>2. CASE InUse' \subseteq Unnamed \cup {gUserial} /\ kept' = kept + 1
    <3>1. /\ IsFiniteSet(Unnamed \cup {gUserial})
          /\ Cardinality(Unnamed \cup {gUserial})
               \in {Cardinality(Unnamed), Cardinality(Unnamed) + 1}
      BY <1>4, FS_AddElement
    <3>2. /\ Cardinality(InUse') <= Cardinality(Unnamed \cup {gUserial})
          /\ Cardinality(InUse') \in Nat /\ IsFiniteSet(InUse')
      BY <2>2, <3>1, Fewer
    <3> QED  BY <1>3, <1>4, <2>2, <3>1, <3>2
  <2> QED  BY <1>8, <2>1, <2>2
<1>10. Cardinality(Unnamed') <= kept' + repeats /\ Cardinality(Unnamed') \in Nat
  <2>1. Unnamed' \in SUBSET InUse'
    BY DEF Unnamed
  <2>2. Cardinality(Unnamed') <= Cardinality(InUse') /\ Cardinality(Unnamed') \in Nat
    BY <1>9, <2>1, Fewer
  <2> QED  BY <1>3, <1>8, <1>9, <2>2
<1>11. FilesAccounted'
  BY <1>1, <1>9, <1>10 DEF FilesAccounted, Unnamed, InUse
<1>12. NodeInv'
  <2>1. W1USdio' => ~Usb /\ ~W2LSdio
    BY <1>1 DEF W1USdio, Usb, W2LSdio
  <2>2. W1USdio' => btSdio' = -1
    BY <2>1 DEF UserialClose, CloseUart, CloseUsb, CloseW2l
  <2>3. MayLose' = FALSE
    BY <2>2 DEF MayLose
  <2> QED  BY <1>1, <1>3, <1>8, <1>10, <2>2, <2>3 DEF NodeInv
<1> QED  BY <1>2, <1>8, <1>11, <1>12 DEF FilesInv

\* The end of a download adds a file, and with the node of an earlier download loses
\* no more than was paid for.
LEMMA DownloadKeepsFiles ==
  ASSUME TypeOK, KeptInv, FilesInv, FwDownloaded
  PROVE  FilesInv' /\ FilesType' /\ kept' = kept
<1>1. First \in Fds /\ file[First] = "free" /\ -1 \notin Fds
  BY NodeDescriptor, FdsAreFinite
<1>2. /\ W1USdio /\ ~Usb /\ Uart /\ ~W2LSdio /\ stack = "open" /\ asked
      /\ UNCHANGED <<chip, stack, opened, kept, repeats, asked, gUserial, vndUserial>>
      /\ cfg = "busy" /\ cfg' = "loaded"
  BY DEF FwDownloaded, Running, history, W1USdio, Usb, Uart, W2LSdio
<1>3. /\ W1USdio' /\ ~Usb' /\ Uart' /\ ~W2LSdio'
  BY <1>2 DEF W1USdio, Usb, Uart, W2LSdio
<1>4. \/ btSdio' = First /\ file' = [file EXCEPT ![First] = "bt"]
      \/ btSdio' = -1 /\ file' = file
  BY DEF FwDownloaded
<1>5. FilesType /\ NoStaleDescriptor /\ PortInv
  BY DEF TypeOK, FilesType, FilesInv
<1>6. FilesType'
  BY <1>1, <1>2, <1>4, <1>5 DEF FilesType
<1>7. NoStaleDescriptor'
  BY <1>1, <1>2, <1>3, <1>4, <1>5 DEF FilesType, NoStaleDescriptor
<1>8. PortInv'
  BY <1>2, <1>3, <1>5 DEF PortInv
<1>9. kept \in Nat /\ repeats \in Nat
      /\ Cardinality(Unnamed) + (IF btSdio # -1 THEN 1 ELSE 0) <= kept + repeats
  BY <1>2 DEF TypeOK, FilesInv, NodeInv, MayLose
<1>10. IsFiniteSet(Unnamed) /\ Cardinality(Unnamed) \in Nat
  <2>1. Unnamed \in SUBSET InUse
    BY DEF Unnamed
  <2> QED  BY <2>1, InUseIsFinite, Fewer
<1>11. Cardinality(Unnamed') <= kept + repeats /\ Cardinality(Unnamed') \in Nat
  <2>1. CASE btSdio = -1
    <3>1. Unnamed' \in SUBSET Unnamed
      BY <1>1, <1>2, <1>4, <1>5, <2>1 DEF Unnamed, InUse, FilesType
    <3>2. Cardinality(Unnamed') <= Cardinality(Unnamed) /\ Cardinality(Unnamed') \in Nat
      BY <1>10, <3>1, Fewer
    <3> QED  BY <1>9, <1>10, <2>1, <3>2
  <2>2. CASE btSdio # -1
    <3>1. Unnamed' \in SUBSET (Unnamed \cup {btSdio})
      BY <1>1, <1>2, <1>4, <1>5 DEF Unnamed, InUse, FilesType
    <3>2. /\ IsFiniteSet(Unnamed \cup {btSdio})
          /\ Cardinality(Unnamed \cup {btSdio}) \in {Cardinality(Unnamed), Cardinality(Unnamed) + 1}
      BY <1>10, FS_AddElement
    <3>3. Cardinality(Unnamed') <= Cardinality(Unnamed \cup {btSdio})
          /\ Cardinality(Unnamed') \in Nat
      BY <3>1, <3>2, Fewer
    <3> QED  BY <1>9, <1>10, <2>2, <3>2, <3>3
  <2> QED  BY <2>1, <2>2
<1>12. FilesAccounted'
  BY <1>2, <1>11 DEF FilesAccounted, Unnamed, InUse
<1>13. NodeInv'
  <2>1. MayLose' = FALSE
    BY <1>2 DEF MayLose
  <2> QED  BY <1>2, <1>9, <1>11, <2>1 DEF NodeInv
<1> QED  BY <1>2, <1>6, <1>7, <1>8, <1>12, <1>13 DEF FilesInv

\* A FW_CFG pays for the node that its download may lose.
LEMMA FwCfgKeepsFiles ==
  ASSUME TypeOK, FilesInv, FwCfg
  PROVE  FilesInv' /\ FilesType' /\ kept' = kept
<1>1. UNCHANGED <<chip, file, gUserial, btSdio, vndUserial, stack, opened, kept>>
  BY DEF FwCfg, Running, files, history
<1>2. FilesType' /\ NoStaleDescriptor' /\ PortInv'
  BY <1>1 DEF TypeOK, FilesType, FilesInv, NoStaleDescriptor, PortInv, Usb, Uart, W2LSdio
<1>3. kept \in Nat /\ repeats \in Nat /\ stack = "open"
  BY DEF TypeOK, FwCfg, Running
<1>4. repeats' = (IF W1USdio /\ asked THEN repeats + 1 ELSE repeats) /\ asked'
  BY DEF FwCfg
<1>5. Unnamed' = Unnamed /\ (W1USdio' <=> W1USdio) /\ Cardinality(Unnamed) \in Nat
  <2>1. Unnamed \in SUBSET InUse
    BY DEF Unnamed
  <2> QED  BY <1>1, <2>1, InUseIsFinite, Fewer DEF Unnamed, InUse, W1USdio
<1>6. Cardinality(Unnamed) <= kept + repeats
  BY DEF FilesInv, FilesAccounted, Unnamed, InUse
<1>7. FilesAccounted'
  <2>1. Cardinality(Unnamed') <= kept' + repeats'
    BY <1>1, <1>3, <1>4, <1>5, <1>6
  <2> QED  BY <1>1, <1>3, <2>1 DEF FilesAccounted, Unnamed, InUse
<1>8. NodeInv'
  <2>1. MayLose' => W1USdio /\ asked
    BY <1>1, <1>5 DEF MayLose, FilesInv, NodeInv
  <2>2. CASE MayLose'
    BY <1>1, <1>3, <1>4, <1>5, <1>6, <2>1, <2>2 DEF NodeInv
  <2>3. CASE ~MayLose'
    BY <1>1, <1>3, <1>4, <1>5, <1>6, <2>3 DEF NodeInv
  <2> QED  BY <2>2, <2>3
<1> QED  BY <1>1, <1>2, <1>7, <1>8 DEF FilesInv

\* The steps that open and close nothing: all files stay, or the process has died.
LEMMA OthersKeepFiles ==
  ASSUME TypeOK, FilesInv, [Next]_vars, ~UserialOpen, ~UserialClose, ~FwCfg, ~FwDownloaded
  PROVE  FilesInv' /\ FilesType' /\ kept' \in {kept, 0}
<1>1. CASE Crash
  <2>1. file' = [fd \in Fds |-> "free"] /\ gUserial' = -1 /\ btSdio' = -1
        /\ vndUserial' = -1 /\ kept' = 0 /\ repeats' = 0 /\ stack' = "off"
    BY <1>1 DEF Crash
  <2>2. InUse' = {} /\ Unnamed' = {}
    BY <2>1 DEF InUse, Unnamed
  <2>3. FilesAccounted'
    BY <2>1, <2>2, FS_EmptySet DEF FilesAccounted, InUse, Unnamed
  <2>4. FilesType' /\ NoStaleDescriptor' /\ PortInv'
    BY <2>1 DEF FilesType, NoStaleDescriptor, PortInv
  <2>5. NodeInv'
    BY <2>1, <2>2, FS_EmptySet DEF NodeInv, MayLose
  <2> QED  BY <2>1, <2>3, <2>4, <2>5 DEF FilesInv
<1>2. ASSUME ~Crash
      PROVE  /\ UNCHANGED <<chip, files, kept, asked, repeats>>
             /\ cfg' \in {"first", "busy"} => cfg' = cfg \/ cfg = "first"
             /\ UNCHANGED <<stack, opened>> \/
                  (stack \in {"off", "closed"} /\ stack' # "open")
  <2>1. CASE PowerOn \/ PowerOff
    BY <2>1 DEF PowerOn, PowerOff, history, config
  <2>2. CASE FwCfgGoesOn
    BY <2>2 DEF FwCfgGoesOn, Running, history
  <2>3. CASE LpmDisable
    BY <2>3 DEF LpmDisable, Running, history, config
  <2>4. CASE Daemon \/ UserShutdown \/ LateChange
    BY <2>4 DEF Daemon, UserShutdown, LateChange, Elsewhere, history, config
  <2>5. CASE UNCHANGED vars
    BY <2>5 DEF vars, history, config
  <2> QED  BY <1>2, <2>1, <2>2, <2>3, <2>4, <2>5 DEF Next
<1>3. CASE ~Crash
  <2>1. UNCHANGED <<chip, file, gUserial, btSdio, vndUserial, kept, asked, repeats>>
    BY <1>2, <1>3 DEF files
  <2>2. UNCHANGED <<stack, opened>> \/ (stack \in {"off", "closed"} /\ stack' # "open")
    BY <1>2, <1>3
  <2>3. FilesType' /\ NoStaleDescriptor'
    BY <2>1 DEF TypeOK, FilesType, FilesInv, NoStaleDescriptor, Usb
  <2>4. PortInv'
    BY <2>1, <2>2 DEF FilesInv, PortInv, Usb, Uart, W2LSdio
  <2>5. InUse' = InUse /\ Unnamed' = Unnamed
    BY <2>1 DEF InUse, Unnamed
  <2>6. FilesAccounted'
    BY <2>1, <2>2, <2>5 DEF FilesInv, FilesAccounted, InUse
  <2>7. MayLose' => MayLose
    BY <1>2, <1>3, <2>1 DEF MayLose, W1USdio
  <2>8. kept \in Nat /\ repeats \in Nat /\ Cardinality(Unnamed) \in Nat
    <3>1. Unnamed \in SUBSET InUse
      BY DEF Unnamed
    <3> QED  BY <3>1, InUseIsFinite, Fewer DEF TypeOK
  <2>9. NodeInv'
    <3>1. Cardinality(Unnamed') + (IF MayLose' THEN 1 ELSE 0) <= kept' + repeats'
      BY <2>1, <2>5, <2>7, <2>8 DEF FilesInv, NodeInv
    <3>2. (W1USdio /\ ~asked => btSdio = -1)'
      BY <2>1 DEF FilesInv, NodeInv, W1USdio
    <3> QED  BY <3>1, <3>2 DEF NodeInv
  <2> QED  BY <2>1, <2>3, <2>4, <2>6, <2>9 DEF FilesInv
<1> QED  BY <1>1, <1>3
-----------------------------------------------------------------------------
(***************************************************************************)
(* Types.                                                                  *)
(***************************************************************************)
OpsType ==
  /\ chip \in Chips
  /\ stack \in {"off", "on", "open", "closed"} /\ cfg \in {"idle", "first", "busy", "loaded"}
  /\ repeats \in 0 .. MaxRepeats
  /\ btRecovery \in {-1, 0, 1}
  /\ sessions \in 0 .. MaxSessions /\ kept \in 0 .. MaxSessions

LineType ==
  /\ host \in Speeds /\ ctl \in Speeds
  /\ pin \in BOOLEAN /\ dirty \in BOOLEAN /\ mistaken \in BOOLEAN
  /\ missed \in BOOLEAN /\ pinFailed \in BOOLEAN

FlagsType ==
  /\ opened \in BOOLEAN /\ driver \in BOOLEAN /\ alive \in BOOLEAN
  /\ userReq \in BOOLEAN /\ w1BtPower \in BOOLEAN /\ spared \in BOOLEAN
  /\ asked \in BOOLEAN

\* TypeOK in four parts: operations, line, flags, files.
LEMMA TypeParts == TypeOK <=> OpsType /\ LineType /\ FlagsType /\ FilesType
BY DEF TypeOK, OpsType, LineType, FlagsType, FilesType

\* A close is counted in the session it belongs to.
LEMMA OpsNext ==
  ASSUME TypeOK, KeptInv, FilesInv, [Next]_vars
  PROVE  OpsType' /\ KeptInv'
<1> USE DEF OpsType, KeptInv
<1>1. OpsType
  BY TypeParts
<1>2. CASE PowerOn
  BY <1>1, <1>2, OpsAssumption DEF PowerOn, OpsAssumption, config
<1>3. CASE PowerOff
  BY <1>1, <1>3 DEF PowerOff, process, config
<1>4. CASE UserialOpen
  BY <1>1, <1>4 DEF UserialOpen, Opening, process, config
<1>5. CASE FwCfg \/ FwCfgGoesOn \/ FwDownloaded \/ LpmDisable
  <2>1. UNCHANGED <<chip, stack, sessions, kept>>
    BY <1>5 DEF FwCfg, FwCfgGoesOn, FwDownloaded, LpmDisable, Running, history
  <2>2. cfg' \in {"idle", "first", "busy", "loaded"} /\ btRecovery' \in {-1, 0, 1}
    BY <1>1, <1>5 DEF FwCfg, FwCfgGoesOn, FwDownloaded, LpmDisable, config
  <2>3. CASE FwCfg
    <3>1. repeats' \in {repeats, repeats + 1} /\ (repeats' # repeats => repeats < MaxRepeats)
      BY <2>3 DEF FwCfg
    <3>2. repeats' \in 0 .. MaxRepeats
      BY <1>1, <3>1, OpsAssumption DEF OpsAssumption
    <3> QED  BY <1>1, <2>1, <2>2, <3>2
  <2>4. CASE FwCfgGoesOn \/ FwDownloaded \/ LpmDisable
    <3>1. repeats' = repeats
      BY <2>4 DEF FwCfgGoesOn, FwDownloaded, LpmDisable, config
    <3> QED  BY <1>1, <2>1, <2>2, <3>1
  <2> QED  BY <1>5, <2>3, <2>4
<1>6. CASE UserialClose
  <2>1. kept' \in {kept, kept + 1}
    BY <1>6, CloseKeepsFiles
  <2>2. /\ stack = "open" /\ stack' = "closed"
        /\ UNCHANGED <<chip, cfg, repeats, btRecovery, sessions>>
    BY <1>6 DEF UserialClose, process
  <2>3. kept' \in Nat /\ kept' <= sessions
    BY <1>1, <2>1, <2>2
  <2>4. kept' \in 0 .. MaxSessions
    BY <1>1, <2>3, OpsAssumption DEF OpsAssumption
  <2>5. KeptInv'
    <3>1. kept' + 0 <= sessions'
      BY <2>2, <2>3
    <3> QED  BY <2>2, <3>1
  <2>6. OpsType'
    BY <1>1, <2>2, <2>4
  <2> QED  BY <2>5, <2>6
<1>7. CASE Crash
  BY <1>1, <1>7, OpsAssumption DEF Crash, OpsAssumption
<1>8. CASE Daemon \/ UserShutdown \/ LateChange \/ UNCHANGED vars
  BY <1>1, <1>8 DEF Daemon, UserShutdown, LateChange, Elsewhere, history, process, vars, config
<1> QED  BY <1>2, <1>3, <1>4, <1>5, <1>6, <1>7, <1>8 DEF Next

\* What PowerDown and PowerUp do.
LEMMA PowerType ==
  ASSUME LineType, PowerDown \/ PowerUp \/ UNCHANGED <<pin, ctl, dirty, mistaken, pinFailed>>
  PROVE  /\ ctl' \in Speeds /\ pin' \in BOOLEAN /\ dirty' \in BOOLEAN
         /\ mistaken' \in BOOLEAN /\ pinFailed' \in BOOLEAN
<1>1. CASE PowerDown
  BY <1>1 DEF LineType, PowerDown, Speeds
<1>2. CASE PowerUp
  BY <1>2 DEF LineType, PowerUp
<1>3. CASE UNCHANGED <<pin, ctl, dirty, mistaken, pinFailed>>
  BY <1>3 DEF LineType
<1> QED  BY <1>1, <1>2, <1>3

\* How aml_uart_init ends.
LEMMA NegotiateType ==
  ASSUME LineType, Negotiate
  PROVE  LineType'
<1>1. /\ host' \in Speeds /\ ctl' \in Speeds /\ pin' \in BOOLEAN
      /\ mistaken' \in BOOLEAN /\ pinFailed' \in BOOLEAN
  BY DEF Negotiate, Line!Agree, Line!Mistake, Line!GiveUp, Line!AnyController,
     Line!Speeds, Speeds
<1>2. missed' \in BOOLEAN
  BY DEF Negotiate
<1>3. dirty' \in BOOLEAN
  BY DEF Negotiate
<1> QED  BY <1>1, <1>2, <1>3 DEF LineType

\* The line, the controller and the result of the negotiation keep their types.
LEMMA LineNext ==
  ASSUME TypeOK, [Next]_vars
  PROVE  LineType'
<1>1. LineType
  BY TypeParts
<1> USE <1>1 DEF LineType
<1>2. CASE PowerOn
  <2>1. PowerUp /\ UNCHANGED <<host, missed>>
    BY <1>2 DEF PowerOn, PowerOnW1, PowerOnOthers
  <2> QED  BY <2>1, PowerType
<1>3. CASE PowerOff
  <2>1. PowerDown \/ UNCHANGED <<pin, ctl, dirty, mistaken, pinFailed>>
    BY <1>3 DEF PowerOff, PowerOffUart, PowerOffW2l, PowerOffNothing
  <2>2. UNCHANGED <<host, missed>>
    BY <1>3 DEF PowerOff
  <2> QED  BY <2>1, <2>2, PowerType
<1>4. CASE UserialOpen
  <2>1. CASE UartOpenFails
    BY <2>1 DEF UartOpenFails
  <2>2. CASE Negotiate
    BY <2>2, NegotiateType
  <2>3. CASE NoUart
    BY <2>3 DEF NoUart
  <2>4. CASE host' = "fast" /\ UNCHANGED <<pin, ctl, dirty, mistaken, missed, pinFailed>>
    BY <2>4 DEF Speeds
  <2> QED
    BY <1>4, <2>1, <2>2, <2>3, <2>4 DEF UserialOpen, UserialOpenW1u, UserialOpenW1,
       UserialOpenW2, UserialOpenW2l, UserialOpenUsb
<1>5. CASE FwCfg \/ FwCfgGoesOn \/ FwDownloaded \/ LpmDisable
  BY <1>5 DEF FwCfg, FwCfgGoesOn, FwDownloaded, LpmDisable, Running, history, device
<1>6. CASE UserialClose
  <2>1. dirty' \in BOOLEAN
    BY <1>6 DEF UserialClose, ResetBt
  <2> QED  BY <1>6, <2>1 DEF UserialClose
<1>7. CASE Crash
  <2>1. missed' \in BOOLEAN
    BY <1>7 DEF Crash
  <2> QED  BY <1>7, <2>1 DEF Crash, device
<1>8. CASE LateChange
  BY <1>8 DEF LateChange, Line!Late, Speeds
<1>9. CASE Daemon \/ UserShutdown \/ UNCHANGED vars
  BY <1>9 DEF Daemon, UserShutdown, Elsewhere, history, device, vars
<1> QED  BY <1>2, <1>3, <1>4, <1>5, <1>6, <1>7, <1>8, <1>9 DEF Next

\* The flags keep their types.
LEMMA FlagsNext ==
  ASSUME TypeOK, [Next]_vars
  PROVE  FlagsType'
<1>1. FlagsType
  BY TypeParts
<1> USE <1>1 DEF FlagsType
<1>2. CASE PowerOn
  BY <1>2 DEF PowerOn, PowerOnW1, PowerOnOthers, world, config
<1>3. CASE PowerOff
  BY <1>3 DEF PowerOff, PowerOffUart, PowerOffW2l, PowerOffNothing, world, process, config
<1>4. CASE UserialOpen
  <2>1. opened' \in BOOLEAN
    <3>1. CASE UserialOpenW1u
      BY <3>1 DEF UserialOpenW1u, Negotiated
    <3>2. CASE UartOpenFails \/ UserialOpenW1 \/ UserialOpenW2
      BY <3>2 DEF UartOpenFails, UserialOpenW1, UserialOpenW2, OpenFails, OpenSucceeds,
         UartAndNode
    <3>3. CASE UserialOpenW2l \/ UserialOpenUsb
      BY <3>3 DEF UserialOpenW2l, UserialOpenUsb, OpenFails, OpenSucceeds
    <3> QED  BY <1>4, <3>1, <3>2, <3>3 DEF UserialOpen
  <2> QED  BY <1>4, <2>1 DEF UserialOpen, Opening, world, process, config
<1>5. CASE FwCfg \/ FwCfgGoesOn \/ FwDownloaded \/ LpmDisable
  BY <1>5 DEF FwCfg, FwCfgGoesOn, FwDownloaded, LpmDisable, Running, history, device, world, config
<1>6. CASE UserialClose \/ LateChange
  BY <1>6 DEF UserialClose, LateChange, world, process, config
<1>7. CASE Crash
  BY <1>7 DEF Crash, device, world
<1>8. CASE Daemon \/ UserShutdown \/ UNCHANGED vars
  BY <1>8 DEF Daemon, UserShutdown, Elsewhere, history, device, world, process, vars, config
<1> QED  BY <1>2, <1>3, <1>4, <1>5, <1>6, <1>7, <1>8 DEF Next
-----------------------------------------------------------------------------
(***************************************************************************)
(* The speeds.                                                             *)
(***************************************************************************)
\* aml_uart_init ends with the host at 4 MBaud only if the controller is, too, or
\* the host was mistaken; a failure is remembered.
LEMMA NegotiateEnds ==
  ASSUME Negotiate
  PROVE  /\ host' = "fast" => ctl' = "fast" \/ mistaken'
         /\ ctl' = "fast" \/ mistaken' \/ missed'
<1>1. CASE Line!Agree
  BY <1>1 DEF Line!Agree
<1>2. CASE Line!Mistake
  BY <1>2 DEF Line!Mistake
<1>3. CASE Line!GiveUp
  <2>1. host' = "slow"
    BY <1>3 DEF Line!GiveUp
  <2>2. missed'
    BY <2>1 DEF Negotiate
  <2> QED  BY <2>1, <2>2
<1> QED  BY <1>1, <1>2, <1>3 DEF Negotiate

\* USERIAL_OPEN on a UART.
LEMMA OpenSpeeds ==
  ASSUME TypeOK, SpeedInv, UserialOpen, Uart
  PROVE  /\ opened' => /\ host' = "fast"
                       /\ ctl' = "fast" \/ mistaken' \/ (Family = "W1" /\ missed')
         /\ Family = "W1" => ctl' = "fast" \/ mistaken' \/ missed'
<1>1. CASE UartOpenFails
  BY <1>1 DEF UartOpenFails, OpenFails
<1>2. CASE UserialOpenW1u
  <2>1. Negotiate /\ opened' = Negotiated /\ Family # "W1"
    BY <1>2 DEF UserialOpenW1u, Family, W1USdio
  <2> QED  BY <2>1, NegotiateEnds DEF Negotiated
<1>3. CASE UserialOpenW2
  <2>1. Negotiate /\ (opened' => host' = "fast") /\ Family # "W1"
    BY <1>3 DEF UserialOpenW2, UartAndNode, Negotiated, OpenFails, Family
  <2> QED  BY <2>1, NegotiateEnds
<1>4. CASE UserialOpenW1
  <2>1. CASE Negotiate /\ UartAndNode
    <3>1. opened' => host' = "fast"
      BY <2>1 DEF UartAndNode, Negotiated, OpenFails
    <3> QED  BY <1>4, <2>1, <3>1, NegotiateEnds DEF UserialOpenW1
  <2>2. CASE w1BtPower /\ host' = "fast" /\ UNCHANGED <<ctl, mistaken, missed>>
    BY <1>4, <2>2 DEF UserialOpenW1, SpeedInv
  <2> QED  BY <1>4, <2>1, <2>2 DEF UserialOpenW1
<1>5. ~UserialOpenW2l /\ ~UserialOpenUsb
  BY DEF Uart, UserialOpenW2l, UserialOpenUsb
<1> QED  BY <1>1, <1>2, <1>3, <1>4, <1>5 DEF UserialOpen

\* A tty is handed out at one speed, and W1 remembers a negotiation that was
\* missed.
LEMMA SpeedNext ==
  ASSUME TypeOK, SpeedInv, SpeedsMatch, [Next]_vars
  PROVE  SpeedInv' /\ SpeedsMatch'
<1>1. UNCHANGED chip
  BY DEF Next, PowerOn, PowerOff, UserialOpen, Opening, FwCfg, FwCfgGoesOn, FwDownloaded, LpmDisable,
     Running, UserialClose, Daemon, UserShutdown, Crash, LateChange, Elsewhere, vars
<1>2. /\ Family' = Family /\ (Uart' <=> Uart)
      /\ (Usb' <=> Usb) /\ (W2LSdio' <=> W2LSdio) /\ (Uart <=> ~Usb /\ ~W2LSdio)
  BY <1>1 DEF Family, Usb, Uart, W2LSdio
<1>3. Family = "W1" => Uart /\ ~OwnsPin /\ ~W2LSdio
  <2>1. chip \in Interfaces
    BY OpsAssumption DEF OpsAssumption, TypeOK
  <2> QED  BY <2>1 DEF Interfaces, Family, Uart, Usb, OwnsPin, W2LSdio
<1>4. CASE PowerOn
  <2>1. /\ stack = "off" /\ stack' = "on" /\ UNCHANGED <<ctl, mistaken, missed>>
        /\ Family = "W1" => w1BtPower' = driver
    BY <1>4 DEF PowerOn, PowerOnW1, PowerOnOthers, PowerUp
  <2> QED  BY <1>2, <2>1 DEF SpeedInv, SpeedsMatch
<1>5. CASE PowerOff
  <2>1. /\ stack # "on" /\ stack' = "off"
        /\ UNCHANGED <<missed, driver, w1BtPower>>
    BY <1>5 DEF PowerOff, process
  <2>2. Family = "W1" => UNCHANGED <<ctl, mistaken>>
    BY <1>3, <1>5 DEF PowerOff, PowerOffUart, PowerOffW2l, PowerOffNothing
  <2> QED  BY <1>2, <2>1, <2>2 DEF SpeedInv, SpeedsMatch
<1>6. CASE UserialOpen
  <2>1. stack' = "open"
    BY <1>6 DEF UserialOpen, Opening
  <2>2. CASE Uart
    BY <1>2, <1>3, <1>6, <2>1, <2>2, OpenSpeeds DEF SpeedInv, SpeedsMatch
  <2>3. CASE ~Uart
    BY <1>2, <1>3, <2>3 DEF SpeedInv, SpeedsMatch
  <2> QED  BY <2>2, <2>3
<1>7. CASE FwCfg \/ FwCfgGoesOn \/ FwDownloaded \/ LpmDisable \/ Daemon \/ UserShutdown \/ UNCHANGED vars
  <2>1. UNCHANGED <<stack, opened, host, w1BtPower, driver, ctl, mistaken, missed>>
    BY <1>7 DEF FwCfg, FwCfgGoesOn, FwDownloaded, LpmDisable, Running, Daemon, UserShutdown, Elsewhere,
       vars, history, device, process
  <2> QED  BY <1>2, <2>1 DEF SpeedInv, SpeedsMatch
<1>8. CASE UserialClose
  <2>1. /\ stack = "open" /\ stack' = "closed"
        /\ UNCHANGED <<driver, ctl, mistaken, missed, w1BtPower>>
    BY <1>8 DEF UserialClose, process
  <2> QED  BY <1>2, <2>1 DEF SpeedInv, SpeedsMatch
<1>9. CASE Crash
  <2>1. /\ stack' = "off" /\ w1BtPower' = FALSE /\ UNCHANGED <<driver, ctl, mistaken>>
        /\ missed' = (missed \/ stack = "on")
    BY <1>9 DEF Crash, device
  <2> QED  BY <1>2, <2>1 DEF SpeedInv, SpeedsMatch
<1>10. CASE LateChange
  <2>1. UNCHANGED <<stack, opened, host, missed>> /\ ctl' = "fast"
    BY <1>10 DEF LateChange, Line!Late
  <2> QED  BY <1>2, <2>1 DEF SpeedInv, SpeedsMatch
<1> QED  BY <1>4, <1>5, <1>6, <1>7, <1>8, <1>9, <1>10 DEF Next
-----------------------------------------------------------------------------
(***************************************************************************)
(* The end of a session.                                                   *)
(***************************************************************************)
\* A controller that USERIAL_CLOSE can reach is reset there, unless the state of
\* the configuration or the result of LPM_SET_MODE forbids it.
LEMMA CloseResets ==
  ASSUME TypeOK, PortInv, UserialClose
  PROVE  SessionEndsReset'
<1>1. /\ stack = "open"
      /\ UNCHANGED <<chip, opened, cfg, pin, ctl, mistaken, host, btRecovery, pinFailed>>
  BY DEF UserialClose, process
<1>2. SUFFICES ASSUME opened, dirty'
               PROVE  \/ cfg \in {"busy", "loaded"}
                      \/ chip \in {<<"W2", "USB">>, <<"W2L", "USB">>} /\ btRecovery # 0
                      \/ ~pin \/ (~Usb /\ (mistaken \/ pinFailed \/ host # ctl))
  BY <1>1 DEF SessionEndsReset, Usb
<1>3. ~((Resets \/ Family = "W1") /\ Reachable)
  BY <1>2 DEF UserialClose, ResetBt
<1>4. CASE ~Reachable
  <2>1. IF W2LSdio THEN btSdio # -1 ELSE gUserial # -1
    BY <1>1, <1>2 DEF PortInv
  <2> QED  BY <1>4, <2>1 DEF Reachable
<1>5. CASE ~Resets /\ Family # "W1"
  <2>1. CASE chip \in {<<"W2", "USB">>, <<"W2L", "USB">>}
    BY <1>5, <2>1 DEF Resets, StateIsZero, TypeOK
  <2>2. CASE chip \notin {<<"W2", "USB">>, <<"W2L", "USB">>}
    BY <1>5, <2>2 DEF Resets, StateIsZero, TypeOK
  <2> QED  BY <2>1, <2>2
<1> QED  BY <1>3, <1>4, <1>5

\* Every close resets the controller or is one of the exceptions.
LEMMA ResetNext ==
  ASSUME TypeOK, PortInv, SessionEndsReset, [Next]_vars
  PROVE  SessionEndsReset'
<1>1. CASE UserialClose
  BY <1>1, CloseResets
<1>2. CASE PowerOn \/ PowerOff \/ UserialOpen \/ Crash
  BY <1>2 DEF PowerOn, PowerOff, UserialOpen, Opening, Crash, SessionEndsReset
<1>3. CASE FwCfg \/ FwCfgGoesOn \/ FwDownloaded \/ LpmDisable
  BY <1>3 DEF FwCfg, FwCfgGoesOn, FwDownloaded, LpmDisable, Running, SessionEndsReset
<1>4. CASE Daemon \/ UserShutdown \/ UNCHANGED vars
  <2>1. UNCHANGED <<chip, stack, opened, cfg, pin, ctl, dirty, mistaken, host, btRecovery,
                    pinFailed>>
    BY <1>4 DEF Daemon, UserShutdown, Elsewhere, vars, history, device, process, config
  <2> QED  BY <2>1 DEF SessionEndsReset, Usb
<1>5. CASE LateChange
  <2>1. /\ UNCHANGED <<chip, stack, opened, cfg, pin, dirty, mistaken, btRecovery, pinFailed>>
        /\ mistaken \/ pinFailed
    BY <1>5 DEF LateChange, Line!Late, process, config
  <2> QED  BY <2>1 DEF SessionEndsReset, Usb
<1> QED  BY <1>1, <1>2, <1>3, <1>4, <1>5 DEF Next

\* POWER_OFF cuts the power, or has one of the three reasons not to.
LEMMA CutNext ==
  ASSUME PowerIsCut, [Next]_vars
  PROVE  PowerIsCut'
<1>1. CASE PowerOff
  <2>1. stack' = "off" /\ UNCHANGED <<chip, userReq, sessions>>
    BY <1>1 DEF PowerOff, world
  <2>2. CASE PowerOffUart
    BY <2>1, <2>2 DEF PowerOffUart, PowerDown, PowerIsCut
  <2>3. CASE PowerOffW2l
    BY <2>1, <2>3 DEF PowerOffW2l, PowerDown, PowerIsCut
  <2>4. CASE PowerOffNothing
    <3>1. Usb' \/ Family' = "W1"
      BY <2>1, <2>4 DEF PowerOffNothing, Usb, Family
    <3> QED  BY <3>1 DEF PowerIsCut
  <2> QED  BY <1>1, <2>2, <2>3, <2>4 DEF PowerOff
<1>2. CASE Crash
  BY <1>2 DEF Crash, PowerIsCut
<1>3. CASE PowerOn \/ UserialOpen \/ UserialClose
  BY <1>3 DEF PowerOn, UserialOpen, Opening, UserialClose, PowerIsCut
<1>4. CASE FwCfg \/ FwCfgGoesOn \/ FwDownloaded \/ LpmDisable
  BY <1>4 DEF FwCfg, FwCfgGoesOn, FwDownloaded, LpmDisable, Running, PowerIsCut
<1>5. CASE Daemon \/ UserShutdown \/ LateChange \/ UNCHANGED vars
  <2>1. /\ UNCHANGED <<chip, stack, sessions, pin, pinFailed, spared>>
        /\ userReq => userReq'
    BY <1>5 DEF Daemon, UserShutdown, LateChange, Line!Late, Elsewhere, vars, history,
       device, world
  <2> QED  BY <2>1 DEF PowerIsCut, Usb, Family
<1> QED  BY <1>1, <1>2, <1>3, <1>4, <1>5 DEF Next

\* After the user's request only aml_uart_init touches the pin.
LEMMA WakeNext ==
  ASSUME TypeOK, Next, userReq, pin, pin' # pin
  PROVE  pinFailed'
<1>1. CASE UserialOpen
  <2>1. CASE Negotiate
    <3>1. Line!Agree \/ Line!Mistake \/ Line!GiveUp
      BY <2>1 DEF Negotiate
    <3>2. pin = TRUE
      BY DEF TypeOK
    <3>3. CASE Line!Agree
      BY <3>2, <3>3 DEF Line!Agree
    <3>4. CASE Line!Mistake
      <4>1. pin' \in BOOLEAN /\ (pin' \/ pinFailed')
        BY <3>4 DEF Line!Mistake, Line!AnyController
      <4> QED  BY <3>2, <4>1
    <3>5. CASE Line!GiveUp
      BY <3>2, <3>5 DEF Line!GiveUp
    <3> QED  BY <3>1, <3>3, <3>4, <3>5
  <2>2. ~Negotiate => pin' = pin
    BY <1>1 DEF UserialOpen, UartOpenFails, UserialOpenW1u, UserialOpenW1,
       UserialOpenW2, UserialOpenW2l, UserialOpenUsb, NoUart
  <2> QED  BY <2>1, <2>2
<1>2. CASE PowerOn
  BY <1>2 DEF PowerOn, PowerOnW1, PowerOnOthers, PowerUp
<1>3. CASE PowerOff
  BY <1>3 DEF PowerOff, PowerOffUart, PowerOffW2l, PowerOffNothing
<1>4. CASE FwCfg \/ FwCfgGoesOn \/ FwDownloaded \/ LpmDisable \/ UserialClose
  BY <1>4 DEF FwCfg, FwCfgGoesOn, FwDownloaded, LpmDisable, UserialClose, device
<1>5. CASE Daemon \/ UserShutdown \/ Crash \/ LateChange
  BY <1>5 DEF Daemon, UserShutdown, Crash, LateChange, Line!Late, Elsewhere, device
<1> QED  BY <1>1, <1>2, <1>3, <1>4, <1>5 DEF Next
-----------------------------------------------------------------------------
(***************************************************************************)
(* Theorems.                                                               *)
(***************************************************************************)
OpsInv == TypeOK /\ KeptInv /\ FilesInv /\ SpeedInv

\* The initial state satisfies all of it.
LEMMA InitHolds ==
  ASSUME Init
  PROVE  OpsInv /\ SpeedsMatch /\ SessionEndsReset /\ PowerIsCut
<1>1. OpsType /\ KeptInv
  BY OpsAssumption DEF Init, OpsType, KeptInv, OpsAssumption
<1>2. LineType /\ FlagsType
  BY DEF Init, LineType, FlagsType, Speeds
<1>3. FilesType /\ NoStaleDescriptor /\ PortInv
  BY DEF Init, FilesType, NoStaleDescriptor, PortInv
<1>4. FilesAccounted /\ NodeInv
  <2>1. InUse = {} /\ Unnamed = {}
    BY DEF Init, InUse, Unnamed
  <2> QED  BY <2>1, FS_EmptySet DEF Init, FilesAccounted, NodeInv, MayLose, InUse, Unnamed
<1>5. SpeedInv /\ SpeedsMatch /\ SessionEndsReset /\ PowerIsCut
  BY DEF Init, SpeedInv, SpeedsMatch, SessionEndsReset, PowerIsCut
<1> QED  BY <1>1, <1>2, <1>3, <1>4, <1>5, TypeParts DEF OpsInv, FilesInv

\* One step keeps all of it.
LEMMA OpsStep ==
  ASSUME OpsInv, SpeedsMatch, [Next]_vars
  PROVE  OpsInv' /\ SpeedsMatch'
<1>1. FilesInv' /\ FilesType'
  BY OpenKeepsFiles, CloseKeepsFiles, DownloadKeepsFiles, FwCfgKeepsFiles, OthersKeepFiles
     DEF OpsInv
<1>2. OpsType' /\ KeptInv' /\ LineType' /\ FlagsType' /\ SpeedInv' /\ SpeedsMatch'
  BY OpsNext, LineNext, FlagsNext, SpeedNext DEF OpsInv
<1>3. (OpsType /\ LineType /\ FlagsType /\ FilesType => TypeOK)'
  BY TypeParts, PTL
<1> QED  BY <1>1, <1>2, <1>3 DEF OpsInv

\* OpsInv is inductive together with SpeedsMatch, and so an invariant.
LEMMA OpsHold == Spec => [](OpsInv /\ SpeedsMatch)
BY InitHolds, OpsStep, PTL DEF Spec

\* Every variable has its type; above all, the descriptors are descriptors, so that
\* no session ever runs out of them and kept stays within the sessions.
THEOREM Typed == Spec => []TypeOK
BY OpsHold, PTL DEF OpsInv

\* Whatever fails in how many sessions, USERIAL_CLOSE leaves no file open that no
\* variable names, but for the tty of W2L, one for each close that found 15.4 alive,
\* and the node of W1U, one for each FW_CFG repeated within a session.
THEOREM FilesAreAccounted == Spec => []FilesAccounted
BY OpsHold, PTL DEF OpsInv, FilesInv

\* g_userial_fd and bt_sdio_fd never hold a number that was closed: nothing is
\* written to, or closed in, a file of somebody else.
THEOREM NoDescriptorIsStale == Spec => []NoStaleDescriptor
BY OpsHold, PTL DEF OpsInv, FilesInv

\* USERIAL_OPEN hands out a tty only when both ends have one speed, or when
\* aml_uart_init was mistaken, or on a W1 after a negotiation that was missed.
THEOREM SpeedsAreMatched == Spec => []SpeedsMatch
BY OpsHold, PTL

\* USERIAL_CLOSE resets a controller that stays on, with the exceptions that
\* SessionEndsReset names and no others.
THEOREM SessionsEndReset == Spec => []SessionEndsReset
<1>1. OpsInv /\ SessionEndsReset /\ [Next]_vars => SessionEndsReset'
  BY ResetNext DEF OpsInv, FilesInv
<1>2. Init => SessionEndsReset
  BY InitHolds
<1> QED  BY <1>1, <1>2, OpsHold, PTL DEF Spec

\* After POWER_OFF a chip with a pin of its own has no power, unless the user, a
\* daemon or a failing pin keeps it.
THEOREM PowerIsAlwaysCut == Spec => []PowerIsCut
<1>1. Init => PowerIsCut
  BY InitHolds
<1> QED  BY <1>1, CutNext, PTL DEF Spec

\* No operation takes the power from a controller that is to wake the system for
\* the user: POWER_OFF spares it, aml_uart_init gives the power back.
THEOREM WakingIsSafe == Spec => WakeKeepsPower
<1>1. OpsInv /\ [Next]_vars => [userReq /\ pin => pin' \/ pinFailed']_vars
  BY WakeNext DEF OpsInv
<1> QED  BY <1>1, OpsHold, PTL DEF Spec, WakeKeepsPower
=============================================================================
