------------------------------ MODULE Coex15p4 ------------------------------
(***************************************************************************)
(* The 15.4 socket server of the W2L chip (vendor_common.c): a thread that *)
(* POWER_CTRL starts and joins, which accepts one client at a time on a    *)
(* UNIX socket and forwards its frames to the controller as HCI commands.  *)
(*                                                                         *)
(* The threads share sessionSocket and the descriptor table of the         *)
(* process, so the table is part of the state: a number that is closed may *)
(* be given to another file.  A step of the server is what it does between *)
(* two calls that can block.  Clients and the kernel are external.  What   *)
(* the controller answers is left out: aml_15p4_data_cb, on the HCI        *)
(* thread, sends it to whatever sessionSocket names and changes nothing.   *)
(***************************************************************************)
EXTENDS Integers, Sequences, FiniteSetsExt, SequencesExt

CONSTANTS
  Peers,      \* the zigbee and thread daemons, one connection each
  MaxFd,      \* bound: descriptors 1 .. MaxFd exist
  MaxCycles   \* bound: POWER_ON operations in one behaviour

ASSUME CoexAssumption ==
  MaxFd \in Nat \ {0} /\ MaxCycles \in Nat /\ {"free", "listen", "bt"} \cap Peers = {}

VARIABLES
  stack,          \* the stack's side: "off", "on", "joining" (inside POWER_OFF)
  exitThread,     \* exit_thread
  handle,         \* aml_15p4_handle_thread: "none", "thread" or "joined"
  pc,             \* the server thread
  listenSocket, sessionSocket,
  btFd,           \* bt_sdio_fd
  supported,      \* (w2l_chip_func & 1) == 0
  file,           \* what each descriptor of the process refers to
  backlog,        \* connections the kernel holds for accept()
  input,          \* what a connected peer has for the server to read
  cycles,
  staleExit,      \* a server ended while it had a session
  wronged         \* the server closed a file that is not its own (Wrongs)

shared == <<listenSocket, sessionSocket, file, backlog, input>>
history == <<staleExit, wronged>>
vars == <<stack, exitThread, handle, pc, shared, btFd, supported,
          cycles, history>>

Fds == 1 .. MaxFd
Free(table) == {fd \in Fds : table[fd] = "free"}

\* What a peer may have sent: the close command, the query of the chip function,
\* a whole frame, the header of one, less than a header; or it has hung up.
Messages == {"close", "func", "frame", "head", "half"}

\* What the server may find when it reads on inside the body of a frame: nothing
\* more, less than a header, a header that is none, or, by chance, any message.
Misread == {"nothing", "rest", "junk", "close", "func", "frame", "head"}
Hangups == {"eof", "rst"}

Connected(p) == p \in Range(backlog) \/ \E fd \in Fds : file[fd] = p

Init ==
  /\ stack = "off" /\ exitThread = FALSE /\ handle = "none" /\ pc = "none"
  /\ listenSocket = -1 /\ sessionSocket = -1 /\ btFd = -1
  /\ supported = FALSE
  /\ file = [fd \in Fds |-> "free"] /\ backlog = <<>>
  /\ input = [p \in Peers |-> "nothing"]
  /\ cycles = 0
  /\ staleExit = FALSE /\ wronged = FALSE

\* close() of the descriptors in S of a table.  With a listening socket go the
\* connections it holds, and a connection that is closed has no input left.
Close(S, table, queue) ==
  LET gone == {p \in Peers : \E fd \in S : table[fd] = p} \cup
              (IF \E fd \in S : table[fd] = "listen" THEN Range(queue) ELSE {}) IN
  /\ file' = [fd \in Fds |-> IF fd \in S THEN "free" ELSE table[fd]]
  /\ backlog' = IF \E fd \in S : table[fd] = "listen" THEN <<>> ELSE queue
  /\ input' = [p \in Peers |-> IF p \in gone THEN "nothing" ELSE input[p]]
-----------------------------------------------------------------------------
(***************************************************************************)
(* POWER_CTRL, USERIAL_OPEN and USERIAL_CLOSE of the W2L chip.             *)
(***************************************************************************)

\* The coexistence node, the SDIO probe or the thread creation may fail, and
\* the stack switches off later all the same.
PowerOn ==
  /\ stack = "off" /\ cycles < MaxCycles
  /\ stack' = "on" /\ cycles' = cycles + 1
  /\ \/ exitThread' = FALSE /\ handle' = "thread" /\ pc' = "start"
     \/ exitThread' \in {exitThread, FALSE} /\ UNCHANGED <<handle, pc>>
  /\ UNCHANGED <<shared, btFd, supported, history>>

UserialOpen ==
  /\ stack = "on" /\ btFd = -1 /\ Free(file) # {}
  /\ btFd' = Min(Free(file))
  /\ file' = [file EXCEPT ![btFd'] = "bt"]
  /\ supported' \in BOOLEAN
  /\ UNCHANGED <<stack, exitThread, handle, pc, listenSocket, sessionSocket,
                 backlog, input, cycles, history>>

UserialClose ==
  /\ stack = "on" /\ btFd # -1
  /\ Close({btFd}, file, backlog)
  /\ btFd' = -1
  /\ UNCHANGED <<stack, exitThread, handle, pc, listenSocket, sessionSocket,
                 supported, cycles, history>>

\* The process is started again, with its globals as they were at first.
Restart ==
  /\ stack' = "off" /\ exitThread' = FALSE /\ handle' = "none" /\ pc' = "none"
  /\ listenSocket' = -1 /\ sessionSocket' = -1 /\ btFd' = -1
  /\ supported' = FALSE
  /\ file' = [fd \in Fds |-> "free"] /\ backlog' = <<>>
  /\ input' = [p \in Peers |-> "nothing"]
  /\ staleExit' = FALSE /\ wronged' = FALSE

PowerOffDetaches ==
  /\ stack \in {"on", "off"} /\ btFd = -1
  /\ exitThread' = TRUE /\ stack' = "off"
  /\ UNCHANGED <<handle, pc, shared, btFd, supported, cycles, history>>

\* pthread_join waits for the server.  With no thread it fails; with a thread
\* that was joined before, by a POWER_OFF that was repeated or that followed a
\* POWER_ON without a thread, the C library may also abort the process, which
\* is then started again.
PowerOff ==
  /\ stack \in {"on", "off"} /\ btFd = -1
  /\ \/ /\ exitThread' = TRUE
        /\ stack' = IF handle = "thread" THEN "joining" ELSE "off"
        /\ UNCHANGED <<handle, pc, shared, btFd, supported, history>>
     \/ handle = "joined" /\ Restart
  /\ UNCHANGED cycles

Joined ==
  /\ stack = "joining" /\ pc = "exited"
  /\ stack' = "off" /\ handle' = "joined" /\ pc' = "none"
  /\ UNCHANGED <<exitThread, shared, btFd, supported, cycles, history>>
-----------------------------------------------------------------------------
(***************************************************************************)
(* The server thread.                                                      *)
(***************************************************************************)
\* The server closes a file that is not its own, although no server before it
\* left a session behind.
Wrongs(S) == ~staleExit /\ \E fd \in S \ {-1} : file[fd] = "bt"

serverOnly == <<stack, exitThread, handle, btFd, supported, cycles>>

DoneLeaks ==
  /\ Close({listenSocket} \ {-1}, file, backlog)
  /\ pc' = "exited"
  /\ staleExit' = (staleExit \/ sessionSocket # -1)
  /\ UNCHANGED <<serverOnly, listenSocket, sessionSocket, wronged>>

\* The label done: both sockets are closed, both variables keep their value.
Done ==
  LET S == {listenSocket, sessionSocket} \ {-1} IN
  /\ Close(S, file, backlog)
  /\ pc' = "exited"
  /\ staleExit' = (staleExit \/ sessionSocket # -1)
  /\ wronged' = (wronged \/ Wrongs(S))
  /\ UNCHANGED <<serverOnly, listenSocket, sessionSocket>>

\* socket() .. listen().  If socket() fails the thread returns at once, and if a
\* later call fails it goes to done.
Start ==
  /\ pc = "start"
  /\ \/ /\ Free(file) # {}
        /\ listenSocket' = Min(Free(file))
        /\ file' = [file EXCEPT ![listenSocket'] = "listen"]
        /\ pc' = "select"
        /\ UNCHANGED <<sessionSocket, backlog, input, staleExit, wronged>>
     \/ /\ listenSocket' = -1 /\ pc' = "exited"
        /\ UNCHANGED <<sessionSocket, file, backlog, input, staleExit, wronged>>
     \/ /\ Free(file) # {}
        /\ listenSocket' = Min(Free(file)) /\ pc' = "exited"
        /\ Close({sessionSocket} \ {-1}, file, backlog)
        /\ staleExit' = (staleExit \/ sessionSocket # -1)
        /\ wronged' = (wronged \/ Wrongs({sessionSocket}))
        /\ UNCHANGED sessionSocket
  /\ UNCHANGED <<serverOnly>>

Watched == {listenSocket, sessionSocket} \ {-1}
AcceptReady == file[listenSocket] = "listen" /\ backlog # <<>>
ReadReady == sessionSocket # -1 /\
  (file[sessionSocket] \in Peers => input[file[sessionSocket]] # "nothing")

\* One turn of the loop gets past exit_thread and select(): a descriptor in the
\* set that is not open makes select() fail, and the loop tries again for ever.
SelectOn == pc = "select" /\ ~exitThread /\ "free" \notin {file[fd] : fd \in Watched}

ExitIfIdle == pc = "select" /\ exitThread /\ sessionSocket = -1 /\ Done
Exit == pc = "select" /\ exitThread /\ Done

AcceptFirst ==
  /\ SelectOn /\ AcceptReady /\ sessionSocket = -1 /\ Free(file) # {}
  /\ sessionSocket' = Min(Free(file))
  /\ file' = [file EXCEPT ![sessionSocket'] = Head(backlog)]
  /\ backlog' = Tail(backlog)
  /\ UNCHANGED <<serverOnly, pc, listenSocket, input, staleExit, wronged>>
\* A new connection replaces the session.
Accept ==
  /\ SelectOn /\ AcceptReady
  /\ \/ /\ Free(file) # {}
        /\ sessionSocket' = Min(Free(file))
        /\ Close({sessionSocket} \ {-1},
                 [file EXCEPT ![sessionSocket'] = Head(backlog)], Tail(backlog))
        /\ wronged' = (wronged \/ Wrongs({sessionSocket}))
        /\ UNCHANGED <<serverOnly, pc, listenSocket, staleExit>>
     \/ Done

Peer == file[sessionSocket]

CloseCommandKeepsSession ==
  /\ input[Peer] = "close"
  /\ Close({sessionSocket}, file, backlog)
  /\ pc' = "select"
  /\ UNCHANGED sessionSocket

\* The first five bytes, and for a frame the rest.  A session that is at its end
\* is not closed, and a frame the chip does not support is dropped without
\* reading its body: what is left of it is read as headers.  So is the end of a
\* body that comes in parts, since recv() takes what there is.
CloseCommand ==
  /\ input[Peer] = "close"
  /\ Close({sessionSocket}, file, backlog)
  /\ sessionSocket' = -1 /\ pc' = "select"

Leaves(rests) ==
  \E rest \in rests : input' = [input EXCEPT ![Peer] = rest]

Frame ==
  /\ input[Peer] = "frame"
  /\ Leaves(IF supported /\ pc # "body" THEN {"nothing"} ELSE Misread)
  /\ pc' = "select"
  /\ UNCHANGED <<sessionSocket, file, backlog>>

FrameHead ==
  /\ input[Peer] = "head" /\ pc # "body"
  /\ IF supported
       THEN pc' = "body" /\ UNCHANGED input
       ELSE pc' = "select" /\ Leaves(Misread)
  /\ UNCHANGED <<sessionSocket, file, backlog>>

\* Five bytes that are no header are skipped.
Junk ==
  /\ input[Peer] = "junk"
  /\ Leaves(Misread)
  /\ pc' = "select"
  /\ UNCHANGED <<sessionSocket, file, backlog>>

ChipFunction ==
  /\ input[Peer] = "func"
  /\ input' = [input EXCEPT ![Peer] = "nothing"]
  /\ pc' = "select"
  /\ UNCHANGED <<sessionSocket, file, backlog>>

\* recv() that returns 0 or an error leaves the inner loop only in luck.
Hangup ==
  /\ input[Peer] \in Hangups
  /\ pc' \in (CASE pc = "half" -> IF input[Peer] = "rst" THEN {"spin", "select"}
                                                         ELSE {"spin"}
                [] OTHER -> {"select"})
  /\ input' = [input EXCEPT ![Peer] = "eof"]
  /\ UNCHANGED <<sessionSocket, file, backlog>>

Half ==
  /\ input[Peer] \in {"half", "rest"} /\ pc = "select"
  /\ pc' = "half"
  /\ UNCHANGED <<sessionSocket, file, backlog, input>>

Receive == /\ CloseCommand \/ Frame \/ FrameHead \/ ChipFunction \/ Junk \/ Hangup \/ Half
           /\ UNCHANGED <<serverOnly, listenSocket, staleExit, wronged>>

Read ==
  /\ SelectOn /\ ~AcceptReady /\ ReadReady
  /\ IF Peer \notin Peers \/ input[Peer] = "rst" THEN Done ELSE Receive

\* Inside recv() the thread does not look at exit_thread.  If the session is
\* closed under it, recv() fails until nothing is left of the header.
Blocked ==
  /\ pc \in {"half", "body"}
  /\ IF Peer \in Peers
       THEN input[Peer] # "nothing" /\ Receive
       ELSE pc' = "select" /\ UNCHANGED <<serverOnly, shared, staleExit, wronged>>

Server == Start \/ Exit \/ Accept \/ Read \/ Blocked
-----------------------------------------------------------------------------
(***************************************************************************)
(* The peers.                                                              *)
(***************************************************************************)
peersOnly == <<stack, exitThread, handle, pc, listenSocket, sessionSocket, btFd,
               supported, file, cycles, history>>

Connect(p) ==
  /\ ~Connected(p) /\ \E fd \in Fds : file[fd] = "listen"
  /\ backlog' = Append(backlog, p)
  /\ UNCHANGED <<peersOnly, input>>

\* What a client sends behind the rest of a body completes the wrong header.
Send(p) ==
  /\ Connected(p)
  /\ \/ /\ input[p] = "nothing"
        /\ \E m \in Messages : input' = [input EXCEPT ![p] = m]
     \/ input[p] = "rest" /\ input' = [input EXCEPT ![p] = "junk"]
  /\ UNCHANGED <<peersOnly, backlog>>

Finish(p) ==
  /\ input[p] \in {"half", "head"}
  /\ \E m \in (IF input[p] = "head" THEN {"frame"} ELSE {"close", "func", "frame"}) :
       input' = [input EXCEPT ![p] = m]
  /\ UNCHANGED <<peersOnly, backlog>>

HangUp(p) ==
  /\ Connected(p) /\ input[p] \in {"nothing", "half", "rest", "head"}
  /\ \E h \in Hangups : input' = [input EXCEPT ![p] = h]
  /\ UNCHANGED <<peersOnly, backlog>>

Next ==
  \/ PowerOn \/ UserialOpen \/ UserialClose \/ PowerOff \/ Joined
  \/ Server
  \/ \E p \in Peers : Connect(p) \/ Send(p) \/ Finish(p) \/ HangUp(p)

\* The scheduler runs the server, and a peer finishes a message it has begun
\* (or hangs up).
Spec == Init /\ [][Next]_vars /\ WF_vars(Server) /\ WF_vars(Joined)
             /\ \A p \in Peers : WF_vars(Finish(p))
-----------------------------------------------------------------------------
(***************************************************************************)
(* Properties.                                                             *)
(***************************************************************************)
Pcs == {"none", "start", "select", "half", "body", "spin", "exited"}

TypeOK ==
  /\ stack \in {"off", "on", "joining"}
  /\ handle \in {"none", "thread", "joined"} /\ pc \in Pcs
  /\ {listenSocket, sessionSocket, btFd} \subseteq Fds \cup {-1}
  /\ file \in [Fds -> {"free", "listen", "bt"} \cup Peers]
  /\ backlog \in Seq(Peers) /\ IsInjective(backlog)
  /\ input \in [Peers -> Misread \cup Messages \cup Hangups]
  /\ cycles \in 0 .. MaxCycles
  /\ {exitThread, supported, staleExit, wronged} \subseteq BOOLEAN

Looping == pc \in {"select", "half", "body", "spin"}

\* While the server runs, sessionSocket is -1 or names its one open connection,
\* and it never closes a file of another thread; the only way out is a server
\* that ended with a session, since the global variable keeps the number that
\* done has closed.
SessionIsOpen ==
  /\ Looping /\ ~staleExit =>
       /\ sessionSocket # -1 => file[sessionSocket] \in Peers
       /\ listenSocket # -1 /\ file[listenSocket] = "listen"
  /\ ~wronged

\* At most one connection is open, only while a server runs, and neither it nor
\* the listening socket outlives the thread.
NoDescriptorLeaks ==
  LET opened == {fd \in Fds : file[fd] \in Peers}
      listening == {fd \in Fds : file[fd] = "listen"} IN
  /\ opened \subseteq {sessionSocket}
  /\ ~Looping => opened = {} /\ listening = {}

\* No two servers run: POWER_ON creates a thread only when there is none, since
\* POWER_OFF has waited for the one before; two of them would accept on one path
\* and share sessionSocket.
OneServer ==
  [][pc' = "start" /\ pc # "start" => pc = "none"]_vars

\* The server waits for the end of a header that no client has begun.
Misled == pc = "half" /\ Peer \in Peers /\ input[Peer] = "rest"

\* POWER_OFF returns, with clients connected or not, unless a client hung up
\* in the middle of a header or the server has lost count of the frames: a
\* client that waits for the answer to a frame of which the header alone was
\* dropped holds POWER_OFF for as long as it stays.
PowerOffReturns ==
  stack = "joining" ~> (stack # "joining" \/ pc = "spin" \/ Misled)

\* A client that connects is accepted or sees the server go; a header that was
\* cut off or misread and a session left over from an earlier server are the
\* exceptions.
ClientsAreServed ==
  \A p \in Peers :
    p \in Range(backlog) ~>
      (p \notin Range(backlog) \/ pc = "spin" \/ Misled \/ staleExit)
=============================================================================
