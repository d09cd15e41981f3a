--------------------------- MODULE Coex15p4Proofs ---------------------------
(***************************************************************************)
(* Proofs about the 15.4 socket server: which files it has open, whose     *)
(* files it closes, and who gets an answer, for any set of peers, any      *)
(* number of descriptors and any number of power cycles.                   *)
(***************************************************************************)
EXTENDS Coex15p4, SequenceTheorems, WellFoundedInduction, TLAPS

-----------------------------------------------------------------------------
(***************************************************************************)
(* The inductive invariant.                                                *)
(***************************************************************************)
\* A server that is not joined yet has a handle, and POWER_OFF is still to come
\* or waits for it.
ThreadInv == pc # "none" => handle = "thread" /\ stack # "off"

\* Whatever a number was used for before: a connection is open under the number
\* of the session only, a listening socket and the chip's node under theirs.
FilesInv ==
  /\ \A fd \in Fds : file[fd] \in Peers => fd = sessionSocket /\ Looping
  /\ \A fd \in Fds : file[fd] = "listen" => fd = listenSocket /\ Looping
  /\ \A fd \in Fds : file[fd] = "bt" => fd = btFd
  /\ Looping => listenSocket # -1

\* Without a session left by an earlier server the numbers are true as well: they
\* name the files they were given for.
OwnInv ==
  /\ ~wronged
  /\ ~staleExit =>
       /\ btFd # -1 => file[btFd] = "bt"
       /\ Looping => /\ file[listenSocket] = "listen"
                     /\ sessionSocket # -1 => file[sessionSocket] \in Peers
       /\ ~Looping => sessionSocket = -1

CoexInv == TypeOK /\ ThreadInv /\ FilesInv /\ OwnInv
-----------------------------------------------------------------------------
(***************************************************************************)
(* Descriptors and queues.                                                 *)
(***************************************************************************)
\* The least descriptor, which open(), socket() and accept() return, is free.
LEMMA LeastIsMember ==
  ASSUME NEW S \in SUBSET Nat, S # {}
  PROVE  Min(S) \in S
<1>1. \E x \in S : \A y \in S : ~(<<y, x>> \in OpToRel(<, Nat))
  BY NatLessThanWellFounded, WFMin
<1>2. PICK x \in S : \A y \in S : ~(y < x)
  BY <1>1 DEF OpToRel
<1>3. \A y \in S : x <= y
  BY <1>2
<1> QED  BY <1>3 DEF Min

\* What open(), socket() and accept() return was free.
LEMMA NewFd ==
  ASSUME Free(file) # {}
  PROVE  Min(Free(file)) \in Fds /\ file[Min(Free(file))] = "free"
<1>1. Free(file) \in SUBSET Nat
  BY CoexAssumption DEF CoexAssumption, Free, Fds
<1>2. Min(Free(file)) \in Free(file)
  BY <1>1, LeastIsMember
<1> QED  BY <1>2 DEF Free

\* A descriptor is a positive number, and no peer is one of the other files.
LEMMA Constants ==
  /\ Fds \subseteq Nat /\ -1 \notin Fds
  /\ "free" \notin Peers /\ "listen" \notin Peers /\ "bt" \notin Peers
BY CoexAssumption DEF CoexAssumption, Fds

\* The queue of connections: accept() takes the first, connect() adds a peer that
\* has no other connection, and nobody is in it twice.
Queue(q) == q \in Seq(Peers) /\ IsInjective(q)

\* accept() takes the head of the queue and leaves a queue.
LEMMA QueueAccept ==
  ASSUME NEW q, Queue(q), q # <<>>
  PROVE  Head(q) \in Peers /\ Queue(Tail(q))
<1>1. q \in Seq(Peers)
  BY DEF Queue
<1>2. /\ Head(q) \in Peers /\ Tail(q) \in Seq(Peers)
      /\ Len(q) \in Nat /\ Len(q) # 0 /\ Len(Tail(q)) = Len(q) - 1
      /\ \A i \in 1 .. Len(Tail(q)) : Tail(q)[i] = q[i + 1]
  BY <1>1
<1>3. IsInjective(Tail(q))
  <2> SUFFICES ASSUME NEW a \in 1 .. Len(q) - 1, NEW b \in 1 .. Len(q) - 1,
                      Tail(q)[a] = Tail(q)[b]
               PROVE  a = b
    BY <1>2 DEF IsInjective
  <2>1. q[a + 1] = q[b + 1]
    BY <1>2
  <2>2. a + 1 \in DOMAIN q /\ b + 1 \in DOMAIN q
    BY <1>1, <1>2
  <2> QED  BY <2>1, <2>2 DEF Queue, IsInjective
<1> QED  BY <1>2, <1>3 DEF Queue

\* A client that connects and is not in the queue goes to its end.
LEMMA QueueConnect ==
  ASSUME NEW q, Queue(q), NEW p \in Peers, p \notin Range(q)
  PROVE  Queue(Append(q, p))
<1>1. q \in Seq(Peers)
  BY DEF Queue
<1>2. /\ Append(q, p) \in Seq(Peers)
      /\ Len(q) \in Nat /\ Len(Append(q, p)) = Len(q) + 1
      /\ DOMAIN q = 1 .. Len(q) /\ DOMAIN Append(q, p) = 1 .. Len(q) + 1
      /\ \A i \in 1 .. Len(q) : Append(q, p)[i] = q[i]
      /\ Append(q, p)[Len(q) + 1] = p
  BY <1>1
<1>3. \A i \in 1 .. Len(q) : q[i] # p
  BY <1>2 DEF Range
<1>4. IsInjective(Append(q, p))
  <2> SUFFICES ASSUME NEW a \in 1 .. Len(q) + 1, NEW b \in 1 .. Len(q) + 1,
                      Append(q, p)[a] = Append(q, p)[b]
               PROVE  a = b
    BY <1>2 DEF IsInjective
  <2>1. CASE a \in 1 .. Len(q) /\ b \in 1 .. Len(q)
    <3>1. q[a] = q[b]
      BY <2>1, <1>2
    <3> QED  BY <3>1, <2>1, <1>2 DEF Queue, IsInjective
  <2>2. CASE a = Len(q) + 1 /\ b \in 1 .. Len(q)
    BY <2>2, <1>2, <1>3
  <2>3. CASE b = Len(q) + 1 /\ a \in 1 .. Len(q)
    BY <2>3, <1>2, <1>3
  <2> QED  BY <2>1, <2>2, <2>3, <1>2
<1> QED  BY <1>2, <1>4 DEF Queue

\* Closing the listening socket leaves a queue without anyone.
LEMMA QueueEmpty == Queue(<<>>)
BY DEF Queue, IsInjective
-----------------------------------------------------------------------------
(***************************************************************************)
(* The steps that close descriptors.                                       *)
(***************************************************************************)
Files == {"free", "listen", "bt"} \cup Peers
Inputs == Misread \cup Messages \cup Hangups

\* What close() leaves has the types of what was there.
LEMMA CloseTypes ==
  ASSUME NEW S, NEW table \in [Fds -> Files], NEW queue, Queue(queue),
         input \in [Peers -> Inputs], Close(S, table, queue)
  PROVE  file' \in [Fds -> Files] /\ Queue(backlog') /\ input' \in [Peers -> Inputs]
<1>1. file' \in [Fds -> Files]
  BY DEF Close, Files
<1>2. Queue(backlog')
  BY QueueEmpty DEF Close
<1>3. "nothing" \in Inputs
  BY DEF Inputs, Misread
<1>4. input' \in [Peers -> Inputs]
  BY <1>3 DEF Close
<1> QED  BY <1>1, <1>2, <1>4

\* ... and the files of the descriptors that it does not close.
LEMMA CloseFiles ==
  ASSUME NEW S, NEW table, NEW queue, Close(S, table, queue), NEW fd \in Fds
  PROVE  file'[fd] = IF fd \in S THEN "free" ELSE table[fd]
BY DEF Close
-----------------------------------------------------------------------------
(***************************************************************************)
(* Types.                                                                  *)
(***************************************************************************)
Maybe == Fds \cup {-1}

\* What the threads have in common, and what each has for itself.
TableTypes == file \in [Fds -> Files] /\ Queue(backlog) /\ input \in [Peers -> Inputs]
SocketTypes == listenSocket \in Maybe /\ sessionSocket \in Maybe /\ btFd \in Maybe
ThreadTypes ==
  /\ stack \in {"off", "on", "joining"}
  /\ handle \in {"none", "thread", "joined"} /\ pc \in Pcs
FlagTypes ==
  /\ exitThread \in BOOLEAN /\ supported \in BOOLEAN
  /\ staleExit \in BOOLEAN /\ wronged \in BOOLEAN
CountTypes == cycles \in 0 .. MaxCycles

\* TypeOK in five parts: descriptors, socket numbers, thread, flags, the count.
LEMMA TypeParts ==
  TypeOK <=> TableTypes /\ SocketTypes /\ ThreadTypes /\ FlagTypes /\ CountTypes
BY DEF TypeOK, TableTypes, SocketTypes, ThreadTypes, FlagTypes, CountTypes, Queue,
       Files, Inputs, Maybe

\* A step of a peer changes the queue and the inputs only.
Peering(p) == Connect(p) \/ Send(p) \/ Finish(p) \/ HangUp(p)

\* A client's own steps leave the server's variables alone.
LEMMA PeersOnly ==
  ASSUME NEW p \in Peers, Peering(p)
  PROVE  UNCHANGED peersOnly
BY DEF Peering, Connect, Send, Finish, HangUp

\* The ways of one step of the whole.
LEMMA Steps ==
  ASSUME [Next]_vars
  PROVE  \/ PowerOn \/ UserialOpen \/ UserialClose \/ PowerOff \/ Joined
         \/ Start \/ Exit \/ Accept \/ Read \/ Blocked
         \/ \E p \in Peers : Peering(p)
         \/ UNCHANGED vars
BY DEF Next, Server, Peering

\* A step inside recv(), with what all of them leave alone.
LEMMA Receives ==
  ASSUME Receive
  PROVE  /\ UNCHANGED <<serverOnly, listenSocket, staleExit, wronged>>
         /\ pc' \in {"select", "body", "half", "spin"}
         /\ sessionSocket' \in {sessionSocket, -1}
<1>1. UNCHANGED <<serverOnly, listenSocket, staleExit, wronged>>
  BY DEF Receive
<1>2. CASE CloseCommand \/ ChipFunction \/ Junk \/ Half
  BY <1>1, <1>2 DEF CloseCommand, ChipFunction, Junk, Half
<1>3. CASE Frame
  BY <1>1, <1>3 DEF Frame
<1>4. CASE FrameHead
  BY <1>1, <1>4 DEF FrameHead
<1>5. CASE Hangup
  BY <1>1, <1>5 DEF Hangup
<1> QED  BY <1>2, <1>3, <1>4, <1>5 DEF Receive

\* The thread and the two sides of POWER_CTRL keep their types.
LEMMA ThreadNext ==
  ASSUME TypeOK, [Next]_vars
  PROVE  ThreadTypes'
<1>1. ThreadTypes
  BY TypeParts
<1> USE <1>1 DEF ThreadTypes, Pcs
<1>2. CASE PowerOn \/ UserialOpen \/ UserialClose \/ Joined
  BY <1>2 DEF PowerOn, UserialOpen, UserialClose, Joined
<1>3. CASE PowerOff
  BY <1>3 DEF PowerOff, Restart
<1>4. CASE Start \/ Exit \/ Accept
  BY <1>4 DEF Start, Exit, Accept, Done, serverOnly
<1>5. CASE Receive
  BY <1>5, Receives DEF serverOnly
<1>6. CASE Read \/ Blocked
  BY <1>5, <1>6 DEF Read, Blocked, Done, serverOnly
<1>7. CASE \E p \in Peers : Peering(p)
  BY <1>7, PeersOnly DEF peersOnly
<1>8. CASE UNCHANGED vars
  BY <1>8 DEF vars
<1> QED  BY <1>2, <1>3, <1>4, <1>6, <1>7, <1>8, Steps

\* The flags of the process and the counts keep their types.
LEMMA FlagNext ==
  ASSUME TypeOK, [Next]_vars
  PROVE  FlagTypes'
<1>1. FlagTypes
  BY TypeParts
<1> USE <1>1 DEF FlagTypes, history
<1>2. CASE PowerOn \/ UserialOpen \/ UserialClose \/ Joined
  BY <1>2 DEF PowerOn, UserialOpen, UserialClose, Joined
<1>3. CASE PowerOff
  BY <1>3 DEF PowerOff, Restart
<1>4. CASE Done
  BY <1>4 DEF Done, Wrongs, serverOnly
<1>5. CASE Start
  BY <1>5 DEF Start, Wrongs, serverOnly
<1>6. CASE Accept
  BY <1>4, <1>6 DEF Accept, Wrongs, serverOnly
<1>7. CASE Receive
  BY <1>7, Receives DEF serverOnly
<1>8. CASE Exit \/ Read \/ Blocked
  BY <1>4, <1>7, <1>8 DEF Exit, Read, Blocked, serverOnly
<1>9. CASE \E p \in Peers : Peering(p)
  BY <1>9, PeersOnly DEF peersOnly
<1>10. CASE UNCHANGED vars
  BY <1>10 DEF vars
<1> QED  BY <1>2, <1>3, <1>5, <1>6, <1>8, <1>9, <1>10, Steps

\* The numbers that the server remembers stay numbers or -1.
LEMMA SocketNext ==
  ASSUME TypeOK, [Next]_vars
  PROVE  SocketTypes'
<1>1. SocketTypes
  BY TypeParts
<1> USE <1>1, NewFd DEF SocketTypes, Maybe, shared
<1>2. CASE PowerOn \/ UserialOpen \/ UserialClose \/ Joined
  BY <1>2 DEF PowerOn, UserialOpen, UserialClose, Joined
<1>3. CASE PowerOff
  BY <1>3 DEF PowerOff, Restart
<1>4. CASE Start \/ Exit \/ Accept
  BY <1>4 DEF Start, Exit, Accept, Done, serverOnly
<1>5. CASE Receive
  BY <1>5, Receives DEF serverOnly
<1>6. CASE Read \/ Blocked
  BY <1>5, <1>6 DEF Read, Blocked, Done, serverOnly
<1>7. CASE \E p \in Peers : Peering(p)
  BY <1>7, PeersOnly DEF peersOnly
<1>8. CASE UNCHANGED vars
  BY <1>8 DEF vars
<1> QED  BY <1>2, <1>3, <1>4, <1>6, <1>7, <1>8, Steps

\* Only POWER_ON counts.
LEMMA CountNext ==
  ASSUME TypeOK, [Next]_vars
  PROVE  CountTypes'
<1>1. CountTypes
  BY TypeParts
<1> USE <1>1 DEF CountTypes
<1>2. CASE PowerOn
  BY <1>2, CoexAssumption DEF PowerOn, CoexAssumption
<1>3. CASE PowerOff
  BY <1>3 DEF PowerOff
<1>4. CASE UserialOpen \/ UserialClose \/ Joined \/ Start \/ Exit \/ Accept
  BY <1>4 DEF UserialOpen, UserialClose, Joined, Start, Exit, Accept, Done, serverOnly
<1>5. CASE Receive
  BY <1>5, Receives DEF serverOnly
<1>6. CASE Read \/ Blocked
  BY <1>5, <1>6 DEF Read, Blocked, Done, serverOnly
<1>7. CASE \E p \in Peers : Peering(p)
  BY <1>7, PeersOnly DEF peersOnly
<1>8. CASE UNCHANGED vars
  BY <1>8 DEF vars
<1> QED  BY <1>2, <1>3, <1>4, <1>6, <1>7, <1>8, Steps

\* What is read from a peer is one of the things a peer may have sent.
LEMMA ReceiveTypes ==
  ASSUME TableTypes, Receive
  PROVE  TableTypes'
<1> USE DEF TableTypes
<1>1. CASE CloseCommand
  BY <1>1, CloseTypes DEF CloseCommand
<1>2. CASE Frame
  BY <1>2 DEF Frame, Leaves, Inputs, Misread
<1>3. CASE FrameHead \/ Junk
  BY <1>3 DEF FrameHead, Junk, Leaves, Inputs
<1>4. CASE ChipFunction \/ Half
  BY <1>4 DEF ChipFunction, Half, Inputs, Misread
<1>5. CASE Hangup
  BY <1>5 DEF Hangup, Inputs, Hangups
<1> QED  BY <1>1, <1>2, <1>3, <1>4, <1>5 DEF Receive

\* accept(): the new connection gets a free number and leaves the queue.
LEMMA AcceptTypes ==
  ASSUME TypeOK, Accept
  PROVE  TableTypes'
<1>0. TableTypes
  BY TypeParts
<1> USE <1>0 DEF TableTypes
<1>1. CASE Done
  BY <1>1, CloseTypes DEF Done
<1>2. CASE ~Done
  <2>1. Head(backlog) \in Peers /\ Queue(Tail(backlog))
    BY <1>2, QueueAccept DEF Accept, AcceptReady
  <2> DEFINE table == [file EXCEPT ![sessionSocket'] = Head(backlog)]
  <2>2. table \in [Fds -> Files]
    BY <2>1 DEF Files
  <2>3. Close({sessionSocket} \ {-1}, table, Tail(backlog))
    BY <1>2 DEF Accept
  <2> HIDE DEF table
  <2> QED  BY <2>1, <2>2, <2>3, CloseTypes
<1> QED  BY <1>1, <1>2

\* Descriptors, streams and the queue keep their types.
LEMMA TableNext ==
  ASSUME TypeOK, [Next]_vars
  PROVE  TableTypes'
<1>1. TableTypes
  BY TypeParts
<1> USE <1>1 DEF TableTypes, shared
<1>2. CASE PowerOn \/ Joined
  BY <1>2 DEF PowerOn, Joined
<1>3. CASE PowerOff
  <2>1. CASE Restart
    BY <2>1, QueueEmpty DEF Restart, Files, Inputs, Misread
  <2> QED  BY <1>3, <2>1 DEF PowerOff
<1>4. CASE UserialOpen
  <2>1. file' = [file EXCEPT ![btFd'] = "bt"] /\ UNCHANGED <<backlog, input>>
    BY <1>4 DEF UserialOpen
  <2>2. file' \in [Fds -> Files]
    BY <2>1 DEF Files
  <2> QED  BY <2>1, <2>2
<1>5. CASE UserialClose
  BY <1>5, CloseTypes DEF UserialClose
<1>6. CASE Done
  BY <1>6, CloseTypes DEF Done
<1>7. CASE Start
  <2>1. CASE Close({sessionSocket} \ {-1}, file, backlog)
    BY <2>1, CloseTypes
  <2>2. CASE ~Close({sessionSocket} \ {-1}, file, backlog)
    BY <1>7, <2>2 DEF Start, Files
  <2> QED  BY <2>1, <2>2
<1>8. CASE Accept
  BY <1>8, AcceptTypes
<1>9. CASE Exit \/ Read \/ Blocked
  BY <1>6, <1>9, ReceiveTypes DEF Exit, Read, Blocked
<1>10. ASSUME NEW p \in Peers, Connect(p)
       PROVE  TableTypes'
  <2>1. p \notin Range(backlog)
    BY <1>10 DEF Connect, Connected
  <2>2. backlog' = Append(backlog, p) /\ UNCHANGED <<file, input>>
    BY <1>10 DEF Connect, peersOnly
  <2>3. Queue(Append(backlog, p))
    BY <2>1, QueueConnect
  <2> QED  BY <2>2, <2>3
<1>11. ASSUME NEW p \in Peers, Send(p)
       PROVE  TableTypes'
  BY <1>11 DEF Send, peersOnly, Inputs, Misread
<1>12. ASSUME NEW p \in Peers, Finish(p) \/ HangUp(p)
       PROVE  TableTypes'
  BY <1>12 DEF Finish, HangUp, peersOnly, Inputs, Messages
<1>13. CASE UNCHANGED vars
  BY <1>13 DEF vars
<1> QED
  BY <1>2, <1>3, <1>4, <1>5, <1>7, <1>8, <1>9, <1>10, <1>11, <1>12, <1>13, Steps
     DEF Peering

\* All five parts together.
LEMMA TypesNext ==
  ASSUME TypeOK, [Next]_vars
  PROVE  TypeOK'
<1>1. TableTypes' /\ SocketTypes' /\ ThreadTypes' /\ FlagTypes' /\ CountTypes'
  BY TableNext, SocketNext, ThreadNext, FlagNext, CountNext
<1> QED  BY <1>1, TypeParts, PTL
-----------------------------------------------------------------------------
(***************************************************************************)
(* The thread.                                                             *)
(***************************************************************************)
LEMMA ThreadInvNext ==
  ASSUME TypeOK, ThreadInv, [Next]_vars
  PROVE  ThreadInv'
<1> USE DEF ThreadInv
<1>1. CASE PowerOn \/ UserialOpen \/ UserialClose \/ Joined
  BY <1>1 DEF PowerOn, UserialOpen, UserialClose, Joined
<1>2. CASE PowerOff
  BY <1>2 DEF PowerOff, Restart
<1>3. CASE Start \/ Exit \/ Accept \/ Read
  BY <1>3 DEF Start, Exit, Accept, Read, Done, Receive, SelectOn, serverOnly
<1>4. CASE Blocked
  BY <1>4 DEF Blocked, Receive, serverOnly
<1>5. CASE \E p \in Peers : Peering(p)
  BY <1>5, PeersOnly DEF peersOnly
<1>6. CASE UNCHANGED vars
  BY <1>6 DEF vars
<1> QED  BY <1>1, <1>2, <1>3, <1>4, <1>5, <1>6, Steps
-----------------------------------------------------------------------------
(***************************************************************************)
(* The files.                                                              *)
(***************************************************************************)
FdInv == FilesInv /\ OwnInv

\* The label done: what the thread owns goes, and so does its claim to the number
\* of the session.
LEMMA DoneFiles ==
  ASSUME TypeOK, FdInv, Looping, Done
  PROVE  FdInv'
<1> DEFINE S == {listenSocket, sessionSocket} \ {-1}
<1>1. \A fd \in Fds : file'[fd] = IF fd \in S THEN "free" ELSE file[fd]
  BY CloseFiles DEF Done
<1>2. /\ pc' = "exited" /\ staleExit' = (staleExit \/ sessionSocket # -1)
      /\ wronged' = (wronged \/ Wrongs(S))
      /\ UNCHANGED <<btFd, listenSocket, sessionSocket>>
  BY DEF Done, serverOnly
<1>3. ~Looping'
  BY <1>2 DEF Looping
<1>4. SocketTypes
  BY TypeParts
<1>5. FilesInv'
  BY <1>1, <1>2, <1>3, <1>4, Constants DEF FdInv, FilesInv, SocketTypes, Maybe
<1>6. ~Wrongs(S)
  <2>1. ~staleExit => \A fd \in S : file[fd] # "bt"
    BY <1>4, Constants DEF FdInv, OwnInv, SocketTypes, Maybe
  <2> QED  BY <2>1 DEF Wrongs
<1>7. ~wronged'
  BY <1>2, <1>6 DEF FdInv, OwnInv
<1>8. ASSUME ~staleExit'
      PROVE  sessionSocket' = -1 /\ (btFd' # -1 => file'[btFd'] = "bt")
  <2>1. ~staleExit /\ sessionSocket = -1
    BY <1>2, <1>4, <1>8, TypeParts DEF FlagTypes
  <2>2. btFd # -1 => btFd \in Fds /\ file[btFd] = "bt" /\ btFd \notin S
    BY <1>4, <2>1 DEF FdInv, OwnInv, SocketTypes, Maybe
  <2> QED  BY <1>1, <1>2, <2>1, <2>2
<1> QED  BY <1>3, <1>5, <1>7, <1>8 DEF FdInv, OwnInv

\* A step inside recv() closes the session or no file at all.
LEMMA ReceiveFiles ==
  ASSUME TypeOK, FdInv, Looping, Receive
  PROVE  FdInv'
<1>0. /\ UNCHANGED <<btFd, listenSocket, staleExit, wronged>>
      /\ Looping'
  BY Receives DEF serverOnly, Looping
<1>1. SocketTypes
  BY TypeParts
<1>2. CASE CloseCommand
  <2>1. /\ \A fd \in Fds : file'[fd] = IF fd \in {sessionSocket} THEN "free" ELSE file[fd]
        /\ sessionSocket' = -1
    BY <1>2, CloseFiles DEF CloseCommand
  <2>2. FilesInv'
    BY <1>0, <1>1, <2>1, Constants DEF FdInv, FilesInv, SocketTypes, Maybe
  <2>3. ASSUME ~staleExit
        PROVE  /\ btFd' # -1 => file'[btFd'] = "bt"
               /\ file'[listenSocket'] = "listen"
    <3>1. /\ btFd # -1 => btFd \in Fds /\ file[btFd] = "bt" /\ btFd # sessionSocket
          /\ listenSocket \in Fds /\ file[listenSocket] = "listen"
          /\ listenSocket # sessionSocket
      BY <1>1, <2>3, Constants DEF FdInv, FilesInv, OwnInv, SocketTypes, Maybe
    <3> QED  BY <1>0, <2>1, <3>1
  <2> QED  BY <1>0, <2>1, <2>2, <2>3 DEF FdInv, OwnInv
<1>3. CASE ~CloseCommand
  <2>1. UNCHANGED <<file, sessionSocket>>
    BY <1>3 DEF Receive, Frame, FrameHead, ChipFunction, Junk, Hangup, Half
  <2> QED  BY <1>0, <2>1 DEF FdInv, FilesInv, OwnInv
<1> QED  BY <1>2, <1>3

\* The new connection takes a free number, and what is closed for it is the old
\* session's, or by chance any number but that of the chip's node.
LEMMA AcceptFiles ==
  ASSUME TypeOK, FdInv, Accept
  PROVE  FdInv'
<1>0. Looping
  BY DEF Accept, SelectOn, Looping
<1>1. CASE Done
  BY <1>0, <1>1, DoneFiles
<1>2. CASE ~Done
  <2> DEFINE new == Min(Free(file))
             S == {sessionSocket} \ {-1}
  <2>1. Free(file) # {} /\ sessionSocket' = new
    BY <1>2 DEF Accept
  <2>2. new \in Fds /\ file[new] = "free"
    BY <2>1, NewFd
  <2>3. /\ Close(S, [file EXCEPT ![sessionSocket'] = Head(backlog)], Tail(backlog))
        /\ wronged' = (wronged \/ Wrongs({sessionSocket}))
        /\ UNCHANGED <<pc, btFd, listenSocket, staleExit>>
    BY <1>2 DEF Accept, serverOnly
  <2>4. SocketTypes /\ TableTypes
    BY TypeParts
  <2>5. Head(backlog) \in Peers
    BY <1>2, <2>4, QueueAccept DEF Accept, AcceptReady, TableTypes
  <2>6. \A fd \in Fds : file'[fd] = IF fd \in S THEN "free"
                          ELSE IF fd = new THEN Head(backlog) ELSE file[fd]
    <3>1. \A fd \in Fds : file'[fd] = IF fd \in S THEN "free"
            ELSE [file EXCEPT ![sessionSocket'] = Head(backlog)][fd]
      BY <2>3, CloseFiles
    <3> QED  BY <2>1, <2>2, <2>4, <3>1 DEF TableTypes
  <2> HIDE DEF new
  <2>7. Looping'
    BY <1>0, <2>3 DEF Looping
  <2>8. FilesInv'
    BY <1>0, <2>1, <2>2, <2>3, <2>4, <2>5, <2>6, <2>7, Constants
       DEF FdInv, FilesInv, SocketTypes, Maybe
  <2>9. ~wronged'
    <3>1. ~staleExit => \A fd \in S : file[fd] # "bt"
      BY <1>0, Constants DEF FdInv, OwnInv
    <3> QED  BY <2>3, <3>1 DEF Wrongs, FdInv, OwnInv
  <2>10. ASSUME ~staleExit'
         PROVE  /\ btFd' # -1 => file'[btFd'] = "bt"
                /\ file'[listenSocket'] = "listen"
                /\ file'[sessionSocket'] \in Peers
    <3>1. ~staleExit
      BY <2>3, <2>10
    <3>2. /\ btFd # -1 => btFd \in Fds /\ file[btFd] = "bt"
          /\ listenSocket \in Fds /\ file[listenSocket] = "listen"
          /\ sessionSocket # -1 => sessionSocket \in Fds /\ file[sessionSocket] \in Peers
      BY <1>0, <2>4, <3>1 DEF FdInv, FilesInv, OwnInv, SocketTypes, Maybe
    <3>3. /\ btFd # -1 => btFd \notin S /\ btFd # new
          /\ listenSocket \notin S /\ listenSocket # new /\ new \notin S
      BY <2>2, <3>2, Constants
    <3> QED  BY <2>1, <2>2, <2>3, <2>5, <2>6, <3>2, <3>3
  <2> QED  BY <2>7, <2>8, <2>9, <2>10 DEF FdInv, OwnInv
<1> QED  BY <1>1, <1>2

\* A server that starts takes a free number for its listening socket.
LEMMA StartFiles ==
  ASSUME TypeOK, FdInv, Start
  PROVE  FdInv'
<1>0. ~Looping /\ UNCHANGED btFd
  BY DEF Start, Looping, serverOnly
<1>1. SocketTypes /\ TableTypes
  BY TypeParts
<1> DEFINE new == Min(Free(file))
<1>2. CASE /\ Free(file) # {} /\ listenSocket' = new
           /\ file' = [file EXCEPT ![listenSocket'] = "listen"]
           /\ pc' = "select"
           /\ UNCHANGED <<sessionSocket, staleExit, wronged>>
  <2>1. new \in Fds /\ file[new] = "free"
    BY <1>2, NewFd
  <2> HIDE DEF new
  <2>2. /\ \A fd \in Fds : file'[fd] = IF fd = new THEN "listen" ELSE file[fd]
        /\ Looping'
    BY <1>1, <1>2, <2>1 DEF TableTypes, Looping
  <2>3. FilesInv'
    BY <1>0, <1>1, <1>2, <2>1, <2>2, Constants DEF FdInv, FilesInv, SocketTypes, Maybe
  <2>4. ASSUME ~staleExit
        PROVE  /\ btFd' # -1 => file'[btFd'] = "bt"
               /\ file'[listenSocket'] = "listen" /\ sessionSocket' = -1
    <3>1. btFd # -1 => btFd \in Fds /\ file[btFd] = "bt" /\ btFd # new
      BY <1>1, <2>1, <2>4 DEF FdInv, OwnInv, SocketTypes, Maybe
    <3>2. sessionSocket = -1
      BY <1>0, <2>4 DEF FdInv, OwnInv
    <3> QED  BY <1>0, <1>2, <2>1, <2>2, <3>1, <3>2
  <2> QED  BY <1>2, <2>2, <2>3, <2>4 DEF FdInv, OwnInv
<1>3. CASE pc' = "exited" /\ UNCHANGED <<sessionSocket, file, staleExit, wronged>>
  <2>1. ~Looping'
    BY <1>3 DEF Looping
  <2> QED  BY <1>0, <1>3, <2>1 DEF FdInv, FilesInv, OwnInv
<1>4. CASE /\ pc' = "exited"
           /\ Close({sessionSocket} \ {-1}, file, backlog)
           /\ staleExit' = (staleExit \/ sessionSocket # -1)
           /\ wronged' = (wronged \/ Wrongs({sessionSocket}))
           /\ UNCHANGED sessionSocket
  <2> DEFINE S == {sessionSocket} \ {-1}
  <2>1. \A fd \in Fds : file'[fd] = IF fd \in S THEN "free" ELSE file[fd]
    BY <1>4, CloseFiles
  <2>2. ~Looping'
    BY <1>4 DEF Looping
  <2>3. FilesInv'
    BY <1>0, <1>1, <1>4, <2>1, <2>2, Constants DEF FdInv, FilesInv
  <2>4. ~wronged'
    BY <1>0, <1>4 DEF Wrongs, FdInv, OwnInv
  <2>5. ASSUME ~staleExit'
        PROVE  sessionSocket' = -1 /\ (btFd' # -1 => file'[btFd'] = "bt")
    <3>1. ~staleExit /\ sessionSocket = -1
      BY <1>4, <2>5, TypeParts DEF FlagTypes
    <3>2. btFd # -1 => btFd \in Fds /\ file[btFd] = "bt"
      BY <1>1, <3>1 DEF FdInv, OwnInv, SocketTypes, Maybe
    <3> QED  BY <1>0, <1>4, <2>1, <3>1, <3>2
  <2> QED  BY <2>2, <2>3, <2>4, <2>5 DEF FdInv, OwnInv
<1> QED  BY <1>2, <1>3, <1>4 DEF Start

\* USERIAL_OPEN takes a free number for the node, and USERIAL_CLOSE gives back the
\* node's, unless a server with a stale number has closed it.
LEMMA UserialFiles ==
  ASSUME TypeOK, FdInv, UserialOpen \/ UserialClose
  PROVE  FdInv'
<1>1. SocketTypes /\ TableTypes
  BY TypeParts
<1>2. /\ UNCHANGED <<pc, listenSocket, sessionSocket, staleExit, wronged>>
      /\ Looping' <=> Looping
  BY DEF UserialOpen, UserialClose, history, Looping
<1>3. CASE UserialOpen
  <2> DEFINE new == Min(Free(file))
  <2>1. new \in Fds /\ file[new] = "free" /\ btFd' = new /\ btFd = -1
    BY <1>3, NewFd DEF UserialOpen
  <2> HIDE DEF new
  <2>2. \A fd \in Fds : file'[fd] = IF fd = new THEN "bt" ELSE file[fd]
    BY <1>1, <1>3, <2>1 DEF UserialOpen, TableTypes
  <2>3. FilesInv'
    BY <1>1, <1>2, <2>1, <2>2, Constants DEF FdInv, FilesInv
  <2>4. ASSUME ~staleExit, Looping
        PROVE  /\ file'[listenSocket'] = "listen"
               /\ sessionSocket' # -1 => file'[sessionSocket'] \in Peers
    <3>1. /\ listenSocket \in Fds /\ file[listenSocket] = "listen"
          /\ sessionSocket # -1 => sessionSocket \in Fds /\ file[sessionSocket] \in Peers
      BY <1>1, <2>4 DEF FdInv, FilesInv, OwnInv, SocketTypes, Maybe
    <3> QED  BY <1>2, <2>1, <2>2, <3>1, Constants
  <2> QED  BY <1>2, <2>1, <2>2, <2>3, <2>4 DEF FdInv, OwnInv
<1>4. CASE UserialClose
  <2>1. /\ btFd \in Fds /\ btFd' = -1
        /\ \A fd \in Fds : file'[fd] = IF fd \in {btFd} THEN "free" ELSE file[fd]
    BY <1>1, <1>4, CloseFiles DEF UserialClose, SocketTypes, Maybe
  <2>2. FilesInv'
    BY <1>2, <2>1, Constants DEF FdInv, FilesInv
  <2>3. ASSUME ~staleExit, Looping
        PROVE  /\ file'[listenSocket'] = "listen"
               /\ sessionSocket' # -1 => file'[sessionSocket'] \in Peers
    <3>1. /\ listenSocket \in Fds /\ file[listenSocket] = "listen"
          /\ sessionSocket # -1 => sessionSocket \in Fds /\ file[sessionSocket] \in Peers
          /\ file[btFd] = "bt"
      BY <1>1, <2>1, <2>3, Constants DEF FdInv, FilesInv, OwnInv, SocketTypes, Maybe
    <3> QED  BY <1>2, <2>1, <3>1, Constants
  <2> QED  BY <1>2, <2>1, <2>2, <2>3 DEF FdInv, OwnInv
<1> QED  BY <1>3, <1>4

\* A step that leaves the files and who owns them, and that does not start or stop
\* the server.
LEMMA SameFiles ==
  ASSUME FdInv, UNCHANGED <<file, listenSocket, sessionSocket, btFd, staleExit, wronged>>,
         Looping' <=> Looping
  PROVE  FdInv'
BY DEF FdInv, FilesInv, OwnInv

\* All numbers are forgotten and all files closed.
LEMMA FreshFiles ==
  ASSUME \A fd \in Fds : file[fd] = "free",
         btFd = -1, sessionSocket = -1, ~Looping, ~wronged
  PROVE  FdInv
BY Constants DEF FdInv, FilesInv, OwnInv

\* Every step keeps the descriptors true to what names them.
LEMMA FdNext ==
  ASSUME TypeOK, ThreadInv, FdInv, [Next]_vars
  PROVE  FdInv'
<1> USE DEF shared, history
<1>1. CASE PowerOn
  <2>1. pc = "none" /\ pc' \in {"none", "start"}
    BY <1>1 DEF PowerOn, ThreadInv
  <2>2. Looping' <=> Looping
    BY <2>1 DEF Looping
  <2>3. UNCHANGED <<file, listenSocket, sessionSocket, btFd, staleExit, wronged>>
    BY <1>1 DEF PowerOn
  <2> QED  BY <2>2, <2>3, SameFiles
<1>2. CASE UserialOpen \/ UserialClose
  BY <1>2, UserialFiles
<1>3. CASE PowerOff
  <2>1. CASE Restart
    <3>1. /\ \A fd \in Fds : file'[fd] = "free"
          /\ btFd' = -1 /\ sessionSocket' = -1 /\ ~wronged' /\ pc' = "none"
      BY <2>1 DEF Restart
    <3>2. ~Looping'
      BY <3>1 DEF Looping
    <3> QED  BY <3>1, <3>2, Constants DEF FdInv, FilesInv, OwnInv
  <2>2. CASE ~Restart
    <3>1. UNCHANGED <<pc, file, listenSocket, sessionSocket, btFd, staleExit, wronged>>
      BY <1>3, <2>2 DEF PowerOff
    <3> QED  BY <3>1, SameFiles DEF Looping
  <2> QED  BY <2>1, <2>2
<1>4. CASE Joined
  <2>1. /\ pc = "exited" /\ pc' = "none"
        /\ UNCHANGED <<file, listenSocket, sessionSocket, btFd, staleExit, wronged>>
    BY <1>4 DEF Joined
  <2> QED  BY <2>1, SameFiles DEF Looping
<1>5. CASE Start
  BY <1>5, StartFiles
<1>6. CASE Exit
  <2>1. Looping
    BY <1>6 DEF Exit, Looping
  <2> QED  BY <1>6, <2>1, DoneFiles DEF Exit
<1>7. CASE Accept
  BY <1>7, AcceptFiles
<1>8. CASE Read
  <2>1. Looping
    BY <1>8 DEF Read, SelectOn, Looping
  <2> QED  BY <1>8, <2>1, DoneFiles, ReceiveFiles DEF Read
<1>9. CASE Blocked
  <2>1. Looping
    BY <1>9 DEF Blocked, Looping
  <2>2. CASE Receive
    BY <2>1, <2>2, ReceiveFiles
  <2>3. CASE ~Receive
    <3>1. /\ pc' = "select"
          /\ UNCHANGED <<file, listenSocket, sessionSocket, btFd, staleExit, wronged>>
      BY <1>9, <2>3 DEF Blocked, serverOnly
    <3> QED  BY <2>1, <3>1, SameFiles DEF Looping
  <2> QED  BY <2>2, <2>3
<1>10. CASE \E p \in Peers : Peering(p)
  <2>1. UNCHANGED <<pc, file, listenSocket, sessionSocket, btFd, staleExit, wronged>>
    BY <1>10, PeersOnly DEF peersOnly
  <2> QED  BY <2>1, SameFiles DEF Looping
<1>11. CASE UNCHANGED vars
  <2>1. UNCHANGED <<pc, file, listenSocket, sessionSocket, btFd, staleExit, wronged>>
    BY <1>11 DEF vars
  <2> QED  BY <2>1, SameFiles DEF Looping
<1> QED
  BY <1>1, <1>2, <1>3, <1>4, <1>5, <1>6, <1>7, <1>8, <1>9, <1>10, <1>11, Steps
-----------------------------------------------------------------------------
(***************************************************************************)
(* The theorems.                                                           *)
(***************************************************************************)
LEMMA InitHolds == Init => CoexInv
<1> SUFFICES ASSUME Init PROVE CoexInv
  OBVIOUS
<1> USE DEF Init
<1>1. TableTypes
  BY QueueEmpty DEF TableTypes, Files, Inputs, Misread
<1>2. SocketTypes /\ ThreadTypes /\ FlagTypes
  BY DEF SocketTypes, Maybe, ThreadTypes, Pcs, FlagTypes
<1>3. CountTypes
  BY CoexAssumption DEF CountTypes, CoexAssumption
<1>4. FdInv
  BY FreshFiles DEF Looping
<1> QED  BY <1>1, <1>2, <1>3, <1>4, TypeParts DEF CoexInv, ThreadInv, FdInv

\* CoexInv is inductive, and so an invariant.
LEMMA InvariantHolds == Spec => []CoexInv
<1>1. CoexInv /\ [Next]_vars => CoexInv'
  <2> SUFFICES ASSUME CoexInv, [Next]_vars PROVE CoexInv'
    OBVIOUS
  <2> QED  BY TypesNext, ThreadInvNext, FdNext DEF CoexInv, FdInv
<1> QED  BY <1>1, InitHolds, PTL DEF Spec

\* Every variable of the server has a value of its type, and no client is in the
\* kernel's queue twice.
THEOREM Typed == Spec => []TypeOK
<1>1. CoexInv => TypeOK
  BY DEF CoexInv
<1> QED  BY <1>1, InvariantHolds, PTL

\* While the server runs, sessionSocket is -1 or names its one open connection, and
\* it closes no file of another thread, unless a server has ended with a session.
THEOREM SessionNumberIsTrue == Spec => []SessionIsOpen
<1>1. CoexInv => SessionIsOpen
  BY DEF CoexInv, FilesInv, OwnInv, SessionIsOpen
<1> QED  BY <1>1, InvariantHolds, PTL

\* At most one connection is open, that of sessionSocket, and no socket of the
\* server outlives its thread, after stale numbers as well.
THEOREM ThreadLeavesNothing == Spec => []NoDescriptorLeaks
<1>1. CoexInv => NoDescriptorLeaks
  BY DEF CoexInv, FilesInv, NoDescriptorLeaks
<1> QED  BY <1>1, InvariantHolds, PTL

\* POWER_ON creates a thread only when there is none.
THEOREM ServersDoNotOverlap == Spec => OneServer
<1>1. CoexInv /\ [Next]_vars => (pc' = "start" /\ pc # "start" => pc = "none")
  <2> SUFFICES ASSUME CoexInv, [Next]_vars, pc' = "start", pc # "start"
               PROVE  pc = "none"
    OBVIOUS
  <2>1. CASE PowerOn
    BY <2>1 DEF PowerOn, CoexInv, ThreadInv
  <2>2. CASE ~PowerOn
    <3>1. pc' # pc
      OBVIOUS
    <3>2. CASE PowerOff \/ Joined \/ UserialOpen \/ UserialClose
      BY <2>2, <3>1, <3>2 DEF PowerOff, Restart, Joined, UserialOpen, UserialClose
    <3>3. CASE Receive
      BY <3>3, Receives
    <3>4. CASE Start \/ Exit \/ Accept \/ Read \/ Blocked
      BY <3>1, <3>3, <3>4 DEF Start, Exit, Accept, Read, Blocked, Done, serverOnly
    <3>5. CASE \E p \in Peers : Peering(p)
      BY <3>1, <3>5, PeersOnly DEF peersOnly
    <3>6. CASE UNCHANGED vars
      BY <3>1, <3>6 DEF vars
    <3> QED  BY <2>2, <3>2, <3>4, <3>5, <3>6, Steps
  <2> QED  BY <2>1, <2>2
<1>2. CoexInv /\ [Next]_vars => [pc' = "start" /\ pc # "start" => pc = "none"]_vars
  BY <1>1
<1> QED  BY <1>2, InvariantHolds, PTL DEF Spec, OneServer
=============================================================================
