--------------------------- MODULE UartInitProofs ---------------------------
(***************************************************************************)
(* Proofs about UartInit, for any number of attempts, reads and losses.    *)
(***************************************************************************)
EXTENDS UartInit, FiniteSetTheorems, SequenceTheorems, TLAPS

Trying == pc \in {"send", "read", "off", "on"}

\* Each loop ends where its counter reaches the bound.
CountInv ==
  /\ Trying => retry < Attempts
  /\ pc = "send" => retryCnt = 0
  /\ pc = "read" => retryCnt < Reads

\* The three parts of TypeOK: the numbers, the names and flags, the events.
Numbers ==
  /\ retry \in 0 .. Attempts /\ retryCnt \in 0 .. Reads
  /\ epoch \in Nat /\ losses \in 0 .. MaxLosses

Names ==
  /\ pc \in {"idle", "send", "read", "off", "on", "done"}
  /\ host \in Speeds /\ ctl \in Speeds /\ power \in {"off", "booting", "ready"}
  /\ command \in BOOLEAN /\ upioFailed \in BOOLEAN
  /\ result \in {"none", "ok", "fail"}

Events == tty \in Seq(Items) /\ rsp \in Items \cup {Zeros}

TypeInv == Numbers /\ CountInv /\ Names /\ Events
-----------------------------------------------------------------------------
(***************************************************************************)
(* What success and failure mean.                                          *)
(***************************************************************************)
\* Answers are no younger than the power cycle, and a consent of this power
\* cycle is that of a controller that has changed its speed.
Consent(answer) ==
  /\ answer.epoch <= epoch
  /\ answer.kind = "good" /\ answer.epoch = epoch => ctl = "fast" /\ power = "ready"

ControllerInv ==
  /\ power = "off" => ctl = "slow" /\ ~command
  /\ command => power = "ready"
  /\ \A i \in 1 .. Len(tty) : Consent(tty[i])
  /\ Consent(rsp)

\* The power cycle at the end of an attempt, as far as the pin works.
CycleInv ==
  /\ pc = "on" /\ ~upioFailed => power = "off"
  /\ power = "off" /\ pc # "on" =>
       upioFailed \/ \A i \in 1 .. Len(tty) : ~Accepts(tty[i])

\* The results.
ResultInv ==
  /\ Trying => result = "none" /\ host = "slow"
  /\ pc = "done" => result \in {"ok", "fail"}
  /\ result = "ok" =>
       /\ host = "fast" /\ Accepts(rsp)
       /\ power # "off" \/ upioFailed
  /\ result = "fail" =>
       /\ host = "slow"
       /\ upioFailed \/ (ctl = "slow" /\ power # "off" /\ ~command)
  /\ ~Trying /\ command => ctl = "fast" \/ Mistaken \/ upioFailed

LineInv == ControllerInv /\ CycleInv /\ ResultInv
-----------------------------------------------------------------------------
(***************************************************************************)
(* What an attempt that fails has lost.                                    *)
(***************************************************************************)
\* At least n losses, as far as they are counted.
Paid(n) == n <= losses \/ MaxLosses <= losses
PaidAfter(n) == n <= losses' \/ MaxLosses <= losses'

Failed == IF pc \in {"off", "on"} THEN retry + 1 ELSE retry

\* What the host would not accept.
Wrong(items) == {i \in 1 .. Len(items) : ~Accepts(items[i])}
Bad(items) == Cardinality(Wrong(items))

\* The controller does not hear the next command, or does not hear this one.
Deaf ==
  CASE pc = "send" -> power = "off" \/ ctl = "fast"
    [] pc = "read" -> ~command
    [] pc = "on"   -> ~(power = "off" /\ ctl = "slow")
    [] OTHER -> FALSE

\* Each attempt that has failed but the first one was a loss, and each event and
\* byte that waits to be taken for an answer is one; if nothing is there to be
\* read, and the controller is deaf, the first was a loss as well.
LossInv ==
  Trying =>
    /\ Paid(Failed - 1 + Bad(tty))
    /\ Deaf /\ tty = <<>> => Paid(Failed)

GivenUpInv == result = "fail" => Paid(Attempts - 1)
-----------------------------------------------------------------------------
(***************************************************************************)
(* Types.                                                                  *)
(***************************************************************************)
LEMMA TypeParts == TypeOK <=> Numbers /\ Names /\ Events
BY DEF TypeOK, Numbers, Names, Events

\* Losses are added up to MaxLosses, where counting ends.
LEMMA LossCounts ==
  ASSUME Numbers, NEW n \in Nat, Loss(n)
  PROVE  /\ losses' \in 0 .. MaxLosses
         /\ losses' = losses + n \/ losses' = MaxLosses
         /\ \A m, k \in Int : Paid(m) /\ k <= m + n => PaidAfter(k)
BY UartAssumption DEF Numbers, Loss, Paid, PaidAfter

\* Without a loss nothing is paid for or forgotten.
LEMMA NothingLost ==
  ASSUME Numbers, UNCHANGED losses
  PROVE  /\ losses' \in 0 .. MaxLosses
         /\ \A m, k \in Int : Paid(m) /\ k <= m => PaidAfter(k)
BY UartAssumption DEF Numbers, Paid, PaidAfter

\* A burst is a sequence of bytes, which are items that nobody accepts.
LEMMA BurstsAreItems ==
  ASSUME NEW burst \in Bursts
  PROVE  /\ burst \in Seq(Items) /\ Len(burst) \in Nat
         /\ \A i \in 1 .. Len(burst) : burst[i] \in Bytes /\ ~Accepts(burst[i])
<1>1. PICK n \in Nat : burst \in [1 .. n -> Bytes]
  BY UartAssumption DEF Bursts
<1>2. Bytes \subseteq Items
  BY DEF Bytes, Items
<1>3. burst \in Seq(Items) /\ Len(burst) = n
  BY <1>1, <1>2
<1> QED  BY <1>1, <1>3 DEF Bytes, Accepts

\* What arrives follows what is there.
LEMMA Arrives ==
  ASSUME Events, NEW more \in Seq(Items), tty' = tty \o more
  PROVE  /\ tty' \in Seq(Items)
         /\ Len(tty') = Len(tty) + Len(more)
         /\ \A i \in 1 .. Len(tty) : tty'[i] = tty[i]
         /\ \A i \in Len(tty) + 1 .. Len(tty') : tty'[i] = more[i - Len(tty)]
BY ConcatProperties, LenProperties DEF Events

\* An event that arrives alone.
LEMMA OneArrives ==
  ASSUME Events, NEW item \in Items, tty' = Append(tty, item)
  PROVE  /\ tty' = tty \o <<item>> /\ <<item>> \in Seq(Items)
         /\ tty' \in Seq(Items)
         /\ Len(tty') = Len(tty) + 1
         /\ \A i \in 1 .. Len(tty) : tty'[i] = tty[i]
         /\ tty'[Len(tty) + 1] = item
BY DEF Events

\* A read takes the first n items and may leave bytes of the last of them.
Rebuild(rest, items, n) == rest \o SubSeq(items, n + 1, Len(items))

LEMMA Rebuilt ==
  ASSUME NEW s \in Seq(Items), NEW rest \in Seq(Items), NEW n \in 0 .. Len(s)
  PROVE  /\ Rebuild(rest, s, n) \in Seq(Items)
         /\ Len(Rebuild(rest, s, n)) = Len(rest) + (Len(s) - n)
         /\ \A i \in 1 .. Len(rest) : Rebuild(rest, s, n)[i] = rest[i]
         /\ \A i \in Len(rest) + 1 .. Len(Rebuild(rest, s, n)) :
              Rebuild(rest, s, n)[i] = s[i - Len(rest) + n]
<1> DEFINE t == Rebuild(rest, s, n)
           u == SubSeq(s, n + 1, Len(s))
<1>1. Len(s) \in Nat /\ Len(rest) \in Nat /\ n \in Nat /\ n <= Len(s)
  BY LenProperties
<1>2. \A i \in n + 1 .. Len(s) : s[i] \in Items
  BY <1>1, ElementOfSeq
<1>3. u \in Seq(Items) /\ Len(u) = Len(s) - n
  BY <1>1, <1>2, SubSeqProperties
<1>4. \A i \in 1 .. Len(s) - n : u[i] = s[n + i]
  <2>1. \A i \in 1 .. Len(s) - (n + 1) + 1 : u[i] = s[(n + 1) + i - 1]
    BY <1>1, <1>2, SubSeqProperties
  <2> QED  BY <1>1, <2>1
<1>5. /\ t \in Seq(Items) /\ Len(t) = Len(rest) + Len(u)
      /\ \A i \in 1 .. Len(rest) + Len(u) :
           t[i] = IF i <= Len(rest) THEN rest[i] ELSE u[i - Len(rest)]
  BY <1>3, ConcatProperties DEF Rebuild
<1> HIDE DEF t, u
<1>6. ASSUME NEW i \in Len(rest) + 1 .. Len(t)
      PROVE  t[i] = s[i - Len(rest) + n]
  <2>1. i - Len(rest) \in 1 .. Len(s) - n /\ i \in 1 .. Len(rest) + Len(u) /\ ~(i <= Len(rest))
    BY <1>1, <1>3, <1>5, <1>6
  <2>2. t[i] = u[i - Len(rest)] /\ u[i - Len(rest)] = s[n + (i - Len(rest))]
    BY <1>4, <1>5, <2>1
  <2>3. n + (i - Len(rest)) = i - Len(rest) + n
    BY <1>1, <2>1
  <2> QED  BY <2>2, <2>3
<1>7. Len(t) = Len(rest) + (Len(s) - n)
  BY <1>3, <1>5
<1>8. \A i \in 1 .. Len(rest) : i \in 1 .. Len(rest) + Len(u) /\ i <= Len(rest)
  BY <1>1, <1>3
<1>9. \A i \in 1 .. Len(rest) : t[i] = rest[i]
  BY <1>5, <1>8
<1> QED  BY <1>5, <1>6, <1>7, <1>9 DEF t

\* The oldest item is an item.
LEMMA HeadIsFirst ==
  ASSUME Events, tty # <<>>
  PROVE  Head(tty) \in Items /\ Head(tty) = tty[1] /\ Len(tty) \in Nat \ {0}
BY DEF Events

\* Reading only the oldest item is the case n = 1, without bytes left over.
LEMMA TailIsRebuilt ==
  ASSUME Events, tty # <<>>
  PROVE  Tail(tty) = Rebuild(<<>>, tty, 1)
<1>1. Tail(tty) = SubSeq(tty, 2, Len(tty)) /\ Tail(tty) \in Seq(Items)
  BY TailIsSubSeq, HeadTailProperties DEF Events
<1> QED  BY <1>1, ConcatEmptySeq DEF Rebuild
-----------------------------------------------------------------------------
(***************************************************************************)
(* Counting what nobody accepts.                                           *)
(***************************************************************************)
\* A sequence has as many places as its length says.
LEMMA OneToN ==
  ASSUME NEW n \in Nat
  PROVE  IsFiniteSet(1 .. n) /\ Cardinality(1 .. n) = n
<1>1. 1 \in Int /\ n \in Int /\ (IF 1 > n THEN 0 ELSE n - 1 + 1) = n
  OBVIOUS
<1> QED  BY <1>1, FS_Interval

\* The places of a sequence are finitely many.
LEMMA WrongIsFinite ==
  ASSUME NEW s \in Seq(Items)
  PROVE  /\ IsFiniteSet(Wrong(s)) /\ Bad(s) \in Nat
         /\ Wrong(s) \subseteq 1 .. Len(s)
<1>1. Wrong(s) \in SUBSET (1 .. Len(s)) /\ Len(s) \in Nat
  BY LenProperties DEF Wrong
<1>2. IsFiniteSet(1 .. Len(s))
  BY <1>1, FS_Interval
<1>3. IsFiniteSet(Wrong(s))
  BY <1>1, <1>2, FS_Subset
<1> QED  BY <1>1, <1>3, FS_CardinalityType DEF Bad

\* Nothing on the line, nothing wrong on it.
LEMMA NothingIsBad == Bad(<<>>) = 0
<1>1. Wrong(<<>>) = {}
  BY DEF Wrong
<1> QED  BY <1>1, FS_EmptySet DEF Bad

\* What arrives adds no more than its length; an answer that is accepted, nothing.
LEMMA ArrivesBad ==
  ASSUME Events, NEW more \in Seq(Items), tty' = tty \o more
  PROVE  /\ Bad(tty') <= Bad(tty) + Len(more)
         /\ (\A i \in 1 .. Len(more) : Accepts(more[i])) => Bad(tty') <= Bad(tty)
<1> DEFINE new == Len(tty) + 1 .. Len(tty')
<1>1. /\ tty' \in Seq(Items) /\ Len(tty') = Len(tty) + Len(more)
      /\ \A i \in 1 .. Len(tty) : tty'[i] = tty[i]
      /\ \A i \in new : tty'[i] = more[i - Len(tty)]
      /\ Len(tty) \in Nat /\ Len(more) \in Nat
  BY Arrives, LenProperties DEF Events
<1>2. IsFiniteSet(Wrong(tty)) /\ Bad(tty) \in Nat /\ IsFiniteSet(Wrong(tty')) /\ Bad(tty') \in Nat
  BY <1>1, WrongIsFinite DEF Events
<1>3. IsFiniteSet(new) /\ Cardinality(new) = Len(more)
  <2>1. /\ Len(tty) + 1 \in Int /\ Len(tty') \in Int
        /\ (IF Len(tty) + 1 > Len(tty') THEN 0 ELSE Len(tty') - (Len(tty) + 1) + 1) = Len(more)
    BY <1>1
  <2> QED  BY <2>1, FS_Interval
<1>4. Wrong(tty') \subseteq Wrong(tty) \cup new
  BY <1>1 DEF Wrong
<1> HIDE DEF new
<1>5. /\ IsFiniteSet(Wrong(tty) \cup new)
      /\ Cardinality(Wrong(tty) \cup new) =
           Bad(tty) + Len(more) - Cardinality(Wrong(tty) \cap new)
  BY <1>2, <1>3, FS_Union DEF Bad
<1>6. Cardinality(Wrong(tty) \cap new) \in Nat
  BY <1>2, FS_Subset, FS_CardinalityType
<1>7. Bad(tty') <= Cardinality(Wrong(tty) \cup new)
  BY <1>4, <1>5, FS_Subset DEF Bad
<1>8. Bad(tty') <= Bad(tty) + Len(more)
  BY <1>1, <1>2, <1>5, <1>6, <1>7
<1>9. ASSUME \A i \in 1 .. Len(more) : Accepts(more[i])
      PROVE  Bad(tty') <= Bad(tty)
  <2>1. \A i \in Len(tty) + 1 .. Len(tty') : i - Len(tty) \in 1 .. Len(more)
    BY <1>1
  <2>2. Wrong(tty') \subseteq Wrong(tty)
    BY <1>1, <1>9, <2>1 DEF Wrong, new
  <2> QED  BY <1>2, <2>2, FS_Subset DEF Bad
<1> QED  BY <1>8, <1>9

\* A read that takes items leaves what was wrong in the others, and the bytes it
\* leaves over.
LEMMA RebuiltBad ==
  ASSUME NEW s \in Seq(Items), NEW rest \in Seq(Items), NEW n \in 0 .. Len(s)
  PROVE  /\ Bad(Rebuild(rest, s, n)) <= Len(rest) + Bad(s)
         /\ n >= 1 /\ ~Accepts(s[1]) =>
              Bad(Rebuild(rest, s, n)) <= Len(rest) + Bad(s) - 1
<1> DEFINE t == Rebuild(rest, s, n)
<1>0. Len(s) \in Nat /\ Len(rest) \in Nat /\ n \in Nat
  BY LenProperties
<1>1. /\ t \in Seq(Items) /\ Len(t) = Len(rest) + (Len(s) - n)
      /\ \A i \in Len(rest) + 1 .. Len(t) : t[i] = s[i - Len(rest) + n]
      /\ Len(s) \in Nat /\ Len(rest) \in Nat /\ n \in Nat
  BY <1>0, Rebuilt
<1> HIDE DEF t
<1> DEFINE old == 1 .. Len(rest)
           moved == {i \in Wrong(t) : i > Len(rest)}
           there == {i \in Wrong(s) : i > n}
           f == [i \in moved |-> i - Len(rest) + n]
<1>2. /\ IsFiniteSet(Wrong(s)) /\ Bad(s) \in Nat
      /\ IsFiniteSet(Wrong(t)) /\ Bad(t) \in Nat /\ Wrong(t) \subseteq 1 .. Len(t)
  BY <1>1, WrongIsFinite
<1>3. there \in SUBSET Wrong(s) /\ IsFiniteSet(there)
  BY <1>2, FS_Subset
<1>4. \A i \in moved : i - Len(rest) + n \in there
  <2> TAKE i \in moved
  <2>1. i \in Len(rest) + 1 .. Len(t) /\ ~Accepts(t[i])
    BY <1>1, <1>2 DEF Wrong
  <2>2. i - Len(rest) + n \in 1 .. Len(s) /\ i - Len(rest) + n > n
    BY <1>1, <2>1
  <2> QED  BY <1>1, <2>1, <2>2 DEF Wrong
<1>5. f \in Injection(moved, there)
  <2>1. f \in [moved -> there]
    BY <1>4
  <2>2. \A i, j \in moved : f[i] = f[j] => i = j
    BY <1>1, <1>2
  <2> QED  BY <2>1, <2>2 DEF Injection, IsInjective
<1>6. IsFiniteSet(moved) /\ Cardinality(moved) <= Cardinality(there)
  BY <1>3, <1>5, FS_Injection
<1>7. IsFiniteSet(old) /\ Cardinality(old) = Len(rest)
  BY <1>1, OneToN DEF old
<1>8. Wrong(t) \subseteq old \cup moved
  BY <1>1, <1>2
<1> HIDE DEF old, moved, there
<1>9. /\ IsFiniteSet(old \cup moved)
      /\ Cardinality(old \cup moved) =
           Len(rest) + Cardinality(moved) - Cardinality(old \cap moved)
  BY <1>6, <1>7, FS_Union
<1>10. /\ Cardinality(old \cap moved) \in Nat /\ Cardinality(moved) \in Nat
       /\ Cardinality(there) \in Nat
  BY <1>3, <1>6, <1>7, FS_Subset, FS_CardinalityType
<1>11. Bad(t) <= Cardinality(old \cup moved)
  BY <1>8, <1>9, FS_Subset DEF Bad
<1>12. Bad(t) <= Len(rest) + Cardinality(there)
  BY <1>1, <1>2, <1>6, <1>9, <1>10, <1>11
<1>13. Cardinality(there) <= Bad(s)
  BY <1>2, <1>3, FS_Subset DEF Bad
<1>14. ASSUME n >= 1, ~Accepts(s[1])
       PROVE  Cardinality(there) <= Bad(s) - 1
  <2>1. 1 \in Wrong(s)
    BY <1>1, <1>14 DEF Wrong
  <2>2. IsFiniteSet(Wrong(s) \ {1}) /\ Cardinality(Wrong(s) \ {1}) = Bad(s) - 1
    BY <1>2, <2>1, FS_RemoveElement DEF Bad
  <2>3. there \subseteq Wrong(s) \ {1}
    BY <1>1, <1>14 DEF there
  <2> QED  BY <2>2, <2>3, FS_Subset
<1>15. Bad(t) <= Len(rest) + Bad(s)
  BY <1>1, <1>2, <1>10, <1>12, <1>13
<1>16. n >= 1 /\ ~Accepts(s[1]) => Bad(t) <= Len(rest) + Bad(s) - 1
  BY <1>1, <1>2, <1>10, <1>12, <1>14
<1> QED  BY <1>15, <1>16 DEF t
-----------------------------------------------------------------------------
(***************************************************************************)
(* What a read does to the line, whichever of its ends it takes.           *)
(***************************************************************************)
\* Whatever the controller answers is an event.
LEMMA AnswersAreTyped ==
  ASSUME Numbers, NEW kind \in {"good", "refused", "other"}
  PROVE  Answer(kind) \in Items
BY DEF Numbers, Answer, Items

\* Everything that is left was there before, or is a byte out of frame.
FromBefore ==
  \A i \in 1 .. Len(tty') :
    tty'[i] \in Bytes \/ \E j \in 1 .. Len(tty) : tty'[i] = tty[j]

\* What is left on the line by one read.
LEMMA ReadLeaves ==
  ASSUME Events, NEW rest \in Bursts, NEW n \in 0 .. Len(tty),
         tty' = Rebuild(rest, tty, n)
  PROVE  tty' \in Seq(Items) /\ FromBefore
<1>1. /\ rest \in Seq(Items) /\ Len(rest) \in Nat
      /\ \A i \in 1 .. Len(rest) : rest[i] \in Bytes
  BY BurstsAreItems
<1>2. /\ tty' \in Seq(Items) /\ Len(tty') = Len(rest) + (Len(tty) - n)
      /\ \A i \in 1 .. Len(rest) : tty'[i] = rest[i]
      /\ \A i \in Len(rest) + 1 .. Len(tty') : tty'[i] = tty[i - Len(rest) + n]
  BY <1>1, Rebuilt DEF Events
<1>3. Len(tty) \in Nat /\ n \in Nat
  BY LenProperties DEF Events
<1>4. ASSUME NEW i \in 1 .. Len(tty')
      PROVE  tty'[i] \in Bytes \/ \E j \in 1 .. Len(tty) : tty'[i] = tty[j]
  <2>1. CASE i <= Len(rest)
    BY <1>1, <1>2, <1>4, <2>1
  <2>2. CASE ~(i <= Len(rest))
    <3>1. i \in Len(rest) + 1 .. Len(tty') /\ i - Len(rest) + n \in 1 .. Len(tty)
      BY <1>1, <1>2, <1>3, <1>4, <2>2
    <3> QED  BY <1>2, <3>1
  <2> QED  BY <2>1, <2>2
<1> QED  BY <1>2, <1>4 DEF FromBefore

\* No byte left over.
LEMMA NoRest == <<>> \in Bursts
<1>1. <<>> \in [1 .. 0 -> Bytes] /\ 0 \in 0 .. MaxBytes
  BY UartAssumption
<1> QED  BY <1>1 DEF Bursts

\* A read leaves items, what it compares was the first of them, and an attempt
\* that it makes fail is paid for by that or by a loss.
LEMMA ReadSummary ==
  ASSUME Numbers, Events, Read
  PROVE  /\ tty' \in Seq(Items) /\ FromBefore
         /\ rsp' = Zeros \/ (tty # <<>> /\ rsp' = Head(tty))
         /\ pc = "read" /\ Compare
         /\ losses' \in 0 .. MaxLosses
         /\ ~Accepts(rsp') =>
              \A m \in Int : Paid(m + Bad(tty)) => PaidAfter(m + 1 + Bad(tty'))
<1>0. tty \in Seq(Items) /\ Len(tty) \in Nat /\ Bad(tty) \in Nat
  BY WrongIsFinite, LenProperties DEF Events
<1>1. CASE ReadEvent \/ ReadByte
  <2>1. /\ tty # <<>> /\ tty' = Rebuild(<<>>, tty, 1)
        /\ rsp' = Head(tty) /\ 1 \in 0 .. Len(tty) /\ UNCHANGED losses
        /\ pc = "read" /\ Compare
    BY <1>1, TailIsRebuilt, HeadIsFirst DEF ReadEvent, ReadByte
  <2>2. <<>> \in Seq(Items) /\ Len(<<>>) = 0 /\ Head(tty) = tty[1]
    BY <2>1, HeadIsFirst
  <2>3. tty' \in Seq(Items) /\ FromBefore
    BY <2>1, NoRest, ReadLeaves
  <2>4. Bad(tty') \in Nat
    BY <2>3, WrongIsFinite
  <2>5. ~Accepts(rsp') => Bad(tty') <= Bad(tty) - 1
    <3>1. ~Accepts(tty[1]) => Bad(tty') <= Len(<<>>) + Bad(tty) - 1
      <4>1. 1 >= 1 /\ 1 \in 0 .. Len(tty)
        BY <2>1
      <4> QED  BY <1>0, <2>1, <2>2, <4>1, RebuiltBad, Zenon
    <3>2. Len(<<>>) + Bad(tty) - 1 = Bad(tty) - 1
      BY <1>0, <2>2
    <3> QED  BY <2>1, <2>2, <3>1, <3>2 DEF Accepts
  <2>6. \A m \in Int : \/ m + 1 + Bad(tty') <= m + Bad(tty)
                       \/ ~(Bad(tty') <= Bad(tty) - 1)
    BY <1>0, <2>4
  <2>7. ~Accepts(rsp') =>
          \A m \in Int : Paid(m + Bad(tty)) => PaidAfter(m + 1 + Bad(tty'))
    <3>1. \A m \in Int : m + Bad(tty) \in Int /\ m + 1 + Bad(tty') \in Int
      BY <1>0, <2>4
    <3>2. \A m, k \in Int : Paid(m) /\ k <= m => PaidAfter(k)
      BY <2>1, NothingLost
    <3> QED  BY <2>5, <2>6, <3>1, <3>2
  <2> QED  BY <2>1, <2>3, <2>7, NothingLost
<1>2. CASE ReadCutOff
  <2>1. /\ tty # <<>> /\ tty' \in Bursts /\ rsp' \in {Head(tty), Zeros}
        /\ pc = "read" /\ Compare /\ Loss(1 + Len(tty')) /\ Len(tty) = 1
    BY <1>2 DEF ReadCutOff
  <2>2. /\ tty' \in Seq(Items) /\ Len(tty') \in Nat
        /\ \A i \in 1 .. Len(tty') : tty'[i] \in Bytes
    BY <2>1, BurstsAreItems
  <2>3. Bad(tty') \in Nat /\ Bad(tty') <= Len(tty')
    <3>1. Wrong(tty') \in SUBSET (1 .. Len(tty'))
      BY <2>2, WrongIsFinite
    <3>2. IsFiniteSet(1 .. Len(tty')) /\ Cardinality(1 .. Len(tty')) = Len(tty')
      BY <2>2, OneToN
    <3> QED  BY <2>2, <3>1, <3>2, FS_Subset, WrongIsFinite DEF Bad
  <2>4. losses' \in 0 .. MaxLosses
    BY <2>1, <2>2, LossCounts
  <2>5. \A m \in Int : m + 1 + Bad(tty') <= m + Bad(tty) + (1 + Len(tty'))
    BY <1>0, <2>2, <2>3
  <2>6. \A m \in Int : Paid(m + Bad(tty)) => PaidAfter(m + 1 + Bad(tty'))
    <3>1. 1 + Len(tty') \in Nat
      BY <2>2
    <3>2. \A m, k \in Int : Paid(m) /\ k <= m + (1 + Len(tty')) => PaidAfter(k)
      BY <2>1, <3>1, LossCounts
    <3>3. \A m \in Int : m + Bad(tty) \in Int /\ m + 1 + Bad(tty') \in Int
      BY <1>0, <2>3
    <3> QED  BY <2>5, <3>2, <3>3
  <2> QED  BY <2>1, <2>2, <2>4, <2>6 DEF FromBefore
<1>3. CASE ReadMisframed
  <2>1. /\ tty # <<>> /\ rsp' = Head(tty) /\ pc = "read" /\ Compare
        /\ Head(tty).kind = "type"
    BY <1>3 DEF ReadMisframed
  <2>2. PICK n \in 1 .. Len(tty), rest \in Bursts :
          tty' = Rebuild(rest, tty, n) /\ Loss(Len(rest))
    BY <1>3 DEF ReadMisframed, Rebuild
  <2>3. rest \in Seq(Items) /\ Len(rest) \in Nat /\ n \in 0 .. Len(tty) /\ n >= 1
    BY <1>0, BurstsAreItems
  <2>4. tty' \in Seq(Items) /\ FromBefore
    BY <2>2, <2>3, ReadLeaves
  <2>5. ~Accepts(tty[1])
    BY <2>1, HeadIsFirst DEF Accepts
  <2>6. Bad(tty') <= Len(rest) + Bad(tty) - 1 /\ Bad(tty') \in Nat
    BY <1>0, <2>2, <2>3, <2>4, <2>5, RebuiltBad, WrongIsFinite
  <2>7. \A m \in Int : m + 1 + Bad(tty') <= m + Bad(tty) + Len(rest)
    BY <1>0, <2>3, <2>6
  <2>8. \A m, k \in Int : Paid(m) /\ k <= m + Len(rest) => PaidAfter(k)
    BY <2>2, <2>3, LossCounts
  <2>9. \A m \in Int : m + Bad(tty) \in Int /\ m + 1 + Bad(tty') \in Int
    BY <1>0, <2>6
  <2>10. \A m \in Int : Paid(m + Bad(tty)) => PaidAfter(m + 1 + Bad(tty'))
    BY <2>7, <2>8, <2>9
  <2> QED  BY <2>1, <2>2, <2>3, <2>4, <2>10, LossCounts
<1>4. CASE ReadFails
  <2>1. pc = "read" /\ rsp' = Zeros /\ UNCHANGED tty /\ Compare /\ Loss(1)
    BY <1>4 DEF ReadFails
  <2>2. \A m \in Int : /\ m + Bad(tty) \in Int /\ m + 1 + Bad(tty) \in Int
                       /\ m + 1 + Bad(tty) <= m + Bad(tty) + 1
    BY <1>0
  <2>3. Bad(tty') = Bad(tty)
    BY <2>1
  <2>4. \A m \in Int : Paid(m + Bad(tty)) => PaidAfter(m + 1 + Bad(tty'))
    BY <2>1, <2>2, <2>3, LossCounts
  <2> QED  BY <1>0, <2>1, <2>4, LossCounts DEF FromBefore
<1> QED  BY <1>1, <1>2, <1>3, <1>4 DEF Read

\* Noise and damaged answers arrive as bytes.
LEMMA BurstArrives ==
  ASSUME Events, NEW burst \in Bursts, tty' = tty \o burst
  PROVE  tty' \in Seq(Items) /\ FromBefore /\ Bad(tty') <= Bad(tty) + Len(burst)
<1>1. /\ burst \in Seq(Items) /\ Len(burst) \in Nat
      /\ \A i \in 1 .. Len(burst) : burst[i] \in Bytes
  BY BurstsAreItems
<1>2. /\ tty' \in Seq(Items) /\ Len(tty') = Len(tty) + Len(burst)
      /\ \A i \in 1 .. Len(tty) : tty'[i] = tty[i]
      /\ \A i \in Len(tty) + 1 .. Len(tty') : tty'[i] = burst[i - Len(tty)]
      /\ Len(tty) \in Nat
  BY <1>1, Arrives, LenProperties DEF Events
<1>3. ASSUME NEW i \in 1 .. Len(tty')
      PROVE  tty'[i] \in Bytes \/ \E j \in 1 .. Len(tty) : tty'[i] = tty[j]
  <2>1. CASE i <= Len(tty)
    BY <1>2, <1>3, <2>1
  <2>2. CASE ~(i <= Len(tty))
    <3>1. i \in Len(tty) + 1 .. Len(tty') /\ i - Len(tty) \in 1 .. Len(burst)
      BY <1>1, <1>2, <1>3, <2>2
    <3> QED  BY <1>1, <1>2, <3>1
  <2> QED  BY <2>1, <2>2
<1> QED  BY <1>1, <1>2, <1>3, ArrivesBad DEF FromBefore
-----------------------------------------------------------------------------
\* The power cycles that answers belong to are numbers.
LEMMA EventEpochs ==
  ASSUME Events
  PROVE  rsp.epoch \in Nat /\ \A i \in 1 .. Len(tty) : tty[i].epoch \in Nat
<1>1. Zeros.epoch \in Nat
  BY DEF Zeros
<1>2. rsp \in Items => rsp.epoch \in Nat
  BY DEF Items
<1>3. ASSUME NEW i \in 1 .. Len(tty) PROVE tty[i].epoch \in Nat
  <2>1. tty[i] \in Items
    BY DEF Events
  <2> QED  BY <2>1 DEF Items
<1> QED  BY <1>1, <1>2, <1>3 DEF Events

\* The numbers stay in their ranges and the loops' counters below their bounds.
LEMMA NumbersNext ==
  ASSUME Numbers, CountInv, Events, [Next]_vars
  PROVE  Numbers' /\ CountInv'
<1>0. \A n \in Nat : Loss(n) => losses' \in 0 .. MaxLosses
  BY LossCounts
<1> USE UartAssumption DEF Numbers, CountInv, Trying
<1>1. CASE Start
  BY <1>1 DEF Start
<1>2. CASE NotSent
  BY <1>0, <1>2 DEF NotSent, control, chip
<1>3. CASE Sent
  BY <1>0, <1>3 DEF Sent
<1>4. CASE Read
  <2>1. losses' \in 0 .. MaxLosses /\ Compare /\ pc = "read"
    BY <1>4, ReadSummary
  <2> QED  BY <2>1 DEF Compare, chip
<1>5. CASE ReadNothing
  BY <1>0, <1>5 DEF ReadNothing, chip
<1>6. CASE PowerOff
  BY <1>0, <1>6 DEF PowerOff, PinFails, history
<1>7. CASE PowerOn
  BY <1>0, <1>7 DEF PowerOn, PinFails, LastTry, history
<1>8. CASE Close
  BY <1>8 DEF Close, chip, history
<1>9. CASE Boot
  BY <1>9 DEF Boot, control, history
<1>10. CASE Execute
  <2>1. \A burst \in Bursts : 1 + Len(burst) \in Nat
    BY BurstsAreItems
  <2>2. UNCHANGED losses \/ \E n \in Nat : Loss(n)
    BY <1>10, <2>1 DEF Execute
  <2>3. losses' \in 0 .. MaxLosses
    BY <1>0, <2>2
  <2> QED  BY <1>10, <2>3 DEF Execute, control
<1>11. CASE Stray
  <2>1. \A burst \in Bursts : Len(burst) \in Nat
    BY BurstsAreItems
  <2>2. \E n \in Nat : Loss(n)
    BY <1>11, <2>1 DEF Stray
  <2>3. losses' \in 0 .. MaxLosses
    BY <1>0, <2>2
  <2> QED  BY <1>11, <2>3 DEF Stray, control, chip
<1>12. CASE UNCHANGED vars
  BY <1>12 DEF vars, control, line, chip, history
<1> QED
  BY <1>1, <1>2, <1>3, <1>4, <1>5, <1>6, <1>7, <1>8, <1>9, <1>10, <1>11, <1>12
     DEF Next, Attempt, Controller

\* Names and flags keep their types.
LEMMA NamesNext == Names /\ [Next]_vars => Names'
<1> SUFFICES ASSUME Names, [Next]_vars PROVE Names'
  OBVIOUS
<1> USE DEF Names, Speeds
<1>1. CASE Start \/ NotSent \/ Close
  BY <1>1 DEF Start, NotSent, Close, control, line, chip, history
<1>2. CASE Sent
  BY <1>2 DEF Sent, line
<1>3. CASE Read \/ ReadNothing
  BY <1>3 DEF Read, ReadEvent, ReadCutOff, ReadByte, ReadMisframed, ReadFails,
     ReadNothing, Compare, chip
<1>4. CASE PowerOff \/ PowerOn
  BY <1>4 DEF PowerOff, PowerOn, PinFails, line, history
<1>5. CASE Boot \/ Execute \/ Stray
  BY <1>5 DEF Boot, Execute, Stray, control, line, chip, history
<1>6. CASE UNCHANGED vars
  BY <1>6 DEF vars, control, line, chip, history
<1> QED
  BY <1>1, <1>2, <1>3, <1>4, <1>5, <1>6 DEF Next, Attempt, Controller

\* What is on the line and what was read are answers.
LEMMA EventsNext == Numbers /\ Events /\ [Next]_vars => Events'
<1> SUFFICES ASSUME Numbers, Events, [Next]_vars PROVE Events'
  OBVIOUS
<1>1. CASE Start
  BY <1>1 DEF Start, Events
<1>2. CASE Read
  BY <1>2, ReadSummary, HeadIsFirst DEF Events
<1>3. CASE ReadNothing
  BY <1>3 DEF ReadNothing, Events
<1>4. CASE Execute
  <2>1. UNCHANGED rsp
    BY <1>4 DEF Execute
  <2>2. tty' \in Seq(Items)
    BY <1>4, OneArrives, BurstArrives, AnswersAreTyped DEF Execute
  <2> QED  BY <2>1, <2>2 DEF Events
<1>5. CASE Stray
  <2>1. UNCHANGED rsp
    BY <1>5 DEF Stray
  <2>2. tty' \in Seq(Items)
    BY <1>5, OneArrives, BurstArrives, AnswersAreTyped DEF Stray
  <2> QED  BY <2>1, <2>2 DEF Events
<1>6. NotSent \/ Sent \/ PowerOff \/ PowerOn \/ Close \/ Boot \/ UNCHANGED vars
        => UNCHANGED <<tty, rsp>>
  BY DEF NotSent, Sent, PowerOff, PowerOn, Close, Boot, vars, line
<1>7. CASE UNCHANGED <<tty, rsp>>
  BY <1>7 DEF Events
<1> QED
  BY <1>1, <1>2, <1>3, <1>4, <1>5, <1>6, <1>7 DEF Next, Attempt, Controller

\* Every variable has its type, with the counters of the two loops in bounds.
LEMMA TypesHold == Spec => []TypeInv
<1>1. Init => TypeInv
  <2>1. Init => Numbers /\ CountInv
    BY UartAssumption DEF Init, Numbers, CountInv, Trying
  <2>2. Init => Names
    BY DEF Init, Names, Speeds
  <2>3. Init => Events
    BY DEF Init, Events
  <2> QED  BY <2>1, <2>2, <2>3 DEF TypeInv
<1>2. TypeInv /\ [Next]_vars => TypeInv'
  BY NumbersNext, NamesNext, EventsNext DEF TypeInv
<1> QED  BY <1>1, <1>2, PTL DEF Spec

\* The variables of aml_uart_init, of the line and of the controller have their
\* types in every state, with the counters of the two loops in bounds.
THEOREM Typed == Spec => []TypeOK
<1>1. TypeInv => TypeOK
  BY TypeParts DEF TypeInv
<1> QED  BY <1>1, TypesHold, PTL
-----------------------------------------------------------------------------
(***************************************************************************)
(* What the two ends make of a call.                                       *)
(***************************************************************************)
\* An action that leaves the events, the controller and its epoch alone.
LEMMA ControllerKept ==
  ASSUME ControllerInv, UNCHANGED <<tty, rsp, ctl, power, command, epoch>>
  PROVE  ControllerInv'
BY DEF ControllerInv, Consent

\* A step of the line alone: what is on it was there before, or is no event.
LEMMA LineKept ==
  ASSUME Numbers, ControllerInv, FromBefore, Consent(rsp)',
         UNCHANGED <<ctl, power, command, epoch>>
  PROVE  ControllerInv'
BY DEF Numbers, ControllerInv, Consent, FromBefore, Bytes

\* An answer is from the present power cycle or from an earlier one.
LEMMA ControllerNext ==
  ASSUME TypeInv, ControllerInv, [Next]_vars
  PROVE  ControllerInv'
<1> USE DEF TypeInv, Names, Numbers
<1>1. CASE Start
  BY <1>1 DEF Start, ControllerInv, Consent, Zeros
<1>2. CASE Sent
  BY <1>2 DEF Sent, ControllerInv, Consent, line
<1>3. CASE Read
  <2>1. FromBefore /\ UNCHANGED <<ctl, power, command, epoch>>
    BY <1>3, ReadSummary DEF Compare, chip
  <2>2. rsp' = Zeros \/ (rsp' = tty[1] /\ 1 \in 1 .. Len(tty))
    BY <1>3, ReadSummary, HeadIsFirst
  <2>3. Consent(rsp)'
    BY <2>1, <2>2 DEF ControllerInv, Consent, Zeros
  <2> QED  BY <2>1, <2>3, LineKept
<1>4. CASE ReadNothing
  BY <1>4 DEF ReadNothing, ControllerInv, Consent, Zeros, chip
<1>5. CASE PowerOff
  <2>1. CASE PinFails
    BY <1>5, <2>1, ControllerKept DEF PowerOff, PinFails, line
  <2>2. CASE power' = "off" /\ ctl' = "slow" /\ command' = FALSE /\ epoch' = epoch + 1
    <3>1. UNCHANGED <<tty, rsp>>
      BY <1>5 DEF PowerOff, line
    <3>2. ASSUME NEW answer, answer.epoch \in Nat, Consent(answer)
          PROVE  answer.epoch <= epoch' /\ answer.epoch # epoch'
      BY <2>2, <3>2 DEF Consent
    <3>3. \A i \in 1 .. Len(tty) : tty[i].epoch <= epoch' /\ tty[i].epoch # epoch'
      BY <3>2, EventEpochs DEF ControllerInv
    <3>4. rsp.epoch <= epoch' /\ rsp.epoch # epoch'
      BY <3>2, EventEpochs DEF ControllerInv
    <3> QED
      BY <2>2, <3>1, <3>3, <3>4 DEF ControllerInv, Consent
  <2> QED  BY <1>5, <2>1, <2>2 DEF PowerOff
<1>6. CASE PowerOn
  BY <1>6 DEF PowerOn, PinFails, ControllerInv, Consent, line
<1>7. CASE NotSent \/ Close \/ UNCHANGED vars
  BY <1>7, ControllerKept DEF NotSent, Close, vars, line, chip
<1>8. CASE Boot
  BY <1>8 DEF Boot, ControllerInv, Consent, line
<1>9. CASE Execute
  <2>1. UNCHANGED <<rsp, power, epoch>> /\ power = "ready" /\ command' = FALSE
    BY <1>9 DEF Execute
  <2>2. CASE \E torn \in Bursts : tty' = tty \o torn /\ ctl' = "fast"
    <3>1. FromBefore
      BY <2>2, BurstArrives
    <3>2. \A i \in 1 .. Len(tty') : Consent(tty[i])'
      <4> TAKE i \in 1 .. Len(tty')
      <4>1. CASE tty'[i] \in Bytes
        BY <2>1, <4>1 DEF Consent, Bytes
      <4>2. ASSUME NEW j \in 1 .. Len(tty), tty'[i] = tty[j]
            PROVE  Consent(tty[i])'
        BY <2>1, <2>2, <4>2 DEF ControllerInv, Consent
      <4> QED  BY <3>1, <4>1, <4>2 DEF FromBefore
    <3>3. Consent(rsp)'
      BY <2>1, <2>2 DEF ControllerInv, Consent
    <3> QED  BY <2>1, <3>2, <3>3 DEF ControllerInv
  <2>3. CASE ctl' = "fast" /\ tty' = Append(tty, Answer("good"))
    BY <2>1, <2>3, OneArrives, AnswersAreTyped DEF ControllerInv, Consent, Answer
  <2>4. CASE UNCHANGED ctl /\ tty' = Append(tty, Answer("refused"))
    BY <2>1, <2>4, OneArrives, AnswersAreTyped DEF ControllerInv, Consent, Answer
  <2> QED  BY <1>9, <2>2, <2>3, <2>4 DEF Execute
<1>10. CASE Stray
  <2>1. UNCHANGED <<rsp, ctl, power, command, epoch>>
    BY <1>10 DEF Stray, chip
  <2>2. CASE tty' = Append(tty, Answer("other"))
    BY <2>1, <2>2, OneArrives, AnswersAreTyped DEF ControllerInv, Consent, Answer
  <2>3. CASE \E noise \in Bursts : tty' = tty \o noise
    <3>1. FromBefore
      BY <2>3, BurstArrives
    <3>2. Consent(rsp)'
      BY <2>1 DEF ControllerInv, Consent
    <3> QED  BY <2>1, <3>1, <3>2, LineKept
  <2> QED  BY <1>10, <2>2, <2>3 DEF Stray
<1> QED
  BY <1>1, <1>2, <1>3, <1>4, <1>5, <1>6, <1>7, <1>8, <1>9, <1>10
     DEF Next, Attempt, Controller

\* Between the two writes to the pin the controller is off, if the first worked;
\* and without power no answer is to read unless a write failed.
LEMMA CycleNext ==
  ASSUME TypeInv, ControllerInv, CycleInv, [Next]_vars
  PROVE  CycleInv'
<1> USE DEF CycleInv
<1>1. CASE Start
  BY <1>1 DEF Start
<1>2. CASE NotSent \/ Close \/ UNCHANGED vars
  BY <1>2 DEF NotSent, Close, vars, control, line, chip, history
<1>3. CASE Sent
  BY <1>3 DEF Sent, line
<1>4. CASE Read
  <2>1. FromBefore /\ pc = "read" /\ UNCHANGED <<power, upioFailed>>
    BY <1>4, ReadSummary DEF Compare, chip, TypeInv
  <2>2. pc' # "on"
    BY <1>4, ReadSummary DEF Compare, TypeInv
  <2> QED  BY <2>1, <2>2 DEF FromBefore, Bytes, Accepts
<1>5. CASE ReadNothing
  BY <1>5 DEF ReadNothing, chip
<1>6. CASE PowerOff
  BY <1>6 DEF PowerOff, PinFails, line, history
<1>7. CASE PowerOn
  BY <1>7 DEF PowerOn, PinFails, line, history
<1>8. CASE Boot
  BY <1>8 DEF Boot, control, line, history
<1>9. CASE Execute
  BY <1>9 DEF Execute, control
<1>10. CASE Stray
  <2>1. UNCHANGED <<pc, power, upioFailed>>
    BY <1>10 DEF Stray, control, chip
  <2>2. CASE power # "off"
    BY <2>1, <2>2
  <2>3. CASE \E noise \in Bursts : tty' = tty \o noise
    <3>1. FromBefore
      BY <2>3, BurstArrives DEF TypeInv
    <3> QED  BY <2>1, <3>1 DEF FromBefore, Bytes, Accepts
  <2> QED  BY <1>10, <2>2, <2>3 DEF Stray
<1> QED
  BY <1>1, <1>2, <1>3, <1>4, <1>5, <1>6, <1>7, <1>8, <1>9, <1>10
     DEF Next, Attempt, Controller

\* An answer that is accepted as consent comes from a controller that went to
\* 4 MBaud in this power cycle, or the host is mistaken.
LEMMA AcceptedConsents ==
  ASSUME Numbers, Events, ControllerInv, Accepts(rsp), result = "ok"
  PROVE  (ctl = "fast" /\ power = "ready") \/ Mistaken
BY EventEpochs DEF Numbers, ControllerInv, Consent, Accepts, Mistaken

\* The states in which the call has ended, and those in which it has not.
LEMMA ResultNext ==
  ASSUME TypeInv, ControllerInv, CycleInv, ResultInv, [Next]_vars
  PROVE  ResultInv'
<1> USE DEF ResultInv, Trying
<1>1. CASE Start
  BY <1>1 DEF Start
<1>2. CASE NotSent \/ Close \/ UNCHANGED vars
  <2>1. UNCHANGED <<host, ctl, power, command, epoch, rsp, result, upioFailed>>
    BY <1>2 DEF NotSent, Close, vars, control, line, chip, history
  <2>2. Mistaken' <=> Mistaken
    BY <2>1 DEF Mistaken
  <2>3. pc' = pc \/ (pc = "done" /\ pc' = "idle")
    BY <1>2 DEF NotSent, Close, vars, control
  <2> QED  BY <2>1, <2>2, <2>3 DEF Accepts
<1>3. CASE Sent
  BY <1>3 DEF Sent, line, Mistaken
<1>4. CASE Read
  <2>1. /\ UNCHANGED <<ctl, power, command, epoch, upioFailed>>
        /\ pc = "read" /\ Compare
    BY <1>4, ReadSummary DEF Compare, chip, TypeInv
  <2>2. CASE ~Accepts(rsp')
    BY <2>1, <2>2 DEF Compare
  <2>3. CASE Accepts(rsp')
    <3>1. host' = "fast" /\ pc' = "done" /\ result' = "ok"
      BY <2>1, <2>3 DEF Compare
    <3>2. rsp' = tty[1] /\ 1 \in 1 .. Len(tty)
      BY <1>4, <2>3, ReadSummary, HeadIsFirst DEF Accepts, Zeros, TypeInv
    <3>3. power # "off" \/ upioFailed
      BY <2>1, <2>3, <3>2 DEF CycleInv
    <3>4. Consent(tty[1]) /\ tty[1].epoch \in Nat
      BY <3>2, EventEpochs DEF ControllerInv, TypeInv
    <3>5. ctl' = "fast" \/ Mistaken'
      BY <2>1, <2>3, <3>1, <3>2, <3>4 DEF Consent, Accepts, Mistaken, TypeInv, Numbers
    <3> QED  BY <2>1, <2>3, <3>1, <3>3, <3>5
  <2> QED  BY <2>2, <2>3
<1>5. CASE ReadNothing
  BY <1>5 DEF ReadNothing, chip
<1>6. CASE PowerOff
  BY <1>6 DEF PowerOff, PinFails, line, history
<1>7. CASE PowerOn
  <2>1. UNCHANGED <<host, ctl, command>> /\ host = "slow" /\ result = "none"
    BY <1>7 DEF PowerOn, PinFails, line
  <2>2. upioFailed' \/ (ctl' = "slow" /\ power' # "off" /\ ~command')
    BY <1>7, <2>1 DEF PowerOn, PinFails, history, CycleInv, ControllerInv
  <2>3. \/ pc' = "send" /\ result' = "none"
        \/ pc' = "done" /\ result' = "fail"
    BY <1>7, <2>1 DEF PowerOn
  <2> QED  BY <2>1, <2>2, <2>3
<1>8. CASE Boot
  BY <1>8 DEF Boot, control, line, history, Mistaken
<1>9. CASE Execute
  BY <1>9 DEF Execute, control, Mistaken
<1>10. CASE Stray
  BY <1>10 DEF Stray, control, chip, TypeInv, Names
<1> QED
  BY <1>1, <1>2, <1>3, <1>4, <1>5, <1>6, <1>7, <1>8, <1>9, <1>10
     DEF Next, Attempt, Controller

\* LineInv is inductive on top of the types.
LEMMA LinesHold == Spec => [](TypeInv /\ LineInv)
<1>1. Init => LineInv
  BY DEF Init, LineInv, ControllerInv, CycleInv, ResultInv, Consent, Trying, Zeros
<1>2. TypeInv /\ LineInv /\ [Next]_vars => LineInv'
  BY ControllerNext, CycleNext, ResultNext DEF LineInv
<1> QED  BY <1>1, <1>2, TypesHold, PTL DEF Spec

\* An accepted consent of this power cycle means 4 MBaud.
LEMMA SuccessAgrees == TypeInv /\ LineInv => SpeedsAgree
BY AcceptedConsents DEF SpeedsAgree, TypeInv, LineInv, ResultInv

\* A success in which the host was not mistaken leaves both ends at 4 MBaud and
\* the controller up, whatever answers were late in earlier attempts.
THEOREM SuccessMeansFast == Spec => []SpeedsAgree
BY SuccessAgrees, LinesHold, PTL

\* A failure leaves both ends at 115200 and the controller with power, unless a
\* write to the pin failed.
THEOREM FailureMeansReset == Spec => []FailureLeavesReset
<1>1. LineInv => FailureLeavesReset
  BY DEF LineInv, ResultInv, FailureLeavesReset
<1> QED  BY <1>1, LinesHold, PTL
-----------------------------------------------------------------------------
(***************************************************************************)
(* What a failure has cost.                                                *)
(***************************************************************************)
\* The count of failed attempts is a number.
LEMMA FailedIsCounted ==
  ASSUME Numbers
  PROVE  Failed \in Nat
BY DEF Numbers, Failed

\* Steps that neither fail an attempt nor touch the line: one that makes the
\* controller deaf, which it was not, is a loss.
LEMMA LossInvKept ==
  ASSUME Numbers, Events, Trying, LossInv, UNCHANGED tty, Failed' = Failed,
         (UNCHANGED losses /\ (Deaf' => Deaf)) \/ Loss(1)
  PROVE  LossInv'
<1>1. Failed \in Nat /\ Bad(tty) \in Nat /\ Bad(tty') = Bad(tty)
  BY FailedIsCounted, WrongIsFinite DEF Events
<1>2. Paid(Failed - 1 + Bad(tty))
  BY DEF LossInv
<1>3. \A m, k \in Int : Paid(m) /\ k <= m => PaidAfter(k)
  BY NothingLost, LossCounts
<1>4. PaidAfter(Failed' - 1 + Bad(tty'))
  BY <1>1, <1>2, <1>3
<1>5. CASE UNCHANGED losses /\ (Deaf' => Deaf)
  <2>1. Deaf' /\ tty' = <<>> => PaidAfter(Failed')
    BY <1>1, <1>3, <1>5 DEF LossInv
  <2> QED  BY <1>4, <2>1 DEF LossInv, Paid, PaidAfter
<1>6. CASE Loss(1)
  <2>1. \A m, k \in Int : Paid(m) /\ k <= m + 1 => PaidAfter(k)
    BY <1>6, LossCounts
  <2>2. /\ Failed - 1 + Bad(tty) \in Int /\ Failed' \in Int
        /\ Failed' <= Failed - 1 + Bad(tty) + 1
    BY <1>1
  <2>3. PaidAfter(Failed')
    BY <1>2, <2>1, <2>2
  <2> QED  BY <1>4, <2>3 DEF LossInv, Paid, PaidAfter
<1> QED  BY <1>5, <1>6

\* Reading something that is not accepted fails the attempt, which that has paid
\* for.
LEMMA UnacceptedRead ==
  ASSUME TypeInv, LossInv, Read, Trying'
  PROVE  LossInv'
<1> USE DEF TypeInv
<1>1. pc = "read" /\ pc' = "off" /\ UNCHANGED retry /\ ~Accepts(rsp')
  BY ReadSummary DEF Compare, Trying
<1>2. Failed' = Failed + 1 /\ Failed \in Nat /\ ~Deaf' /\ Trying
  BY <1>1 DEF Failed, Numbers, Deaf, Trying
<1>3. Bad(tty) \in Nat /\ Bad(tty') \in Nat
  BY ReadSummary, WrongIsFinite DEF Events
<1>4. \A m \in Int : Paid(m + Bad(tty)) => PaidAfter(m + 1 + Bad(tty'))
  BY <1>1, ReadSummary
<1>5. Paid((Failed - 1) + Bad(tty))
  BY <1>2 DEF LossInv
<1>6. Failed - 1 \in Int
  BY <1>2
<1>7. PaidAfter((Failed - 1) + 1 + Bad(tty'))
  BY <1>4, <1>5, <1>6
<1>8. (Failed - 1) + 1 + Bad(tty') = Failed' - 1 + Bad(tty')
  BY <1>2, <1>3
<1>9. PaidAfter(Failed' - 1 + Bad(tty'))
  BY <1>7, <1>8
<1> QED  BY <1>2, <1>9 DEF LossInv, Paid, PaidAfter

\* No answer in all the reads: a controller that has the command is slow, and one
\* that does not have it never heard it.
LEMMA NothingRead ==
  ASSUME TypeInv, LossInv, ReadNothing, Trying'
  PROVE  LossInv'
<1> USE DEF TypeInv
<1>1. pc = "read" /\ tty = <<>> /\ UNCHANGED <<tty, retry, command>>
  BY DEF ReadNothing, chip
<1>2. CASE UNCHANGED <<pc, losses>>
  <2>1. Failed' = Failed /\ (Deaf' => Deaf)
    BY <1>1, <1>2 DEF Failed, Deaf
  <2> QED  BY <1>1, <1>2, <2>1, LossInvKept DEF Trying
<1>3. CASE pc' = "off" /\ (IF command THEN Loss(1) ELSE UNCHANGED losses)
  <2>1. Failed' = Failed + 1 /\ Failed \in Nat /\ ~Deaf' /\ Trying
    BY <1>1, <1>3 DEF Failed, Numbers, Deaf, Trying
  <2>2. Bad(tty') = 0 /\ Bad(tty) = 0 /\ Paid(Failed - 1 + Bad(tty))
    BY <1>1, <2>1, NothingIsBad DEF LossInv
  <2>3. Paid(Failed - 1)
    <3>1. Failed - 1 + Bad(tty) = Failed - 1
      BY <2>1, <2>2
    <3> QED  BY <2>2, <3>1
  <2>4. ASSUME command, Loss(1) PROVE PaidAfter(Failed)
    <3>1. \A m, k \in Int : Paid(m) /\ k <= m + 1 => PaidAfter(k)
      BY <2>4, LossCounts
    <3>2. Failed - 1 \in Int /\ Failed \in Int /\ Failed <= Failed - 1 + 1
      BY <2>1
    <3> QED  BY <2>3, <3>1, <3>2
  <2>5. ASSUME ~command, UNCHANGED losses PROVE PaidAfter(Failed)
    <3>1. Paid(Failed)
      BY <1>1, <2>1, <2>5 DEF LossInv, Deaf
    <3> QED  BY <2>1, <2>5, <3>1, NothingLost
  <2>6. PaidAfter(Failed)
    BY <1>3, <2>4, <2>5
  <2>7. Failed' - 1 + Bad(tty') = Failed
    BY <2>1, <2>2
  <2> QED  BY <2>1, <2>6, <2>7 DEF LossInv, Paid, PaidAfter
<1> QED  BY <1>2, <1>3 DEF ReadNothing

\* Answers are accepted; other events and bytes are losses.
LEMMA EventArrives ==
  ASSUME TypeInv, LossInv, Trying, Execute \/ Stray
  PROVE  LossInv'
<1> USE DEF TypeInv
<1>1. UNCHANGED <<pc, retry>> /\ Failed' = Failed /\ Failed \in Nat
  BY FailedIsCounted DEF Execute, Stray, control, Failed
<1>2. Bad(tty) \in Nat /\ tty \in Seq(Items) /\ Paid(Failed - 1 + Bad(tty))
  BY WrongIsFinite DEF Events, LossInv
<1>3. ASSUME NEW n \in Nat, Loss(n) \/ (n = 0 /\ UNCHANGED losses),
             Bad(tty') \in Nat, Bad(tty') <= Bad(tty) + n
      PROVE  PaidAfter(Failed' - 1 + Bad(tty'))
  <2>1. \A m, k \in Int : Paid(m) /\ k <= m + n => PaidAfter(k)
    BY <1>3, LossCounts, NothingLost
  <2>2. /\ Failed - 1 + Bad(tty) \in Int /\ Failed' - 1 + Bad(tty') \in Int
        /\ Failed' - 1 + Bad(tty') <= Failed - 1 + Bad(tty) + n
    BY <1>1, <1>2, <1>3
  <2> QED  BY <1>2, <2>1, <2>2
<1>4. CASE (UNCHANGED losses \/ Loss(1)) /\
           \E kind \in {"good", "refused"} : tty' = Append(tty, Answer(kind))
  <2>1. PICK kind \in {"good", "refused"} : tty' = Append(tty, Answer(kind))
    BY <1>4
  <2>2. Answer(kind) \in Items /\ Accepts(Answer(kind))
    BY AnswersAreTyped DEF Accepts, Answer
  <2>3. /\ tty' = tty \o <<Answer(kind)>> /\ <<Answer(kind)>> \in Seq(Items)
        /\ tty' \in Seq(Items) /\ Len(tty') = Len(tty) + 1
    BY <2>1, <2>2, OneArrives
  <2>4. \A i \in 1 .. Len(<<Answer(kind)>>) : Accepts(<<Answer(kind)>>[i])
    BY <2>2
  <2>5. Bad(tty') <= Bad(tty) /\ Bad(tty') \in Nat
    BY <2>3, <2>4, ArrivesBad, WrongIsFinite
  <2>6. UNCHANGED losses \/ Loss(1)
    BY <1>4
  <2>7. PaidAfter(Failed' - 1 + Bad(tty'))
    BY <1>2, <1>3, <2>5, <2>6
  <2>8. tty' # <<>>
    BY <2>3, <1>2, LenProperties
  <2> QED  BY <2>7, <2>8 DEF LossInv, Paid, PaidAfter
<1>5. CASE tty' = Append(tty, Answer("other")) /\ Loss(1)
  <2>1. Answer("other") \in Items
    BY AnswersAreTyped
  <2>2. /\ tty' = tty \o <<Answer("other")>> /\ <<Answer("other")>> \in Seq(Items)
        /\ tty' \in Seq(Items) /\ Len(tty') = Len(tty) + 1
    BY <1>5, <2>1, OneArrives
  <2>3. Bad(tty') <= Bad(tty) + 1 /\ Bad(tty') \in Nat
    BY <2>2, ArrivesBad, WrongIsFinite
  <2>4. PaidAfter(Failed' - 1 + Bad(tty'))
    BY <1>3, <1>5, <2>3
  <2>5. tty' # <<>>
    BY <2>2, <1>2, LenProperties
  <2> QED  BY <2>4, <2>5 DEF LossInv, Paid, PaidAfter
<1>6. CASE \E torn \in Bursts : tty' = tty \o torn /\ Loss(1 + Len(torn))
  <2>1. PICK torn \in Bursts : tty' = tty \o torn /\ Loss(1 + Len(torn))
    BY <1>6
  <2>2. /\ tty' \in Seq(Items) /\ Bad(tty') <= Bad(tty) + Len(torn)
        /\ Len(torn) \in Nat
    BY <2>1, BurstArrives, BurstsAreItems
  <2>3. /\ Bad(tty') \in Nat /\ 1 + Len(torn) \in Nat
        /\ Bad(tty') <= Bad(tty) + (1 + Len(torn))
    BY <1>2, <2>2, WrongIsFinite
  <2>4. PaidAfter(Failed' - 1 + Bad(tty'))
    BY <1>3, <2>1, <2>3
  <2>5. ASSUME tty' = <<>> PROVE PaidAfter(Failed')
    <3>1. \A m, k \in Int : Paid(m) /\ k <= m + (1 + Len(torn)) => PaidAfter(k)
      BY <2>1, <2>3, LossCounts
    <3>2. /\ Failed - 1 + Bad(tty) \in Int /\ Failed' \in Int
          /\ Failed' <= Failed - 1 + Bad(tty) + (1 + Len(torn))
      BY <1>1, <1>2, <2>2
    <3> QED  BY <1>2, <3>1, <3>2
  <2> QED  BY <2>4, <2>5 DEF LossInv, Paid, PaidAfter
<1>7. CASE \E noise \in Bursts \ {<<>>} : tty' = tty \o noise /\ Loss(Len(noise))
  <2>1. PICK noise \in Bursts \ {<<>>} : tty' = tty \o noise /\ Loss(Len(noise))
    BY <1>7
  <2>2. /\ tty' \in Seq(Items) /\ Bad(tty') <= Bad(tty) + Len(noise)
        /\ Len(noise) \in Nat /\ noise \in Seq(Items)
    BY <2>1, BurstArrives, BurstsAreItems
  <2>3. Bad(tty') \in Nat
    BY <2>2, WrongIsFinite
  <2>4. PaidAfter(Failed' - 1 + Bad(tty'))
    BY <1>3, <2>1, <2>2, <2>3
  <2>5. tty' # <<>>
    BY <1>2, <2>1, <2>2, ConcatEqualIffEmpty
  <2> QED  BY <2>4, <2>5 DEF LossInv, Paid, PaidAfter
<1> QED  BY <1>4, <1>5, <1>6, <1>7 DEF Execute, Stray

\* Each attempt that fails, but the first, has cost a loss.
LEMMA LossNext ==
  ASSUME TypeInv, LineInv, LossInv, [Next]_vars
  PROVE  LossInv'
<1> SUFFICES ASSUME Trying' PROVE LossInv'
  BY DEF LossInv
<1> USE DEF TypeInv
<1>1. CASE Start
  <2>1. retry' = 0 /\ pc' = "send" /\ tty' = <<>> /\ losses' = 0
    BY <1>1 DEF Start
  <2>2. Failed' = 0 /\ Bad(tty') = 0
    BY <2>1, NothingIsBad DEF Failed
  <2>3. \A n \in Int : n <= 0 => PaidAfter(n)
    BY <2>1 DEF PaidAfter
  <2>4. Failed' - 1 + Bad(tty') <= 0 /\ Failed' - 1 + Bad(tty') \in Int
    BY <2>2
  <2> QED  BY <2>2, <2>3, <2>4 DEF LossInv, Paid, PaidAfter
<1>2. CASE NotSent
  <2>1. UNCHANGED <<tty, pc, retry>> /\ Loss(1)
    BY <1>2 DEF NotSent, line, control
  <2>2. Failed' = Failed /\ Trying
    BY <2>1 DEF Failed, Trying
  <2> QED  BY <2>1, <2>2, LossInvKept
<1>3. CASE Sent
  <2>1. pc = "send" /\ pc' = "read" /\ host = "slow"
    BY <1>3 DEF Sent, Trying, LineInv, ResultInv
  <2>2. UNCHANGED <<tty, retry, host>> /\ Failed' = Failed /\ Trying
    BY <1>3, <2>1 DEF Sent, line, Failed, Trying
  <2>3. (UNCHANGED losses /\ (Deaf' => Deaf)) \/ Loss(1)
    BY <1>3, <2>1 DEF Sent, Deaf, Names, Speeds
  <2> QED  BY <2>2, <2>3, LossInvKept
<1>4. CASE Read
  BY <1>4, UnacceptedRead
<1>5. CASE ReadNothing
  BY <1>5, NothingRead
<1>6. CASE PowerOff
  <2>1. pc = "off" /\ pc' = "on" /\ UNCHANGED <<tty, retry>>
    BY <1>6 DEF PowerOff, line
  <2>2. Failed' = Failed /\ Trying
    BY <2>1 DEF Failed, Trying
  <2>3. (UNCHANGED losses /\ (Deaf' => Deaf)) \/ Loss(1)
    BY <1>6, <2>1 DEF PowerOff, PinFails, history, Deaf
  <2> QED  BY <2>1, <2>2, <2>3, LossInvKept
<1>7. CASE PowerOn
  <2>1. pc = "on" /\ pc' = "send" /\ UNCHANGED tty /\ retry' = retry + 1
    BY <1>7 DEF PowerOn, line, Trying
  <2>2. Failed' = Failed /\ Trying
    BY <2>1 DEF Failed, Trying
  <2>3. (UNCHANGED losses /\ (Deaf' => Deaf)) \/ Loss(1)
    BY <1>7, <2>1 DEF PowerOn, PinFails, history, Deaf, Names, Speeds
  <2> QED  BY <2>1, <2>2, <2>3, LossInvKept
<1>8. CASE Boot
  <2>1. UNCHANGED <<tty, pc, retry, losses, ctl, command>>
    BY <1>8 DEF Boot, line, control, history
  <2>2. Failed' = Failed /\ Trying /\ (Deaf' => Deaf)
    BY <1>8, <2>1 DEF Boot, Failed, Trying, Deaf
  <2> QED  BY <2>1, <2>2, LossInvKept
<1>9. CASE Execute \/ Stray
  <2>1. Trying
    BY <1>9 DEF Execute, Stray, control, Trying
  <2> QED  BY <1>9, <2>1, EventArrives
<1>10. CASE Close
  BY <1>10 DEF Close, Trying
<1>11. CASE UNCHANGED vars
  <2>1. UNCHANGED <<tty, pc, retry, losses, ctl, command, power>>
    BY <1>11 DEF vars, line, control, history, chip
  <2>2. Failed' = Failed /\ Trying /\ (Deaf' => Deaf)
    BY <2>1 DEF Failed, Trying, Deaf
  <2> QED  BY <2>1, <2>2, LossInvKept
<1> QED
  BY <1>1, <1>2, <1>3, <1>4, <1>5, <1>6, <1>7, <1>8, <1>9, <1>10, <1>11
     DEF Next, Attempt, Controller

\* The call that gives up has paid for all the attempts but one, and what comes
\* after it changes nothing of that.
LEMMA GivenUpNext ==
  ASSUME TypeInv, LineInv, LossInv, GivenUpInv, [Next]_vars
  PROVE  GivenUpInv'
<1> SUFFICES ASSUME result' = "fail" PROVE PaidAfter(Attempts - 1)
  BY DEF GivenUpInv, Paid, PaidAfter
<1> USE DEF TypeInv
<1>1. CASE PowerOn /\ LastTry
  <2>1. Failed = Attempts /\ Bad(tty) \in Nat /\ Trying
    BY <1>1, WrongIsFinite DEF PowerOn, LastTry, Failed, Events, Trying
  <2>2. Paid(Failed - 1 + Bad(tty))
    BY <2>1 DEF LossInv
  <2>3. Loss(1) \/ UNCHANGED losses
    BY <1>1 DEF PowerOn, PinFails, history
  <2>4. \A m, k \in Int : Paid(m) /\ k <= m => PaidAfter(k)
    BY <2>3, LossCounts, NothingLost
  <2>5. /\ Failed - 1 + Bad(tty) \in Int /\ Attempts - 1 \in Int
        /\ Attempts - 1 <= Failed - 1 + Bad(tty)
    BY <2>1, UartAssumption
  <2> QED  BY <2>2, <2>4, <2>5
<1>2. CASE result = "fail" /\ (UNCHANGED losses \/ \E n \in Nat : Loss(n))
  <2>1. Paid(Attempts - 1) /\ Attempts - 1 \in Int
    BY <1>2, UartAssumption DEF GivenUpInv
  <2>2. \A m, k \in Int : Paid(m) /\ k <= m => PaidAfter(k)
    <3>1. CASE UNCHANGED losses
      BY <3>1, NothingLost
    <3>2. ASSUME NEW n \in Nat, Loss(n)
          PROVE  \A m, k \in Int : Paid(m) /\ k <= m => PaidAfter(k)
      BY <3>2, LossCounts
    <3> QED  BY <1>2, <3>1, <3>2
  <2> QED  BY <2>1, <2>2
<1>3. result = "fail" => ~Trying
  BY DEF LineInv, ResultInv
<1>4. CASE Close \/ Boot \/ UNCHANGED vars
  BY <1>2, <1>4 DEF Close, Boot, vars, control, history
<1>5. CASE Execute
  <2>1. \A burst \in Bursts : 1 + Len(burst) \in Nat
    BY BurstsAreItems
  <2> QED  BY <1>2, <1>5, <2>1 DEF Execute, control
<1>6. CASE Stray
  <2>1. \A burst \in Bursts : Len(burst) \in Nat
    BY BurstsAreItems
  <2> QED  BY <1>2, <1>6, <2>1 DEF Stray, control
<1>7. ~Start
  BY DEF Start
<1>8. CASE Read
  BY <1>3, <1>8, ReadSummary DEF Compare, Trying
<1>9. CASE NotSent \/ Sent \/ ReadNothing \/ PowerOff
  BY <1>3, <1>9 DEF NotSent, Sent, ReadNothing, PowerOff, control, Trying
<1>10. CASE PowerOn /\ ~LastTry
  BY <1>3, <1>10 DEF PowerOn, Trying
<1> QED
  BY <1>1, <1>4, <1>5, <1>6, <1>7, <1>8, <1>9, <1>10 DEF Next, Attempt, Controller

\* A call that fails has seen two losses: with the three attempts the code makes,
\* or with more of them, one loss and a controller left at 4 MBaud, or without
\* power, are made up for together; each byte left out of frame is one loss more.
THEOREM TwoLossesToFail ==
  ASSUME Attempts >= 3, MaxLosses >= 2
  PROVE  Spec => []OneLossIsAbsorbed
<1>1. Init => LossInv /\ GivenUpInv
  BY DEF Init, LossInv, GivenUpInv, Trying
<1>2. TypeInv /\ LineInv /\ LossInv /\ GivenUpInv /\ [Next]_vars
        => LossInv' /\ GivenUpInv'
  BY LossNext, GivenUpNext
<1>3. TypeInv /\ GivenUpInv => OneLossIsAbsorbed
  BY UartAssumption DEF GivenUpInv, Paid, OneLossIsAbsorbed, TypeInv, Numbers
<1> QED  BY <1>1, <1>2, <1>3, LinesHold, PTL DEF Spec
-----------------------------------------------------------------------------
(***************************************************************************)
(* UartInit implements LineSpeed: its initial states and its steps.  That  *)
(* the call ends is left to the model checker.                             *)
(***************************************************************************)
\* The state of the call and the controller's power, as LineSpeed sees them.
call == CASE pc = "idle" -> "idle" [] pc = "done" -> "done" [] OTHER -> "moving"
on == power # "off"

\* The initial state is one of LineSpeed's.
LEMMA InitImplements == Init => Abstract!Init
BY DEF Init, Abstract!Init, Abstract!Speeds, Mistaken

\* Every step leaves the controller at one of its speeds, the slow one if it has
\* no power.
LEMMA ControllersAreTyped ==
  ASSUME Names', ControllerInv'
  PROVE  Abstract!AnyController
<1>1. ctl' \in {"slow", "fast"}
  BY DEF Names, Speeds
<1>2. (power # "off")' \in BOOLEAN
  OBVIOUS
<1>3. (power # "off")' \/ ctl' = "slow"
  BY DEF ControllerInv
<1> QED  BY <1>1, <1>2, <1>3 DEF Abstract!AnyController, Abstract!Speeds

\* The steps between the beginning and the end of a call.
LEMMA MoveImplements ==
  ASSUME TypeInv, TypeInv', LineInv, LineInv', Trying, Trying', UNCHANGED host,
         upioFailed' \in {upioFailed, TRUE}
  PROVE  Abstract!Move
<1>1. ~Mistaken /\ ~Mistaken'
  BY DEF Mistaken, LineInv, ResultInv
<1>2. Abstract!AnyController
  BY ControllersAreTyped DEF LineInv, TypeInv
<1>3. call = "moving" /\ call' = "moving"
  BY DEF call, Trying
<1>4. UNCHANGED Mistaken
  BY <1>1 DEF Mistaken
<1> QED
  BY <1>2, <1>3, <1>4 DEF Abstract!Move, call

\* The last step of a call, in each of the three ways.
LEMMA FinishImplements ==
  ASSUME TypeInv, TypeInv', LineInv, LineInv', Trying, pc' = "done"
  PROVE  Abstract!Finish
<1>1. call = "moving" /\ call' = "done"
  BY DEF call, Trying
<1>2. Abstract!AnyController
  BY ControllersAreTyped DEF LineInv, TypeInv
<1>3. upioFailed' \in BOOLEAN
  BY DEF TypeInv, Names
<1>4. CASE result' = "ok" /\ ~Mistaken'
  <2>1. host' = "fast" /\ ctl' = "fast" /\ power' = "ready"
    <3>1. TypeInv' /\ LineInv' => SpeedsAgree'
      BY SuccessAgrees, PTL
    <3> QED  BY <1>4, <3>1 DEF SpeedsAgree
  <2>2. (power # "off")' = TRUE /\ Mistaken' = FALSE
    BY <1>4, <2>1 DEF Mistaken
  <2>3. Abstract!Agree
    BY <1>3, <2>1, <2>2 DEF Abstract!Agree
  <2> QED  BY <1>1, <2>3 DEF Abstract!Finish, call
<1>5. CASE Mistaken'
  <2>1. host' = "fast" /\ ((power # "off")' \/ upioFailed')
    BY <1>5 DEF LineInv, ResultInv, Mistaken
  <2>2. Mistaken' = TRUE
    BY <1>5 DEF Mistaken
  <2>3. Abstract!Mistake
    BY <1>2, <1>3, <2>1, <2>2 DEF Abstract!Mistake
  <2> QED  BY <1>1, <2>3 DEF Abstract!Finish, call
<1>6. CASE result' = "fail"
  <2>1. Mistaken' = FALSE /\ host' = "slow"
    BY <1>6 DEF Mistaken, LineInv, ResultInv
  <2>2. CASE upioFailed'
    <3>1. upioFailed' = TRUE
      BY <1>3, <2>2
    <3>2. Abstract!GiveUp
      BY <1>2, <2>1, <3>1 DEF Abstract!GiveUp
    <3> QED  BY <1>1, <3>2 DEF Abstract!Finish, call
  <2>3. CASE ~upioFailed'
    <3>1. ctl' = "slow" /\ (power # "off")' = TRUE /\ upioFailed' = FALSE
      BY <1>3, <1>6, <2>3 DEF LineInv, ResultInv
    <3>2. Abstract!GiveUp
      BY <2>1, <3>1 DEF Abstract!GiveUp
    <3> QED  BY <1>1, <3>2 DEF Abstract!Finish, call
  <2> QED  BY <2>2, <2>3
<1>7. result' \in {"ok", "fail"}
  BY DEF LineInv, ResultInv
<1> QED  BY <1>4, <1>5, <1>6, <1>7

\* The beginning of a call.
LEMMA StartImplements ==
  ASSUME TypeInv, TypeInv', LineInv', Start
  PROVE  Abstract!Begin
<1>1. call = "idle" /\ call' = "moving" /\ host' = "slow"
  BY DEF Start, call
<1>2. Abstract!AnyController
  BY ControllersAreTyped DEF LineInv, TypeInv
<1>3. Mistaken' = FALSE /\ upioFailed' = FALSE
  BY DEF Start, Mistaken
<1> QED  BY <1>1, <1>2, <1>3 DEF Abstract!Begin, call

\* After the call the controller can still execute the last command.
LEMMA LateImplements ==
  ASSUME TypeInv, LineInv, ~Trying, Execute
  PROVE  (Abstract!Late /\ UNCHANGED call) \/ UNCHANGED Abstract!vars
<1>1. UNCHANGED <<call, host, power, Mistaken, upioFailed>>
  BY DEF Execute, control, call, Mistaken
<1>2. UNCHANGED on
  BY <1>1 DEF on
<1>3. CASE UNCHANGED ctl
  BY <1>1, <1>2, <1>3 DEF Abstract!vars, call, on
<1>4. CASE ctl' = "fast" /\ ctl # "fast"
  <2>1. Mistaken \/ upioFailed
    BY <1>4 DEF Execute, LineInv, ResultInv
  <2>2. power # "off"
    BY DEF Execute
  <2> QED  BY <1>1, <1>2, <1>4, <2>1, <2>2 DEF Abstract!Late, call, on
<1> QED  BY <1>3, <1>4 DEF Execute

\* Each action of the call, of the controller and of the line is a step of the
\* abstract specification, or none.
LEMMA StepImplements ==
  ASSUME TypeInv, TypeInv', LineInv, LineInv', [Next]_vars
  PROVE  [Abstract!Next]_(Abstract!vars)
<1>1. CASE Start
  BY <1>1, StartImplements DEF Abstract!Next
<1>2. ASSUME Trying, Trying', UNCHANGED host, upioFailed' \in {upioFailed, TRUE}
      PROVE  Abstract!Next
  BY <1>2, MoveImplements DEF Abstract!Next
<1>3. ASSUME Trying, pc' = "done"
      PROVE  Abstract!Next
  BY <1>3, FinishImplements DEF Abstract!Next
<1>4. CASE NotSent \/ Sent \/ ReadNothing \/ PowerOff \/ PowerOn \/ Read
  <2>1. Trying
    BY <1>4, ReadSummary
       DEF NotSent, Sent, ReadNothing, PowerOff, PowerOn, Trying, TypeInv
  <2>2. upioFailed' \in {upioFailed, TRUE}
    BY <1>4, ReadSummary
       DEF NotSent, Sent, ReadNothing, PowerOff, PowerOn, PinFails, history,
           Compare, TypeInv
  <2>3. (Trying' /\ UNCHANGED host) \/ pc' = "done"
    BY <1>4, ReadSummary
       DEF NotSent, Sent, ReadNothing, PowerOff, PowerOn, Compare,
           Trying, control, line, TypeInv
  <2> QED  BY <1>2, <1>3, <2>1, <2>2, <2>3
<1>5. CASE Close
  <2>1. call = "done" /\ call' = "idle"
    BY <1>5 DEF Close, call
  <2>2. UNCHANGED <<host, ctl, power, rsp, result, epoch, upioFailed>>
    BY <1>5 DEF Close, line, chip, history
  <2>3. UNCHANGED on /\ UNCHANGED Mistaken
    BY <2>2 DEF on, Mistaken
  <2> QED  BY <2>1, <2>2, <2>3 DEF Abstract!Next, Abstract!Close, call, on
<1>6. CASE UNCHANGED <<pc, host, ctl, result, rsp, epoch, upioFailed>> /\ UNCHANGED on
  <2>1. UNCHANGED call /\ UNCHANGED Mistaken
    BY <1>6 DEF call, Mistaken
  <2> QED  BY <1>6, <2>1 DEF Abstract!vars, call, on
<1>7. CASE Boot \/ Stray \/ UNCHANGED vars
  <2>1. UNCHANGED on
    BY <1>7 DEF Boot, Stray, vars, chip, on
  <2>2. UNCHANGED <<pc, host, ctl, result, rsp, epoch, upioFailed>>
    BY <1>7 DEF Boot, Stray, vars, control, line, chip, history
  <2> QED  BY <1>6, <2>1, <2>2
<1>8. CASE Execute /\ Trying
  BY <1>2, <1>8 DEF Execute, control, Trying
<1>9. CASE Execute /\ ~Trying
  BY <1>9, LateImplements DEF Abstract!Next, call
<1> QED
  BY <1>1, <1>4, <1>5, <1>7, <1>8, <1>9 DEF Next, Attempt, Controller

\* What a call of aml_uart_init, its controller and its line do is what LineSpeed
\* allows, whatever was lost, late or refused.
THEOREM LineSpeedSteps == Spec => Abstract!Init /\ [][Abstract!Next]_(Abstract!vars)
<1>1. /\ TypeInv /\ TypeInv' /\ LineInv /\ LineInv' /\ [Next]_vars
           => [Abstract!Next]_(Abstract!vars)
  BY StepImplements
<1> QED  BY <1>1, InitImplements, LinesHold, PTL DEF Spec
=============================================================================
