--------------------------- MODULE ManfConfProofs ---------------------------
(***************************************************************************)
(* Proofs about the wake-up data: the rows and the records that are sent   *)
(* are those of the configuration file, for all lines and all sizes of the *)
(* table.  What a loop over the rows computes is proved by induction: the  *)
(* numbers for which it is true have a first one missing, or none.         *)
(***************************************************************************)
EXTENDS ManfConf, SequenceTheorems, FiniteSetTheorems, WellFoundedInduction, TLAPS

-----------------------------------------------------------------------------
(***************************************************************************)
(* Induction and recursion.                                                *)
(***************************************************************************)
\* A set of numbers that is not empty has a least one.
LEMMA Least ==
  ASSUME NEW S \in SUBSET Nat, S # {}
  PROVE  \E x \in S : \A y \in S : x <= y
<1>1. \E x \in S : \A y \in S : ~(<<y, x>> \in OpToRel(<, Nat))
  BY NatLessThanWellFounded, WFMin
<1>2. PICK x \in S : \A y \in S : ~(y < x)
  BY <1>1 DEF OpToRel
<1>3. \A y \in S : x <= y
  BY <1>2
<1> QED  BY <1>3

\* What holds of the first number, and of each number after one that it holds of,
\* holds of all.
LEMMA Induction ==
  ASSUME NEW low \in Nat, NEW high \in Nat, NEW S,
         low \in S, \A n \in low + 1 .. high : n - 1 \in S => n \in S
  PROVE  low .. high \subseteq S
<1> DEFINE Missing == (low .. high) \ S
<1>1. SUFFICES ASSUME Missing # {} PROVE FALSE
  OBVIOUS
<1>2. PICK x \in Missing : \A y \in Missing : x <= y
  <2>1. Missing \in SUBSET Nat
    OBVIOUS
  <2> HIDE DEF Missing
  <2> QED  BY <1>1, <2>1, Least
<1>3. x # low /\ x - 1 \in low .. high /\ x \in low + 1 .. high
  BY <1>2
<1>4. x - 1 \in S
  BY <1>2, <1>3
<1> QED  BY <1>2, <1>3, <1>4

\* A function may be defined by its first value and the step from each value to
\* the next.
Steps(f, low, high, base, step) ==
  f = [n \in low .. high |-> IF n = low THEN base ELSE step[n][f[n - 1]]]

LEMMA Recursion ==
  ASSUME NEW low \in Nat, NEW high \in Nat, low <= high, NEW D, NEW base \in D,
         NEW step \in [low + 1 .. high -> [D -> D]]
  PROVE  \E f \in [low .. high -> D] : Steps(f, low, high, base, step)
<1> DEFINE S == {m \in low .. high :
                   \E f \in [low .. m -> D] : Steps(f, low, m, base, step)}
<1>1. low \in S
  <2> DEFINE f == [n \in low .. low |-> base]
  <2>1. f \in [low .. low -> D] /\ Steps(f, low, low, base, step)
    BY DEF Steps
  <2> QED  BY <2>1
<1>2. ASSUME NEW m \in low + 1 .. high, m - 1 \in S PROVE m \in S
  <2>1. PICK g \in [low .. m - 1 -> D] : Steps(g, low, m - 1, base, step)
    BY <1>2
  <2> DEFINE f == [n \in low .. m |-> IF n = m THEN step[m][g[m - 1]] ELSE g[n]]
  <2>2. step[m] \in [D -> D] /\ g[m - 1] \in D
    OBVIOUS
  <2>3. f \in [low .. m -> D]
    BY <2>2
  <2>4. ASSUME NEW n \in low .. m
        PROVE  f[n] = IF n = low THEN base ELSE step[n][f[n - 1]]
    <3>1. CASE n = m
      BY <3>1
    <3>2. CASE n # m
      <4>1. n \in low .. m - 1 /\ f[n] = g[n] /\ (n # low => f[n - 1] = g[n - 1])
        BY <3>2
      <4>2. g[n] = IF n = low THEN base ELSE step[n][g[n - 1]]
        BY <2>1, <4>1 DEF Steps
      <4> QED  BY <4>1, <4>2
    <3> QED  BY <3>1, <3>2
  <2>5. Steps(f, low, m, base, step)
    <3> HIDE DEF f
    <3> QED  BY <2>3, <2>4 DEF Steps
  <2>6. \E h \in [low .. m -> D] : Steps(h, low, m, base, step)
    <3> HIDE DEF f
    <3> QED  BY <2>3, <2>5
  <2> QED  BY <2>6
<1>3. low .. high \subseteq S
  <2> HIDE DEF S
  <2> QED  BY <1>1, <1>2, Induction
<1> QED  BY <1>3

\* And its values are of a kind if the first one is and the step keeps it.
LEMMA ValuesType ==
  ASSUME NEW low \in Nat, NEW high \in Nat, low <= high, NEW D, NEW f,
         f = [n \in low .. high |-> f[n]], f[low] \in D,
         \A n \in low + 1 .. high : f[n - 1] \in D => f[n] \in D
  PROVE  f \in [low .. high -> D]
<1> DEFINE S == {n \in low .. high : f[n] \in D}
<1>1. low \in S /\ \A n \in low + 1 .. high : n - 1 \in S => n \in S
  OBVIOUS
<1>2. low .. high \subseteq S
  <2> HIDE DEF S
  <2> QED  BY <1>1, Induction
<1> QED  BY <1>2
-----------------------------------------------------------------------------
(***************************************************************************)
(* Lines and their bytes.                                                  *)
(***************************************************************************)
RecordBytes == FlattenSeq(recordLine)

\* A line of the file is a sequence of rows, and a row one of bytes.
LEMMA LineBytes ==
  ASSUME NEW line \in RowLines \cup RecordLines \cup {<<>>}
  PROVE  /\ line \in Seq(Seq(Bytes))
         /\ \A i \in 1 .. Len(line) : line[i] \in Seq(Bytes) /\ Len(line[i]) \in Nat \ {0}
<1>1. line \in Seq(Seq(Bytes) \ {<<>>})
  <2>1. CASE line = <<>>
    BY <2>1, EmptySeq
  <2>2. CASE line \in RowLines \cup RecordLines
    BY <2>2, LinesAssumption DEF LinesAssumption, Bytes
  <2> QED  BY <2>1, <2>2
<1>2. \A i \in 1 .. Len(line) : line[i] \in Seq(Bytes) \ {<<>>}
  BY <1>1
<1>3. \A s \in Seq(Bytes) \ {<<>>} : Len(s) \in Nat \ {0}
  BY EmptySeq
<1>4. line \in Seq(Seq(Bytes))
  BY <1>1, <1>2, ElementOfSeq, SeqDef
<1> QED  BY <1>2, <1>3, <1>4

\* The bytes of a line, without the blanks, are bytes.
LEMMA FlattenType ==
  ASSUME NEW line \in Seq(Seq(Bytes))
  PROVE  FlattenSeq(line) \in Seq(Bytes)
<1>1. CASE Len(line) = 0
  BY <1>1, EmptySeq DEF FlattenSeq
<1>2. CASE Len(line) # 0
  <2> DEFINE step == [n \in 2 .. Len(line) |-> [d \in Seq(Bytes) |-> d \o line[n]]]
             F == CHOOSE flatten : flatten = [i \in 1 .. Len(line) |->
                    IF i = 1 THEN line[i] ELSE flatten[i - 1] \o line[i]]
  <2>1. /\ Len(line) \in Nat /\ 1 <= Len(line) /\ line[1] \in Seq(Bytes)
        /\ step \in [1 + 1 .. Len(line) -> [Seq(Bytes) -> Seq(Bytes)]]
    BY <1>2
  <2>2. PICK f \in [1 .. Len(line) -> Seq(Bytes)] : Steps(f, 1, Len(line), line[1], step)
    <3> HIDE DEF step
    <3> QED  BY <2>1, Recursion
  <2>3. f = [i \in 1 .. Len(line) |-> IF i = 1 THEN line[i] ELSE f[i - 1] \o line[i]]
    <3>1. ASSUME NEW i \in 2 .. Len(line)
          PROVE  step[i][f[i - 1]] = f[i - 1] \o line[i]
      <4>1. i - 1 \in 1 .. Len(line)
        BY <2>1
      <4>2. f[i - 1] \in Seq(Bytes)
        BY <4>1
      <4> QED  BY <4>2
    <3> HIDE DEF step
    <3>2. ASSUME NEW i \in 1 .. Len(line)
          PROVE  f[i] = IF i = 1 THEN line[i] ELSE f[i - 1] \o line[i]
      <4>1. f[i] = IF i = 1 THEN line[1] ELSE step[i][f[i - 1]]
        BY <2>2 DEF Steps
      <4>2. i # 1 => i \in 2 .. Len(line)
        BY <2>1
      <4> QED  BY <3>1, <4>1, <4>2
    <3>3. f = [i \in 1 .. Len(line) |-> f[i]]
      OBVIOUS
    <3> QED  BY <3>2, <3>3
  <2>4. F = [i \in 1 .. Len(line) |-> IF i = 1 THEN line[i] ELSE F[i - 1] \o line[i]]
    BY <2>3
  <2> HIDE DEF F
  <2>5. \A i \in 1 .. Len(line) : F[i] = IF i = 1 THEN line[i] ELSE F[i - 1] \o line[i]
    BY <2>4
  <2>6. ASSUME NEW i \in 1 + 1 .. Len(line), F[i - 1] \in Seq(Bytes)
        PROVE  F[i] \in Seq(Bytes)
    <3>1. i \in 1 .. Len(line) /\ i # 1
      BY <2>1
    <3>2. line[i] \in Seq(Bytes)
      BY <3>1
    <3>3. F[i] = F[i - 1] \o line[i]
      BY <2>5, <3>1
    <3> QED  BY <2>6, <3>2, <3>3
  <2>7. F = [i \in 1 .. Len(line) |-> F[i]] /\ F[1] \in Seq(Bytes)
    BY <2>1, <2>4, <2>5
  <2>8. F \in [1 .. Len(line) -> Seq(Bytes)]
    BY <2>1, <2>6, <2>7, ValuesType
  <2>9. FlattenSeq(line) = F[Len(line)]
    BY <1>2 DEF FlattenSeq, F
  <2>10. Len(line) \in 1 .. Len(line)
    BY <2>1
  <2> QED  BY <2>8, <2>9, <2>10
<1> QED  BY <1>1, <1>2
-----------------------------------------------------------------------------
(***************************************************************************)
(* Records.                                                                *)
(***************************************************************************)
\* What is left to send and what was sent are whole records, together no more
\* than the line has, which lies at the beginning of the buffer.
Records(n) == \E k \in Nat : n = k * RecordLen

RecordInv ==
  /\ Records(manfCnt) /\ manfCnt <= Len(RecordBytes)
  /\ stage = "ready" => Records(cnt) /\ cnt + manfCnt <= Len(RecordBytes)
  /\ Len(RecordBytes) <= Len(apcf)
  /\ \A i \in 1 .. Len(RecordBytes) : apcf[i] = RecordBytes[i]

\* The bytes of the two lines that are remembered.
LEMMA RecordBytesType ==
  ASSUME TypeOK
  PROVE  RecordBytes \in Seq(Bytes) /\ Len(RecordBytes) \in Nat
<1>1. recordLine \in Seq(Seq(Bytes))
  BY LineBytes DEF TypeOK
<1> QED  BY <1>1, FlattenType DEF RecordBytes

\* A product is a number that grows with its first factor.
LEMMA Product ==
  ASSUME NEW a \in Nat, NEW b \in Nat, NEW n \in Nat, a <= b
  PROVE  a * n \in Nat /\ b * n \in Nat /\ a * n <= b * n
         /\ (a < b => a * n + n <= b * n)
<1>1. PICK d \in Nat : b = a + d
  <2>1. b - a \in Nat /\ b = a + (b - a)
    OBVIOUS
  <2> QED  BY <2>1
<1>2. b * n = a * n + d * n /\ a * n \in Nat /\ d * n \in Nat
  BY <1>1
<1>3. CASE d = 0
  BY <1>1, <1>2, <1>3
<1>4. CASE d # 0
  <2>1. PICK e \in Nat : d = e + 1
    <3>1. d - 1 \in Nat /\ d = (d - 1) + 1
      BY <1>4
    <3> QED  BY <3>1
  <2>2. d * n = e * n + n /\ e * n \in Nat
    BY <2>1
  <2> QED  BY <1>1, <1>2, <2>2
<1> QED  BY <1>3, <1>4

\* Numbers of bytes that % finds to be whole records.
LEMMA WholeIsRecords ==
  ASSUME NEW n \in Nat, WholeRecords(n)
  PROVE  Records(n)
<1>1. RecordLen \in Nat \ {0}
  BY SizesAssumption DEF SizesAssumption
<1>2. n = RecordLen * (n \div RecordLen) + (n % RecordLen) /\ n \div RecordLen \in Nat
  BY <1>1
<1>3. n = (n \div RecordLen) * RecordLen
  BY <1>1, <1>2 DEF WholeRecords
<1> QED  BY <1>2, <1>3 DEF Records

\* A record less is whole records again, and so is a record more.
LEMMA RecordsLess ==
  ASSUME NEW n \in Nat, Records(n)
  PROVE  /\ n # 0 => n - RecordLen \in Nat /\ Records(n - RecordLen)
         /\ n + RecordLen \in Nat /\ Records(n + RecordLen)
<1>1. RecordLen \in Nat \ {0}
  BY SizesAssumption DEF SizesAssumption
<1>2. PICK k \in Nat : n = k * RecordLen
  BY DEF Records
<1>3. n + RecordLen = (k + 1) * RecordLen /\ k + 1 \in Nat /\ n + RecordLen \in Nat
  BY <1>1, <1>2
<1>4. ASSUME n # 0
      PROVE  k - 1 \in Nat /\ n - RecordLen = (k - 1) * RecordLen /\ n - RecordLen \in Nat
  <2>1. k # 0
    BY <1>1, <1>2, <1>4
  <2>2. k - 1 \in Nat
    BY <2>1
  <2>3. n - RecordLen = (k - 1) * RecordLen
    BY <1>1, <1>2
  <2> QED  BY <1>1, <2>2, <2>3, Product
<1> QED  BY <1>3, <1>4 DEF Records

\* What load_aml_stack_conf writes is at the beginning of the buffer.
LEMMA OverwriteHolds ==
  ASSUME NEW old \in Seq(Bytes), NEW new \in Seq(Bytes)
  PROVE  /\ Overwrite(old, new) \in Seq(Bytes) /\ Len(new) <= Len(Overwrite(old, new))
         /\ \A i \in 1 .. Len(new) : Overwrite(old, new)[i] = new[i]
<1> DEFINE rest == SubSeq(old, Len(new) + 1, Len(old))
<1>1. rest \in Seq(Bytes) /\ Len(rest) \in Nat /\ Len(new) \in Nat
  <2>1. \A i \in Len(new) + 1 .. Len(old) : old[i] \in Bytes
    OBVIOUS
  <2> QED  BY <2>1, SubSeqProperties
<1> HIDE DEF rest
<1>2. new \o rest \in Seq(Bytes) /\ Len(new \o rest) = Len(new) + Len(rest)
  BY <1>1
<1>3. \A i \in 1 .. Len(new) : (new \o rest)[i] = new[i]
  BY <1>1
<1> QED  BY <1>1, <1>2, <1>3 DEF Overwrite, rest

\* Loading ManfData: the buffer begins with the line, and as many bytes are to be
\* sent as it has, or none.
LEMMA LoadRecordsHolds ==
  ASSUME TypeOK, RecordInv, NEW line \in RecordLines, LoadManfData(line), stage' = "idle"
  PROVE  /\ RecordInv' /\ apcf' \in Seq(Bytes) /\ manfCnt' \in Nat
         /\ recordLine' \in RecordLines \cup {<<>>}
<1>1. CASE line = <<>> /\ manfCnt' = (IF WholeRecords(manfCnt) THEN manfCnt ELSE 0)
           /\ UNCHANGED <<apcf, recordLine>>
  <2>1. manfCnt' = manfCnt \/ manfCnt' = 0
    BY <1>1
  <2>2. Records(0)
    BY SizesAssumption DEF SizesAssumption, Records
  <2>3. Records(manfCnt)' /\ manfCnt' <= Len(RecordBytes) /\ manfCnt' \in Nat
    BY <2>1, <2>2, RecordBytesType DEF RecordInv, TypeOK, Records
  <2> QED  BY <1>1, <2>3 DEF RecordInv, RecordBytes, TypeOK
<1>2. CASE line # <<>> /\ apcf' = Overwrite(apcf, ManfDataSplit(line)) /\ recordLine' = line
           /\ manfCnt' = LET n == Len(ManfDataSplit(line)) IN IF WholeRecords(n) THEN n ELSE 0
  <2>1. line \in Seq(Seq(Bytes))
    BY LineBytes
  <2>2. RecordBytes' = ManfDataSplit(line) /\ RecordBytes' \in Seq(Bytes)
    BY <1>2, <2>1, FlattenType DEF RecordBytes, ManfDataSplit
  <2>3. Len(RecordBytes') \in Nat
    BY <2>2
  <2>4. /\ apcf' \in Seq(Bytes) /\ Len(RecordBytes') <= Len(apcf')
        /\ \A i \in 1 .. Len(RecordBytes') : apcf'[i] = RecordBytes'[i]
    BY <1>2, <2>2, OverwriteHolds DEF TypeOK
  <2>5. manfCnt' = IF WholeRecords(Len(RecordBytes')) THEN Len(RecordBytes') ELSE 0
    BY <1>2, <2>2
  <2>6. Records(0)
    BY SizesAssumption DEF SizesAssumption, Records
  <2>7. Records(manfCnt') /\ manfCnt' \in Nat /\ manfCnt' <= Len(RecordBytes')
    BY <2>3, <2>5, <2>6, WholeIsRecords
  <2> QED  BY <1>2, <2>4, <2>7 DEF RecordInv, Records
<1> QED  BY <1>1, <1>2 DEF LoadManfData

\* A quotient is no less than what the divisor goes into.
LEMMA Quotient ==
  ASSUME NEW m \in Nat, NEW n \in Nat, (m + 1) * RecordLen <= n
  PROVE  m \in 0 .. n \div RecordLen - 1
<1>1. RecordLen \in Nat \ {0}
  BY SizesAssumption DEF SizesAssumption
<1> DEFINE q == n \div RecordLen
<1>2. q \in Nat /\ n = RecordLen * q + (n % RecordLen) /\ n % RecordLen \in 0 .. RecordLen - 1
  BY <1>1
<1> HIDE DEF q
<1>3. ASSUME q <= m PROVE FALSE
  <2>1. q * RecordLen + RecordLen <= (m + 1) * RecordLen
    BY <1>1, <1>2, <1>3, Product
  <2>2. RecordLen * q = q * RecordLen /\ q * RecordLen \in Nat
    BY <1>1, <1>2
  <2> QED  BY <1>1, <1>2, <2>1, <2>2
<1>4. m < q
  BY <1>2, <1>3
<1> QED  BY <1>2, <1>4 DEF q

\* A record that is sent is one of the line's.
LEMMA RecordIsOfLine ==
  ASSUME TypeOK, RecordInv, stage = "ready", manfCnt > 0
  PROVE  \E n \in 0 .. Len(RecordBytes) \div RecordLen - 1 :
           [i \in 1 .. RecordLen |-> Apcf(cnt + i)]
             = SubSeq(RecordBytes, n * RecordLen + 1, (n + 1) * RecordLen)
<1>1. RecordLen \in Nat \ {0} /\ cnt \in Nat /\ manfCnt \in Nat
  BY SizesAssumption DEF SizesAssumption, TypeOK
<1>2. RecordBytes \in Seq(Bytes) /\ Len(RecordBytes) \in Nat
  BY RecordBytesType
<1>3. PICK n \in Nat : cnt = n * RecordLen
  BY DEF RecordInv, Records
<1>4. cnt + RecordLen <= Len(RecordBytes)
  <2>1. manfCnt - RecordLen \in Nat
    BY <1>1, RecordsLess DEF RecordInv
  <2> QED  BY <1>1, <1>2, <2>1 DEF RecordInv
<1>5. (n + 1) * RecordLen = cnt + RecordLen
  BY <1>1, <1>3
<1>6. n \in 0 .. Len(RecordBytes) \div RecordLen - 1
  BY <1>2, <1>4, <1>5, Quotient
<1> DEFINE sub == SubSeq(RecordBytes, cnt + 1, cnt + RecordLen)
           data == [i \in 1 .. RecordLen |-> Apcf(cnt + i)]
<1>7. \A i \in cnt + 1 .. cnt + RecordLen : RecordBytes[i] \in Bytes
  BY <1>1, <1>2, <1>4
<1>8. /\ sub \in Seq(Bytes) /\ Len(sub) = RecordLen
      /\ \A i \in 1 .. RecordLen : sub[i] = RecordBytes[cnt + i]
  BY <1>1, <1>7, SubSeqProperties
<1>9. \A i \in 1 .. RecordLen : Apcf(cnt + i) = RecordBytes[cnt + i]
  <2> SUFFICES ASSUME NEW i \in 1 .. RecordLen
               PROVE  Apcf(cnt + i) = RecordBytes[cnt + i]
    OBVIOUS
  <2>1. cnt + i \in 1 .. Len(RecordBytes) /\ cnt + i \in Nat
    BY <1>1, <1>2, <1>4
  <2>2. Len(apcf) \in Nat /\ cnt + i <= Len(apcf)
    BY <1>2, <2>1 DEF RecordInv, TypeOK
  <2> QED  BY <2>1, <2>2 DEF Apcf, RecordInv
<1>10. sub = [i \in 1 .. RecordLen |-> sub[i]]
  <2> HIDE DEF sub
  <2> QED  BY <1>1, <1>8
<1>11. data = sub
  <2> HIDE DEF sub
  <2> QED  BY <1>8, <1>9, <1>10
<1> QED  BY <1>3, <1>5, <1>6, <1>11

\* Sending one leaves the others.
LEMMA SendRecordHolds ==
  ASSUME TypeOK, RecordInv, NEW stop \in BOOLEAN, SendRecord(stop)
  PROVE  RecordInv' /\ RecordsOfLine' /\ manfCnt' \in Nat /\ cnt' \in Nat
         /\ command'.what \in {"default", "record"}
<1>1. RecordLen \in Nat \ {0} /\ cnt \in Nat /\ manfCnt \in Nat
  BY SizesAssumption DEF SizesAssumption, TypeOK
<1>2. RecordBytes' = RecordBytes /\ Len(RecordBytes) \in Nat /\ UNCHANGED <<apcf, recordLine>>
  BY RecordBytesType DEF SendRecord, RecordBytes
<1>3. CASE manfCnt = 0
  <2>1. command' = Default /\ stage' = "idle" /\ UNCHANGED <<cnt, manfCnt>>
    BY <1>3 DEF SendRecord
  <2> QED  BY <1>1, <1>2, <2>1 DEF RecordInv, RecordsOfLine, Records, Default
<1>4. CASE manfCnt > 0
  <2>1. /\ stage = "ready"
        /\ command' = [what |-> "record", data |-> [i \in 1 .. RecordLen |-> Apcf(cnt + i)]]
        /\ manfCnt' = manfCnt - RecordLen
        /\ \/ cnt' = 0 /\ stage' = "idle"
           \/ cnt' = cnt + RecordLen
    BY <1>4 DEF SendRecord
  <2>2. manfCnt' \in Nat /\ Records(manfCnt')
    BY <1>1, <1>4, <2>1, RecordsLess DEF RecordInv
  <2>3. ASSUME cnt' = cnt + RecordLen PROVE RecordInv' /\ cnt' \in Nat
    <3>1. cnt' \in Nat /\ Records(cnt')
      BY <1>1, <2>1, <2>3, RecordsLess DEF RecordInv
    <3>2. cnt' + manfCnt' = cnt + manfCnt
      BY <1>1, <2>1, <2>3
    <3> QED  BY <1>1, <1>2, <2>1, <2>2, <3>1, <3>2 DEF RecordInv
  <2>4. ASSUME cnt' = 0, stage' = "idle" PROVE RecordInv' /\ cnt' \in Nat
    BY <1>1, <1>2, <2>1, <2>2, <2>4 DEF RecordInv
  <2>5. RecordsOfLine'
    BY <1>2, <1>4, <2>1, RecordIsOfLine DEF RecordsOfLine, RecordBytes
  <2>6. RecordInv' /\ cnt' \in Nat
    BY <1>1, <2>1, <2>3, <2>4
  <2> QED  BY <2>1, <2>2, <2>5, <2>6
<1> QED  BY <1>1, <1>3, <1>4
-----------------------------------------------------------------------------
(***************************************************************************)
(* Rows: the table.                                                        *)
(***************************************************************************)
\* Of a line with proper rows the table holds each row in its place.
RowInv ==
  ProperLine => \A i \in 1 .. Len(rowLine) : \A k \in 1 .. Len(rowLine[i]) :
    table[At(i - 1) + k - 1] = rowLine[i][k]

Sizes == {MANF_ROW, MANF_COLUMN, Byte, BufferLen} \subseteq Nat \ {0} /\ MANF_COLUMN > 1

\* What the assumption says of the sizes, without the unfolding.
LEMMA SizesHold == Sizes
BY SizesAssumption DEF SizesAssumption, Sizes

\* The last of some rows is one of them.
LEMMA LastIsMember ==
  ASSUME NEW n \in Nat, NEW S \in SUBSET (1 .. n), S # {}
  PROVE  Max(S) \in S
<1> DEFINE T == {n - i : i \in S}
<1>1. T \in SUBSET Nat /\ T # {}
  <2>1. \A i \in S : n - i \in Nat
    OBVIOUS
  <2> QED  BY <2>1
<1>2. PICK t \in T : \A u \in T : t <= u
  <2> HIDE DEF T
  <2> QED  BY <1>1, Least
<1>3. PICK x \in S : t = n - x
  BY <1>2
<1>4. \A y \in S : y <= x
  <2> SUFFICES ASSUME NEW y \in S PROVE y <= x
    OBVIOUS
  <2>1. n - y \in T /\ y \in 1 .. n /\ x \in 1 .. n
    OBVIOUS
  <2>2. n - x <= n - y
    BY <1>2, <1>3, <2>1
  <2> QED  BY <2>1, <2>2
<1>5. \A y \in S : x >= y
  BY <1>4
<1> QED  BY <1>5 DEF Max

\* Places of rows do not overlap.
LEMMA Places ==
  ASSUME NEW a \in Nat, NEW b \in Nat
  PROVE  At(a) \in Nat /\ (a < b => At(a) + MANF_COLUMN <= At(b)) /\ At(a + 1) = At(a) + MANF_COLUMN
<1>1. MANF_COLUMN \in Nat
  BY SizesHold DEF Sizes
<1>2. At(a) \in Nat /\ At(a + 1) = At(a) + MANF_COLUMN
  BY <1>1 DEF At
<1>3. a < b => At(a) + MANF_COLUMN <= At(b)
  BY <1>1, Product DEF At
<1> QED  BY <1>2, <1>3

\* Where a row is written.
LEMMA WrittenCells ==
  ASSUME NEW line \in RowLines \cup {<<>>}, NEW i \in 1 .. Len(line)
  PROVE  /\ Written(line[i], i - 1) \subseteq Cells
         /\ \A k \in 1 .. Len(line[i]) : At(i - 1) + k - 1 \in Written(line[i], i - 1)
<1>1. i \in DOMAIN line /\ line \in RowLines /\ line[i] \in Seq(Bytes)
      /\ Len(line[i]) \in Nat /\ i - 1 \in Nat
  <2>1. line # <<>>
    BY EmptySeq
  <2> QED  BY <2>1, LineBytes
<1>2. Written(line[i], i - 1) \subseteq Cells
  BY <1>1, LinesAssumption DEF LinesAssumption
<1>3. At(i - 1) \in Nat
  BY <1>1, Places
<1> QED  BY <1>1, <1>2, <1>3 DEF Written

\* The splitter writes bytes.
LEMMA SplitType ==
  ASSUME TypeOK, NEW line \in RowLines \cup {<<>>}
  PROVE  W1uManfDataSplit(line) \in [Cells -> Bytes]
<1> SUFFICES ASSUME NEW c \in Cells PROVE W1uManfDataSplit(line)[c] \in Bytes
  BY DEF W1uManfDataSplit
<1> DEFINE by == {i \in DOMAIN line : c \in Written(line[i], i - 1)}
<1>1. W1uManfDataSplit(line)[c]
        = IF by = {} THEN table[c] ELSE line[Max(by)][c - At(Max(by) - 1) + 1]
  BY DEF W1uManfDataSplit
<1>2. CASE by = {}
  BY <1>1, <1>2 DEF TypeOK
<1>3. CASE by # {}
  <2>1. line \in Seq(Seq(Bytes)) /\ Len(line) \in Nat /\ DOMAIN line = 1 .. Len(line)
    BY LineBytes
  <2>2. Max(by) \in by
    BY <1>3, <2>1, LastIsMember
  <2> DEFINE i == Max(by)
  <2> HIDE DEF i
  <2>3. i \in 1 .. Len(line) /\ c \in Written(line[i], i - 1)
    BY <2>1, <2>2 DEF i
  <2>4. line[i] \in Seq(Bytes) /\ Len(line[i]) \in Nat
    BY <2>1, <2>3
  <2>5. At(i - 1) \in Nat /\ c \in Int
    BY <2>1, <2>3, Places, SizesHold DEF Cells, Sizes
  <2>6. c - At(i - 1) + 1 \in 1 .. Len(line[i])
    BY <2>3, <2>4, <2>5 DEF Written
  <2>7. line[i][c - At(i - 1) + 1] \in Bytes
    BY <2>4, <2>6
  <2> QED  BY <1>1, <1>3, <2>7 DEF i
<1> QED  BY <1>2, <1>3

\* A proper row is written to its own place, where no other row of the line is.
LEMMA SplitHolds ==
  ASSUME NEW line \in RowLines \cup {<<>>}, \A j \in DOMAIN line : Proper(line[j]),
         NEW i \in 1 .. Len(line), NEW k \in 1 .. Len(line[i])
  PROVE  W1uManfDataSplit(line)[At(i - 1) + k - 1] = line[i][k]
<1> DEFINE c == At(i - 1) + k - 1
           by == {j \in DOMAIN line : c \in Written(line[j], j - 1)}
<1>1. line \in Seq(Seq(Bytes)) /\ Len(line) \in Nat /\ DOMAIN line = 1 .. Len(line)
      /\ MANF_COLUMN \in Nat
  BY LineBytes, SizesHold DEF Sizes
<1>2. c \in Cells /\ i \in by
  BY <1>1, WrittenCells
<1>3. \A j \in 1 .. Len(line) : Len(line[j]) \in Nat /\ Len(line[j]) <= MANF_COLUMN
                                /\ At(j - 1) \in Nat
  <2> SUFFICES ASSUME NEW j \in 1 .. Len(line)
               PROVE  Len(line[j]) \in Nat /\ Len(line[j]) <= MANF_COLUMN /\ At(j - 1) \in Nat
    OBVIOUS
  <2>1. j - 1 \in Nat /\ j \in DOMAIN line
    BY <1>1
  <2> QED  BY <2>1, LineBytes, Places DEF Proper
<1>4. ASSUME NEW j \in by PROVE j = i
  <2>1. j \in 1 .. Len(line) /\ c \in Written(line[j], j - 1)
    BY <1>1
  <2>2. /\ At(i - 1) \in Nat /\ At(i - 1) <= c /\ c < At(i - 1) + MANF_COLUMN
        /\ c \in Nat
    BY <1>1, <1>3
  <2>3. At(j - 1) \in Nat /\ At(j - 1) <= c /\ c < At(j - 1) + MANF_COLUMN
    <3> HIDE DEF c
    <3> QED  BY <1>1, <1>3, <2>1, <2>2 DEF Written
  <2>4. i - 1 \in Nat /\ j - 1 \in Nat
    BY <1>1, <2>1
  <2>5. ~(i - 1 < j - 1) /\ ~(j - 1 < i - 1)
    <3> HIDE DEF c
    <3>1. i - 1 < j - 1 => At(i - 1) + MANF_COLUMN <= At(j - 1)
      BY <2>4, Places
    <3>2. j - 1 < i - 1 => At(j - 1) + MANF_COLUMN <= At(i - 1)
      BY <2>4, Places
    <3> QED  BY <1>1, <2>2, <2>3, <3>1, <3>2
  <2> QED  BY <2>1, <2>4, <2>5
<1>5. by = {i} /\ Max({i}) = i
  <2>1. by = {i}
    BY <1>2, <1>4
  <2>2. Max({i}) \in {i}
    BY <1>1, LastIsMember
  <2> QED  BY <2>1, <2>2
<1>6. W1uManfDataSplit(line)[c] = line[i][c - At(i - 1) + 1]
  <2>1. W1uManfDataSplit(line)[c]
          = IF by = {} THEN table[c] ELSE line[Max(by)][c - At(Max(by) - 1) + 1]
    BY <1>2 DEF W1uManfDataSplit
  <2> HIDE DEF by, c
  <2> QED  BY <1>5, <2>1
<1>7. c - At(i - 1) + 1 = k
  BY <1>1, <1>3
<1> QED  BY <1>6, <1>7
-----------------------------------------------------------------------------
(***************************************************************************)
(* Rows: the loop.                                                         *)
(***************************************************************************)
\* The case of the properties: a line of proper rows that has all that Manfcnt
\* selects, at the beginning of the loop.
Regular == TypeOK /\ RowInv /\ ProperLine /\ Given /\ cnt = 0

\* What the loop has gathered.
Datas == [data : Seq(Bytes), rows : Nat, full : BOOLEAN]

\* A row that is selected is copied from the table as the line has it.
LEMMA SelectedRow ==
  ASSUME Regular, NEW r \in manfPara
  PROVE  /\ r \in Rows /\ rowLine[r + 1] \in Seq(Bytes)
         /\ Sized(r) = Len(rowLine[r + 1]) /\ Copy(r) = rowLine[r + 1]
         /\ Len(rowLine[r + 1]) \in 1 .. MANF_COLUMN
<1>1. r \in Rows /\ r \in Nat /\ r + 1 \in DOMAIN rowLine /\ rowLine \in RowLines \cup {<<>>}
  BY SizesHold DEF Regular, TypeOK, Given, Rows, Sizes
<1> DEFINE row == rowLine[r + 1]
<1>2. /\ r + 1 \in 1 .. Len(rowLine) /\ row \in Seq(Bytes) /\ Len(row) \in Nat \ {0}
      /\ row[1] + 1 = Len(row) /\ Len(row) <= MANF_COLUMN
  BY <1>1, LineBytes DEF Regular, ProperLine, Proper
<1>3. At(r) \in Nat /\ (r + 1) - 1 = r
  BY <1>1, Places
<1>4. \A k \in 1 .. Len(row) : table[At(r) + k - 1] = row[k]
  <2>1. \A k \in 1 .. Len(row) : table[At((r + 1) - 1) + k - 1] = row[k]
    BY <1>2 DEF Regular, RowInv
  <2> QED  BY <1>3, <2>1
<1>5. Sized(r) = Len(row)
  <2>1. 1 \in 1 .. Len(row) /\ At(r) + 1 - 1 = At(r)
    BY <1>2, <1>3
  <2>2. table[At(r)] = row[1]
    BY <1>4, <2>1
  <2> QED  BY <1>2, <2>2 DEF Sized
<1>6. Copy(r) = row
  <2>1. Copy(r) = [k \in 1 .. Len(row) |-> table[At(r) + k - 1]]
    BY <1>5 DEF Copy
  <2>2. row = [k \in 1 .. Len(row) |-> row[k]]
    <3> HIDE DEF row
    <3> QED  BY <1>2
  <2> QED  BY <1>4, <2>1, <2>2
<1>7. MANF_COLUMN \in Nat
  BY SizesHold DEF Sizes
<1> QED  BY <1>1, <1>2, <1>5, <1>6, <1>7

\* One round gathers a row, or nothing.
LEMMA GatherType ==
  ASSUME Regular, NEW d \in Datas, NEW r \in Rows
  PROVE  Gather(d, r) \in Datas
<1>1. CASE r \in manfPara
  <2>1. Copy(r) \in Seq(Bytes) /\ d.data \o Copy(r) \in Seq(Bytes)
    <3>1. Copy(r) \in Seq(Bytes) /\ d.data \in Seq(Bytes)
      BY <1>1, SelectedRow DEF Datas
    <3> QED  BY <3>1
  <2>2. [d EXCEPT !.full = TRUE] \in Datas
    BY DEF Datas
  <2>3. [data |-> d.data \o Copy(r), rows |-> d.rows + 1, full |-> FALSE] \in Datas
    BY <2>1 DEF Datas
  <2> QED  BY <2>2, <2>3 DEF Gather
<1>2. CASE r \notin manfPara
  BY <1>2 DEF Gather
<1> QED  BY <1>1, <1>2

\* The loop is made of rounds.
LEMMA RoundsAre ==
  ASSUME Regular
  PROVE  \A n \in 0 .. MANF_ROW :
           Rounds[n] = IF n = 0 THEN Gathered ELSE Gather(Rounds[n - 1], n - 1)
<1> DEFINE step == [n \in 1 .. MANF_ROW |-> [d \in Datas |-> Gather(d, n - 1)]]
<1>1. MANF_ROW \in Nat /\ 0 <= MANF_ROW
  BY SizesHold DEF Sizes
<1>2. Gathered \in Datas
  BY EmptySeq DEF Gathered, Datas
<1>3. step \in [0 + 1 .. MANF_ROW -> [Datas -> Datas]]
  <2>1. \A n \in 1 .. MANF_ROW : n - 1 \in Rows
    BY <1>1 DEF Rows
  <2>2. \A n \in 1 .. MANF_ROW, d \in Datas : Gather(d, n - 1) \in Datas
    BY <2>1, GatherType
  <2> QED  BY <2>2
<1>4. PICK f \in [0 .. MANF_ROW -> Datas] : Steps(f, 0, MANF_ROW, Gathered, step)
  <2> HIDE DEF step
  <2> QED  BY <1>1, <1>2, <1>3, Recursion
<1>5. f = [n \in 0 .. MANF_ROW |-> IF n = 0 THEN Gathered ELSE Gather(f[n - 1], n - 1)]
  <2>1. ASSUME NEW n \in 0 .. MANF_ROW
        PROVE  f[n] = IF n = 0 THEN Gathered ELSE Gather(f[n - 1], n - 1)
    <3>1. f[n] = IF n = 0 THEN Gathered ELSE step[n][f[n - 1]]
      <4> HIDE DEF step
      <4> QED  BY <1>4 DEF Steps
    <3>2. ASSUME n # 0 PROVE step[n][f[n - 1]] = Gather(f[n - 1], n - 1)
      <4>1. n \in 1 .. MANF_ROW /\ n - 1 \in 0 .. MANF_ROW
        BY <1>1, <3>2
      <4> QED  BY <4>1
    <3> QED  BY <3>1, <3>2
  <2>2. f = [n \in 0 .. MANF_ROW |-> f[n]]
    OBVIOUS
  <2> QED  BY <2>1, <2>2
<1>6. Rounds = [n \in 0 .. MANF_ROW |->
                  IF n = 0 THEN Gathered ELSE Gather(Rounds[n - 1], n - 1)]
  BY <1>5 DEF Rounds
<1> QED  BY <1>6

\* And so is what is asked for.
LEMMA AskedIs ==
  ASSUME Regular
  PROVE  \A n \in 0 .. MANF_ROW : Asked[n] =
           IF n = 0 THEN <<>>
           ELSE Asked[n - 1] \o IF n - 1 \in manfPara THEN rowLine[n] ELSE <<>>
<1> DEFINE row(n) == IF n - 1 \in manfPara THEN rowLine[n] ELSE <<>>
           step == [n \in 1 .. MANF_ROW |-> [d \in Seq(Bytes) |-> d \o row(n)]]
<1>1. MANF_ROW \in Nat /\ 0 <= MANF_ROW
  BY SizesHold DEF Sizes
<1>2. <<>> \in Seq(Bytes)
  BY EmptySeq
<1>3. \A n \in 1 .. MANF_ROW : row(n) \in Seq(Bytes)
  <2> SUFFICES ASSUME NEW n \in 1 .. MANF_ROW PROVE row(n) \in Seq(Bytes)
    OBVIOUS
  <2>1. (n - 1) + 1 = n
    BY <1>1
  <2>2. n - 1 \in manfPara => rowLine[(n - 1) + 1] \in Seq(Bytes)
    BY SelectedRow
  <2> QED  BY <1>2, <2>1, <2>2
<1> HIDE DEF row
<1>4. step \in [0 + 1 .. MANF_ROW -> [Seq(Bytes) -> Seq(Bytes)]]
  BY <1>1, <1>3
<1>5. PICK f \in [0 .. MANF_ROW -> Seq(Bytes)] : Steps(f, 0, MANF_ROW, <<>>, step)
  <2> HIDE DEF step
  <2> QED  BY <1>1, <1>2, <1>4, Recursion
<1>6. f = [n \in 0 .. MANF_ROW |-> IF n = 0 THEN <<>> ELSE f[n - 1] \o row(n)]
  <2>1. ASSUME NEW n \in 0 .. MANF_ROW
        PROVE  f[n] = IF n = 0 THEN <<>> ELSE f[n - 1] \o row(n)
    <3>1. f[n] = IF n = 0 THEN <<>> ELSE step[n][f[n - 1]]
      <4> HIDE DEF step
      <4> QED  BY <1>5 DEF Steps
    <3>2. ASSUME n # 0 PROVE step[n][f[n - 1]] = f[n - 1] \o row(n)
      <4>1. n \in 1 .. MANF_ROW /\ n - 1 \in 0 .. MANF_ROW
        BY <1>1, <3>2
      <4> QED  BY <4>1
    <3> QED  BY <3>1, <3>2
  <2>2. f = [n \in 0 .. MANF_ROW |-> f[n]]
    OBVIOUS
  <2> QED  BY <2>1, <2>2
<1>7. Asked = [n \in 0 .. MANF_ROW |-> IF n = 0 THEN <<>> ELSE Asked[n - 1] \o row(n)]
  BY <1>6 DEF Asked, row
<1> QED  BY <1>7 DEF row

\* The rows that Manfcnt selects below the row n.
Below(n) == {r \in manfPara : r < n}

\* One more row raises their number by one if it is configured.
LEMMA BelowNext ==
  ASSUME manfPara \subseteq Rows, NEW n \in 1 .. MANF_ROW
  PROVE  /\ Cardinality(Below(n - 1)) \in Nat
         /\ Cardinality(Below(n)) = IF n - 1 \in manfPara THEN Cardinality(Below(n - 1)) + 1
                                                        ELSE Cardinality(Below(n - 1))
<1>1. MANF_ROW \in Nat /\ manfPara \subseteq Nat /\ n - 1 \in Nat
  BY SizesHold DEF Sizes, Rows
<1>2. IsFiniteSet(Below(n - 1))
  <2>1. Below(n - 1) \subseteq Rows
    BY DEF Below
  <2>2. IsFiniteSet(Rows)
    BY <1>1, FS_Interval DEF Rows
  <2> QED  BY <2>1, <2>2, FS_Subset
<1>3. Below(n) = IF n - 1 \in manfPara THEN Below(n - 1) \cup {n - 1} ELSE Below(n - 1)
  <2>1. \A r \in manfPara : r < n <=> r < n - 1 \/ r = n - 1
    BY <1>1
  <2> QED  BY <2>1 DEF Below
<1>4. n - 1 \notin Below(n - 1)
  BY <1>1 DEF Below
<1> QED  BY <1>2, <1>3, <1>4, FS_AddElement, FS_CardinalityType

\* After the rows below n the loop has gathered what is asked for among them,
\* without having run out of room, and with room to spare if a row was left out.
Gathering(n) ==
  /\ Rounds[n] \in Datas /\ ~Rounds[n].full
  /\ Rounds[n].data = Asked[n] /\ Rounds[n].rows = Cardinality(Below(n))
  /\ Len(Rounds[n].data) <= At(n)
  /\ (\E r \in 0 .. n - 1 : r \notin manfPara) =>
       Len(Rounds[n].data) + MANF_COLUMN <= At(n)

\* Each round adds its row, if it is selected.
LEMMA GatheringNext ==
  ASSUME Regular, NEW n \in 1 .. MANF_ROW, Gathering(n - 1)
  PROVE  Gathering(n)
<1> DEFINE d == Rounds[n - 1]
<1>1. /\ MANF_ROW \in Nat /\ MANF_COLUMN \in Nat /\ BufferLen \in Nat /\ n \in 0 .. MANF_ROW
      /\ n # 0 /\ n - 1 \in Rows /\ n - 1 \in Nat /\ (n - 1) + 1 = n
  BY SizesHold DEF Sizes, Rows
<1>2. /\ Rounds[n] = Gather(d, n - 1)
      /\ Asked[n] = Asked[n - 1] \o IF n - 1 \in manfPara THEN rowLine[n] ELSE <<>>
  BY <1>1, RoundsAre, AskedIs
<1>3. d \in Datas /\ ~d.full /\ d.data = Asked[n - 1] /\ d.rows = Cardinality(Below(n - 1))
      /\ Len(d.data) <= At(n - 1) /\ d.data \in Seq(Bytes) /\ Len(d.data) \in Nat
  BY DEF Gathering, Datas
<1> HIDE DEF d
<1>4. Rounds[n] \in Datas
  BY <1>1, <1>2, <1>3, GatherType
<1>5. At(n - 1) \in Nat /\ At(n) = At(n - 1) + MANF_COLUMN /\ manfPara \subseteq Rows
      /\ At(n) <= BufferLen
  <2>1. At(n - 1) \in Nat /\ At(n) = At(n - 1) + MANF_COLUMN
    BY <1>1, Places
  <2>2. At(n) <= At(MANF_ROW)
    BY <1>1, Product DEF At
  <2>3. At(MANF_ROW) <= BufferLen /\ At(MANF_ROW) \in Nat
    BY <1>1, SizesAssumption, Places DEF SizesAssumption, At
  <2> QED  BY <1>1, <2>1, <2>2, <2>3 DEF Regular, TypeOK
<1>6. CASE n - 1 \in manfPara
  <2>1. /\ Sized(n - 1) = Len(rowLine[n]) /\ Copy(n - 1) = rowLine[n]
        /\ rowLine[n] \in Seq(Bytes) /\ Len(rowLine[n]) \in 1 .. MANF_COLUMN
    BY <1>1, <1>6, SelectedRow
  <2>2. ~(Len(d.data) + Sized(n - 1) > BufferLen)
    BY <1>1, <1>3, <1>5, <2>1
  <2>3. Rounds[n] = [data |-> d.data \o rowLine[n], rows |-> d.rows + 1, full |-> FALSE]
    <3>1. ~(n - 1 < cnt)
      BY <1>1 DEF Regular
    <3> QED  BY <1>2, <1>3, <1>6, <2>1, <2>2, <3>1 DEF Gather
  <2>4. Len(d.data \o rowLine[n]) = Len(d.data) + Len(rowLine[n])
    BY <1>3, <2>1
  <2>5. ASSUME NEW r \in 0 .. n - 1, r \notin manfPara
        PROVE  Len(d.data) + MANF_COLUMN <= At(n - 1)
    <3>1. r \in 0 .. (n - 1) - 1
      BY <1>1, <1>6, <2>5
    <3> QED  BY <2>5, <3>1 DEF Gathering, d
  <2>6. Rounds[n].data = Asked[n] /\ ~Rounds[n].full
    <3>1. Asked[n] = Asked[n - 1] \o rowLine[n]
      BY <1>2, <1>6
    <3>2. Asked[n] = d.data \o rowLine[n]
      BY <1>3, <3>1
    <3>3. Rounds[n].data = d.data \o rowLine[n]
      <4> DEFINE new == d.data \o rowLine[n]
      <4>1. Rounds[n] = [data |-> new, rows |-> d.rows + 1, full |-> FALSE]
        BY <2>3
      <4> HIDE DEF new
      <4>2. Rounds[n].data = new
        BY <4>1
      <4> QED  BY <4>2 DEF new
    <3>4. ~Rounds[n].full
      BY <2>3
    <3> QED  BY <3>2, <3>3, <3>4
  <2>7. Rounds[n].rows = Cardinality(Below(n))
    BY <1>3, <1>5, <1>6, <2>3, BelowNext
  <2>8. /\ Len(Rounds[n].data) <= At(n)
        /\ (\E r \in 0 .. n - 1 : r \notin manfPara)
             => Len(Rounds[n].data) + MANF_COLUMN <= At(n)
    <3>1. Len(Rounds[n].data) = Len(d.data) + Len(rowLine[n])
      BY <2>3, <2>4
    <3>2. Len(rowLine[n]) \in Nat /\ Len(rowLine[n]) <= MANF_COLUMN
      BY <1>1, <2>1
    <3> DEFINE a == Len(d.data)
               b == Len(rowLine[n])
               e == Len(Rounds[n].data)
    <3>3. e = a + b /\ a \in Nat /\ b \in Nat /\ b <= MANF_COLUMN /\ a <= At(n - 1)
      BY <1>3, <3>1, <3>2
    <3>4. \A r \in 0 .. n - 1 : r \notin manfPara => a + MANF_COLUMN <= At(n - 1)
      BY <2>5
    <3> HIDE DEF a, b, e
    <3>5. e <= At(n)
      BY <1>1, <1>5, <3>3
    <3>6. \A r \in 0 .. n - 1 : r \notin manfPara => e + MANF_COLUMN <= At(n)
      BY <1>1, <1>5, <3>3, <3>4
    <3> QED  BY <3>5, <3>6 DEF e
  <2> QED  BY <1>4, <2>6, <2>7, <2>8 DEF Gathering
<1>7. CASE n - 1 \notin manfPara
  <2>1. Rounds[n] = d
    BY <1>2, <1>7 DEF Gather
  <2>2. Asked[n] = Asked[n - 1]
    BY <1>2, <1>3, <1>7, ConcatEmptySeq
  <2>3. Rounds[n].rows = Cardinality(Below(n))
    BY <1>3, <1>5, <1>7, <2>1, BelowNext
  <2>4. Len(d.data) + MANF_COLUMN <= At(n) /\ Len(d.data) <= At(n)
    BY <1>1, <1>3, <1>5
  <2> QED  BY <1>3, <1>4, <2>1, <2>2, <2>3, <2>4 DEF Gathering
<1> QED  BY <1>6, <1>7

\* The whole loop.
LEMMA LoopGathers ==
  ASSUME Regular
  PROVE  Gathering(MANF_ROW)
<1> DEFINE S == {n \in 0 .. MANF_ROW : Gathering(n)}
<1>1. MANF_ROW \in Nat
  BY SizesHold DEF Sizes
<1>2. 0 \in S
  <2>1. Rounds[0] = Gathered /\ Asked[0] = <<>>
    BY <1>1, RoundsAre, AskedIs
  <2>2. Below(0) = {}
    <3>1. \A r \in manfPara : ~(r < 0)
      BY <1>1 DEF Regular, TypeOK, Rows
    <3> QED  BY <3>1 DEF Below
  <2>3. Gathered \in Datas /\ Len(Gathered.data) = 0
    BY EmptySeq DEF Gathered, Datas
  <2>4. At(0) = 0
    BY SizesHold DEF At, Sizes
  <2>5. Cardinality(Below(0)) = 0 /\ 0 .. 0 - 1 = {}
    BY <2>2, FS_EmptySet
  <2>6. Gathering(0)
    BY <2>1, <2>3, <2>4, <2>5 DEF Gathering, Gathered
  <2> QED  BY <1>1, <2>6
<1>3. \A n \in 0 + 1 .. MANF_ROW : n - 1 \in S => n \in S
  BY <1>1, GatheringNext
<1>4. 0 .. MANF_ROW \subseteq S
  <2> HIDE DEF S
  <2> QED  BY <1>1, <1>2, <1>3, Induction
<1> QED  BY <1>1, <1>4

\* The command of the rows is what the loop has gathered.
LEMMA WaveformHolds ==
  ASSUME Regular, SetWaveformData, command'.what = "rows"
  PROVE  /\ command'.data = Asked[MANF_ROW] /\ command'.count = Cardinality(manfPara)
         /\ \/ command'.length = Len(command'.data) + 1
            \/ manfPara = Rows /\ Len(command'.data) >= Byte - 1
<1> DEFINE all == Rounds[MANF_ROW]
           new == [what |-> "rows", length |-> LengthByte(all.data),
                   count |-> all.rows, data |-> all.data]
<1>1. command' = new
  <2>1. command' = Default \/ command' = new
    BY DEF SetWaveformData
  <2> QED  BY <2>1 DEF Default
<1>2. all \in Datas /\ all.data = Asked[MANF_ROW] /\ all.rows = Cardinality(Below(MANF_ROW))
  BY LoopGathers DEF Gathering
<1>3. Below(MANF_ROW) = manfPara
  <2>1. MANF_ROW \in Nat /\ \A r \in manfPara : r < MANF_ROW
    BY SizesHold DEF Regular, TypeOK, Rows, Sizes
  <2> QED  BY <2>1 DEF Below
<1>4. Len(all.data) \in Nat /\ At(MANF_ROW) \in Nat /\ At(MANF_ROW) <= Byte /\ Byte \in Nat
      /\ MANF_COLUMN \in Nat /\ MANF_COLUMN > 1
  <2>1. all.data \in Seq(Bytes)
    BY <1>2 DEF Datas
  <2>2. MANF_ROW \in Nat
    BY SizesHold DEF Sizes
  <2>3. Len(all.data) \in Nat
    BY <2>1
  <2>4. At(MANF_ROW) \in Nat /\ At(MANF_ROW) <= Byte
    BY <2>2, SizesAssumption, Places DEF SizesAssumption, At
  <2> HIDE DEF all
  <2> QED  BY <2>3, <2>4, SizesHold DEF Sizes
<1>5. Len(all.data) + 1 < Byte \/ (manfPara = Rows /\ Len(all.data) >= Byte - 1)
  <2>1. CASE manfPara = Rows
    BY <1>4, <2>1
  <2>2. CASE manfPara # Rows
    <3>1. PICK r \in Rows : r \notin manfPara
      BY <2>2 DEF Regular, TypeOK
    <3>2. Len(all.data) + MANF_COLUMN <= At(MANF_ROW)
      BY <3>1, LoopGathers DEF Gathering, Rows
    <3>3. \A n, column, at, byte \in Nat :
            n + column <= at /\ at <= byte /\ column > 1 => n + 1 < byte
      OBVIOUS
    <3> HIDE DEF all
    <3> QED  BY <1>4, <3>2, <3>3
  <2> QED  BY <2>1, <2>2
<1>6. Len(all.data) + 1 < Byte => LengthByte(all.data) = Len(all.data) + 1
  <2>1. \A n, byte \in Nat : n < byte => n % byte = n
    OBVIOUS
  <2> DEFINE n == Len(all.data) + 1
  <2>2. n \in Nat /\ LengthByte(all.data) = n % Byte
    BY <1>4 DEF LengthByte
  <2> HIDE DEF n
  <2> SUFFICES ASSUME n < Byte PROVE n % Byte = n
    BY <2>2 DEF n
  <2> QED  BY <1>4, <2>1, <2>2
<1>7. new.data = all.data /\ new.count = all.rows /\ new.length = LengthByte(all.data)
  OBVIOUS
<1> HIDE DEF all, new
<1> QED  BY <1>1, <1>2, <1>3, <1>5, <1>6, <1>7
-----------------------------------------------------------------------------
(***************************************************************************)
(* All together.                                                           *)
(***************************************************************************)
\* The handler of the rows is reached with cnt at 0 only.
StartInv == stage = "ready" /\ kind = "rows" => cnt = 0

SentInv == RowsArrive /\ LengthIsTrue /\ RecordsOfLine

ManfInv == TypeOK /\ RecordInv /\ RowInv /\ StartInv /\ SentInv

\* Nothing has been sent, or the default.
LEMMA NothingSent ==
  ASSUME command'.what \in {"none", "default"}
  PROVE  SentInv'
BY DEF SentInv, RowsArrive, LengthIsTrue, RecordsOfLine

\* Loading a file.
LEMMA LoadHolds ==
  ASSUME ManfInv, LoadAmlStackConf
  PROVE  ManfInv'
<1>1. stage' = "idle" /\ command' = NoCommand /\ kind' = kind /\ cnt' = cnt
  BY DEF LoadAmlStackConf
<1>2. SentInv' /\ StartInv' /\ command'.what \in Sent
  BY <1>1, NothingSent DEF StartInv, NoCommand, Sent
<1>3. CASE kind = "records" /\ (\E line \in RecordLines : LoadManfData(line))
           /\ UNCHANGED <<table, rowLine, manfPara>>
  <2>1. PICK line \in RecordLines : LoadManfData(line)
    BY <1>3
  <2>2. /\ RecordInv' /\ apcf' \in Seq(Bytes) /\ manfCnt' \in Nat
        /\ recordLine' \in RecordLines \cup {<<>>}
    BY <1>1, <2>1, LoadRecordsHolds DEF ManfInv
  <2>3. TypeOK'
    BY <1>1, <1>2, <1>3, <2>2 DEF ManfInv, TypeOK
  <2>4. RowInv'
    BY <1>3 DEF ManfInv, RowInv, ProperLine
  <2> QED  BY <1>2, <2>2, <2>3, <2>4 DEF ManfInv
<1>4. CASE /\ kind = "rows" /\ manfPara' \in Paras \cup {manfPara}
           /\ UNCHANGED <<apcf, manfCnt, recordLine>>
           /\ (\E line \in RowLines : LoadW1uManfData(line)) \/ UNCHANGED <<table, rowLine>>
  <2>1. ASSUME UNCHANGED <<table, rowLine>>
        PROVE  table' \in [Cells -> Bytes] /\ rowLine' \in RowLines \cup {<<>>} /\ RowInv'
    BY <2>1 DEF ManfInv, TypeOK, RowInv, ProperLine
  <2>2. ASSUME NEW line \in RowLines, table' = W1uManfDataSplit(line), rowLine' = line
        PROVE  table' \in [Cells -> Bytes] /\ rowLine' \in RowLines \cup {<<>>} /\ RowInv'
    <3>1. table' \in [Cells -> Bytes]
      BY <2>2, SplitType DEF ManfInv
    <3>2. RowInv'
      BY <2>2, SplitHolds DEF RowInv, ProperLine
    <3> QED  BY <2>2, <3>1, <3>2
  <2>3. table' \in [Cells -> Bytes] /\ rowLine' \in RowLines \cup {<<>>} /\ RowInv'
    BY <1>4, <2>1, <2>2 DEF LoadW1uManfData, ManfInv, TypeOK, RowInv, ProperLine
  <2>4. manfPara' \subseteq Rows
    BY <1>4, LinesAssumption DEF LinesAssumption, ManfInv, TypeOK
  <2>5. TypeOK'
    BY <1>1, <1>2, <1>4, <2>3, <2>4 DEF ManfInv, TypeOK
  <2>6. RecordInv'
    BY <1>1, <1>4 DEF ManfInv, RecordInv, RecordBytes
  <2> QED  BY <1>2, <2>3, <2>5, <2>6 DEF ManfInv
<1> QED  BY <1>3, <1>4 DEF LoadAmlStackConf

\* A configuration starts.
LEMMA StartHolds ==
  ASSUME ManfInv, ConfigStart
  PROVE  ManfInv'
<1>1. cnt' = 0 /\ stage' = "ready" /\ command' = NoCommand /\ UNCHANGED conf
  BY DEF ConfigStart
<1>2. SentInv' /\ StartInv' /\ command'.what \in Sent
  BY <1>1, NothingSent DEF StartInv, NoCommand, Sent
<1>3. TypeOK' /\ RowInv'
  BY <1>1, <1>2 DEF ManfInv, TypeOK, RowInv, ProperLine, conf
<1>4. Records(0)
  BY SizesAssumption DEF SizesAssumption, Records
<1>5. Len(RecordBytes) \in Nat /\ manfCnt \in Nat /\ RecordBytes' = RecordBytes
  BY <1>1, RecordBytesType DEF ManfInv, TypeOK, RecordBytes, conf
<1>6. RecordInv'
  BY <1>1, <1>4, <1>5 DEF ManfInv, RecordInv, conf
<1> QED  BY <1>2, <1>3, <1>6 DEF ManfInv

\* The rows are sent.
LEMMA RowsHold ==
  ASSUME ManfInv, SetWaveformData
  PROVE  ManfInv'
<1>1. kind = "rows" /\ stage = "ready" /\ stage' = "idle" /\ cnt' = MANF_ROW /\ UNCHANGED conf
      /\ command'.what \in {"default", "rows"}
  BY DEF SetWaveformData, Default
<1>2. TypeOK' /\ StartInv' /\ RowInv'
  BY <1>1, SizesHold DEF ManfInv, TypeOK, RowInv, ProperLine, StartInv, conf, Sent, Sizes
<1>3. RecordInv'
  BY <1>1 DEF ManfInv, RecordInv, RecordBytes, conf
<1>4. SentInv'
  <2>1. CASE command'.what = "default"
    BY <2>1, NothingSent
  <2>2. CASE command'.what = "rows"
    <3>1. ASSUME ProperLine, Given
          PROVE  /\ command'.data = Asked[MANF_ROW] /\ command'.count = Cardinality(manfPara)
                 /\ \/ command'.length = Len(command'.data) + 1
                    \/ manfPara = Rows /\ Len(command'.data) >= Byte - 1
      <4>1. Regular
        BY <1>1, <3>1 DEF Regular, ManfInv, StartInv
      <4> QED  BY <2>2, <4>1, WaveformHolds
    <3>2. UNCHANGED <<ProperLine, Given, Asked, manfPara>>
      BY <1>1 DEF conf, ProperLine, Given, Asked
    <3> QED  BY <2>2, <3>1, <3>2 DEF SentInv, RowsArrive, LengthIsTrue, RecordsOfLine
  <2> QED  BY <1>1, <2>1, <2>2
<1> QED  BY <1>2, <1>3, <1>4 DEF ManfInv

\* A record is sent.
LEMMA RecordsHold ==
  ASSUME ManfInv, SetBdAddr
  PROVE  ManfInv'
<1>1. PICK w1 \in BOOLEAN : SendRecord(w1)
  BY DEF SetBdAddr
<1>2. /\ RecordInv' /\ RecordsOfLine' /\ manfCnt' \in Nat /\ cnt' \in Nat
      /\ command'.what \in {"default", "record"}
  BY <1>1, SendRecordHolds DEF ManfInv
<1>3. kind = "records" /\ UNCHANGED <<kind, table, apcf, manfPara, rowLine, recordLine>>
      /\ stage' \in {"idle", "ready"}
  BY <1>1 DEF SendRecord, ManfInv, TypeOK
<1>4. TypeOK' /\ StartInv' /\ RowInv'
  BY <1>2, <1>3 DEF ManfInv, TypeOK, RowInv, ProperLine, StartInv, Sent
<1>5. SentInv'
  BY <1>2 DEF SentInv, RowsArrive, LengthIsTrue
<1> QED  BY <1>2, <1>4, <1>5 DEF ManfInv

\* At first nothing was loaded.
LEMMA InitHolds == Init => ManfInv
<1> SUFFICES ASSUME Init PROVE ManfInv
  OBVIOUS
<1>1. TypeOK
  BY SizesHold, EmptySeq DEF Init, TypeOK, NoCommand, Sent, Sizes, Bytes
<1>2. RecordBytes = <<>>
  BY EmptySeq DEF Init, RecordBytes, FlattenSeq
<1>3. Records(0)
  BY SizesAssumption DEF SizesAssumption, Records
<1>4. RecordInv
  BY <1>2, <1>3, EmptySeq DEF Init, RecordInv
<1>5. RowInv /\ StartInv /\ SentInv
  BY EmptySeq DEF Init, RowInv, StartInv, SentInv, RowsArrive, LengthIsTrue, RecordsOfLine, NoCommand
<1> QED  BY <1>1, <1>4, <1>5 DEF ManfInv

\* ManfInv is inductive, and so an invariant.
LEMMA InvariantHolds == Spec => []ManfInv
<1>1. ManfInv /\ [Next]_vars => ManfInv'
  <2> SUFFICES ASSUME ManfInv, [Next]_vars PROVE ManfInv'
    OBVIOUS
  <2>1. CASE UNCHANGED vars
    <3>1. UNCHANGED conf /\ UNCHANGED <<cnt, stage, command>>
      BY <2>1 DEF vars
    <3>2. TypeOK' /\ RecordInv' /\ RowInv' /\ StartInv'
      BY <3>1 DEF conf, ManfInv, TypeOK, RecordInv, RecordBytes, RowInv, ProperLine, StartInv
    <3>3. UNCHANGED <<ProperLine, Given, Asked>>
      BY <3>1 DEF conf, ProperLine, Given, Asked
    <3>4. SentInv'
      BY <3>1, <3>3 DEF conf, ManfInv, SentInv, RowsArrive, LengthIsTrue, RecordsOfLine
    <3> QED  BY <3>2, <3>4 DEF ManfInv
  <2> QED  BY <2>1, LoadHolds, StartHolds, RowsHold, RecordsHold DEF Next
<1> QED  BY <1>1, InitHolds, PTL DEF Spec

\* Every variable has its type; above all, what is copied from a line and from the
\* table are bytes, and the number of bytes to be sent never falls below 0.
THEOREM Typed == Spec => []TypeOK
BY InvariantHolds, PTL DEF ManfInv

\* What the controller is told to wake up on are the selected rows of the last
\* file, whole, in order and counted, whatever earlier files left in the table.
THEOREM RowsAreThoseOfTheFile == Spec => []RowsArrive
BY InvariantHolds, PTL DEF ManfInv, SentInv

\* The length byte of the rows is true, unless all rows are selected and fill the
\* table.
THEOREM LengthByteIsTrue == Spec => []LengthIsTrue
BY InvariantHolds, PTL DEF ManfInv, SentInv

\* A record that is sent is one of the last ManfData, however often a configuration
\* is given up half-way and started again.
THEOREM RecordsAreThoseOfTheFile == Spec => []RecordsOfLine
BY InvariantHolds, PTL DEF ManfInv, SentInv
=============================================================================
