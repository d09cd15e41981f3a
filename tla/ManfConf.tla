------------------------------ MODULE ManfConf ------------------------------
(***************************************************************************)
(* The wake-up data: from the lines ManfData, W1UManfData and Manfcnt of   *)
(* the configuration file (load_aml_stack_conf and the two splitters of    *)
(* conf.c) to the bytes of the command HCI_VSC_WAKE_WRITE_DATA             *)
(* (hw_cfg_set_waveform_data and hw_cfg_set_bd_addr of hardware.c).        *)
(*                                                                         *)
(* A byte is a number, and a value of the file a sequence of rows of them: *)
(* two digits for each byte, as the file asks for, and one blank between   *)
(* the rows.  How the handlers are reached is HwConfig's.                  *)
(***************************************************************************)
EXTENDS Integers, Sequences, FiniteSets, FiniteSetsExt, SequencesExt

CONSTANTS
  Byte,         \* 256
  MANF_ROW, MANF_COLUMN,
  BufferLen,    \* LOCAL_BDADDR_PATH_BUFFER_LEN
  RecordLen,    \* sizeof(default_manf_data)
  RowLines,     \* values of W1UManfData
  RecordLines,  \* values of ManfData
  Paras         \* values of Manfcnt, as sets of rows

Cells == 0 .. MANF_ROW * MANF_COLUMN - 1
Rows == 0 .. MANF_ROW - 1

\* Where the row r begins in w1u_manf_data, and the cells that the r-th row of a
\* line is written to.  A row may be too long for its place.
At(r) == r * MANF_COLUMN
Written(row, r) == At(r) .. At(r) + Len(row) - 1

\* Bytes are bytes, rows are not empty and stay inside the table, and so do the
\* cells a row says it has.
ASSUME LinesAssumption ==
  /\ RowLines \cup RecordLines \subseteq Seq(Seq(0 .. Byte - 1) \ {<<>>})
  /\ \A line \in RowLines : \A i \in DOMAIN line :
       /\ Written(line[i], i - 1) \subseteq Cells
       /\ At(i - 1) + line[i][1] \in Cells
  /\ Paras \subseteq SUBSET Rows

\* The sizes of the code are 256, 16, 16, 256 and 6.
ASSUME SizesAssumption ==
  /\ {Byte, MANF_ROW, MANF_COLUMN, BufferLen, RecordLen} \subseteq Nat \ {0}
  /\ MANF_COLUMN > 1
  /\ MANF_ROW * MANF_COLUMN <= Byte /\ MANF_ROW * MANF_COLUMN <= BufferLen

VARIABLES
  kind,      \* what the chip's handler sends: "rows" or "records"
  table,     \* w1u_manf_data
  apcf,      \* APCF_config_manf_data, as far as it was written
  manfCnt,   \* amlbt_manf_cnt
  manfPara,  \* amlbt_manf_para
  cnt,       \* cnt, the global of hardware.c
  stage,     \* "idle" or "ready" for the handler that sends the wake-up data
  command,   \* the last HCI_VSC_WAKE_WRITE_DATA
  rowLine,   \* the last W1UManfData that was split,
  recordLine \* and the last ManfData

conf == <<kind, table, apcf, manfCnt, manfPara, rowLine, recordLine>>
vars == <<conf, cnt, stage, command>>

NoCommand == [what |-> "none"]

Init ==
  /\ kind \in {"rows", "records"}
  /\ table = [c \in Cells |-> 0] /\ apcf = <<>>
  /\ manfCnt = 0 /\ manfPara = {} /\ cnt = 1
  /\ stage = "idle" /\ command = NoCommand
  /\ rowLine = <<>> /\ recordLine = <<>>
-----------------------------------------------------------------------------
(***************************************************************************)
(* load_aml_stack_conf.                                                    *)
(***************************************************************************)
\* w1u_manf_data_split: what the line does not write stays as it was.
W1uManfDataSplit(line) ==
  [c \in Cells |->
     LET by == {i \in DOMAIN line : c \in Written(line[i], i - 1)} IN
     IF by = {} THEN table[c] ELSE line[Max(by)][c - At(Max(by) - 1) + 1]]

\* manf_data_split: the blanks between the rows are skipped.
ManfDataSplit(line) == FlattenSeq(line)

\* The new bytes cover the first of the old ones.
Overwrite(old, new) ==
  new \o SubSeq(old, Len(new) + 1, Len(old))

AnyNumber(n) == TRUE
WholeRecords(n) == n % RecordLen = 0

\* A value of less than two characters is an error that leaves everything as it
\* was; a number of bytes that is not a multiple of 6 counts as none.
LoadManfData(line) ==
  \/ /\ line = <<>>
     /\ manfCnt' = IF WholeRecords(manfCnt) THEN manfCnt ELSE 0
     /\ UNCHANGED <<apcf, recordLine>>
  \/ /\ line # <<>>
     /\ apcf' = Overwrite(apcf, ManfDataSplit(line))
     /\ manfCnt' = LET n == Len(ManfDataSplit(line)) IN IF WholeRecords(n) THEN n ELSE 0
     /\ recordLine' = line

LoadW1uManfData(line) ==
  \/ line = <<>> /\ UNCHANGED <<table, rowLine>>
  \/ line # <<>> /\ table' = W1uManfDataSplit(line) /\ rowLine' = line

\* The file has these lines, or lacks one of them.  Only those the chip uses are
\* followed: the others go to variables of their own.
LoadAmlStackConf ==
  /\ \/ /\ kind = "records"
        /\ \E line \in RecordLines : LoadManfData(line)
        /\ UNCHANGED <<table, rowLine, manfPara>>
     \/ /\ kind = "rows"
        /\ \/ \E line \in RowLines : LoadW1uManfData(line)
           \/ UNCHANGED <<table, rowLine>>
        /\ manfPara' \in Paras \cup {manfPara}
        /\ UNCHANGED <<apcf, manfCnt, recordLine>>
  /\ stage' = "idle" /\ command' = NoCommand
  /\ UNCHANGED <<kind, cnt>>

\* hw_config_quick_start, or the last chunk of a download; what was under way is
\* given up.
ConfigStart ==
  /\ cnt' = 0
  /\ stage' = "ready" /\ command' = NoCommand
  /\ UNCHANGED conf
-----------------------------------------------------------------------------
(***************************************************************************)
(* hw_cfg_set_waveform_data: the selected rows in one command.             *)
(***************************************************************************)
SizedShort(r) == table[At(r)]
Sized(r) == table[At(r)] + 1
Copy(r) == [i \in 1 .. Sized(r) |-> table[At(r) + i - 1]]

Gathered == [data |-> <<>>, rows |-> 0, full |-> FALSE]

\* A row that does not fit ends the loop.
Gather(done, r) ==
  IF done.full \/ r < cnt \/ r \notin manfPara THEN done
  ELSE IF Len(done.data) + Sized(r) > BufferLen THEN [done EXCEPT !.full = TRUE]
  ELSE [data |-> done.data \o Copy(r), rows |-> done.rows + 1, full |-> FALSE]

\* The loop up to the row n.
Rounds[n \in 0 .. MANF_ROW] ==
  IF n = 0 THEN Gathered ELSE Gather(Rounds[n - 1], n - 1)

LengthByteUncounted(data) == Len(data) % Byte
\* The parameters are the number of rows and the rows.
LengthByte(data) == (Len(data) + 1) % Byte

Default == [what |-> "default"]

\* What cnt is after the rows does not matter: ConfigStart comes first.
SetWaveformData ==
  /\ kind = "rows"
  /\ stage = "ready" /\ stage' = "idle"
  /\ \/ manfPara = {} /\ command' = Default
     \/ /\ manfPara # {}
        /\ LET all == Rounds[MANF_ROW] IN
           command' = [what |-> "rows", length |-> LengthByte(all.data),
                       count |-> all.rows, data |-> all.data]
  /\ cnt' = MANF_ROW
  /\ UNCHANGED conf
-----------------------------------------------------------------------------
(***************************************************************************)
(* hw_cfg_set_bd_addr and hw_cfg_set_wakeup_params: one record for each    *)
(* command complete event, or, on W1, only the first.                      *)
(***************************************************************************)
Apcf(i) == IF i <= Len(apcf) THEN apcf[i] ELSE 0

SendRecord(stop) ==
  /\ kind = "records"
  /\ stage = "ready"
  /\ \/ /\ manfCnt = 0
        /\ command' = Default /\ stage' = "idle"
        /\ UNCHANGED <<cnt, manfCnt>>
     \/ /\ manfCnt > 0
        /\ command' = [what |-> "record", data |-> [i \in 1 .. RecordLen |-> Apcf(cnt + i)]]
        /\ manfCnt' = manfCnt - RecordLen
        /\ IF stop \/ manfCnt' = 0 THEN cnt' = 0 /\ stage' = "idle"
                                   ELSE cnt' = cnt + RecordLen /\ UNCHANGED stage
  /\ UNCHANGED <<kind, table, apcf, manfPara, rowLine, recordLine>>

SetBdAddr == \E w1 \in BOOLEAN : SendRecord(w1)

Next == LoadAmlStackConf \/ ConfigStart \/ SetWaveformData \/ SetBdAddr

Spec == Init /\ [][Next]_vars
-----------------------------------------------------------------------------
(***************************************************************************)
(* Properties.                                                             *)
(***************************************************************************)
Bytes == 0 .. Byte - 1
Sent == {"none", "default", "rows", "record"}

\* Type invariant.
TypeOK ==
  /\ kind \in {"rows", "records"} /\ stage \in {"idle", "ready"}
  /\ table \in [Cells -> Bytes] /\ apcf \in Seq(Bytes)
  /\ manfCnt \in Nat /\ manfPara \subseteq Rows /\ cnt \in Nat
  /\ command.what \in Sent
  /\ rowLine \in RowLines \cup {<<>>} /\ recordLine \in RecordLines \cup {<<>>}

\* A row that fits its place and begins with the number of bytes that follow.
Proper(row) == row[1] + 1 = Len(row) /\ Len(row) <= MANF_COLUMN

\* The last line has all the rows that Manfcnt selects.
Given == \A r \in manfPara : r + 1 \in DOMAIN rowLine

\* What Manfcnt asks for among its first n rows.
Asked[n \in 0 .. MANF_ROW] ==
  IF n = 0 THEN <<>>
  ELSE Asked[n - 1] \o IF n - 1 \in manfPara THEN rowLine[n] ELSE <<>>

ProperLine == \A i \in DOMAIN rowLine : Proper(rowLine[i])

\* What the controller is told to wake up on are the selected rows of the file,
\* each of them whole, in the order of the file and counted, whatever an earlier
\* file has left in the table.
RowsArrive ==
  command.what = "rows" /\ ProperLine /\ Given =>
    command.data = Asked[MANF_ROW] /\ command.count = Cardinality(manfPara)

\* The length byte of this command is true, except if all of the 16 rows are
\* selected and have their 15 or 16 bytes: then it wraps.
LengthIsTrue ==
  command.what = "rows" /\ ProperLine /\ Given =>
    \/ command.length = Len(command.data) + 1
    \/ manfPara = Rows /\ Len(command.data) >= Byte - 1

\* Each record that is sent is a record of the last ManfData, unless it was no
\* whole number of them; however often the configuration is repeated or given up
\* half-way, none is put together from two, from an older file or from nothing.
RecordsOfLine ==
  command.what = "record" =>
    LET bytes == FlattenSeq(recordLine) IN
    \E n \in 0 .. Len(bytes) \div RecordLen - 1 :
      command.data = SubSeq(bytes, n * RecordLen + 1, (n + 1) * RecordLen)
=============================================================================
