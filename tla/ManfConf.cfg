SPECIFICATION Spec
CONSTANTS
  Byte = 256
  MANF_ROW = 16
  MANF_COLUMN = 16
  BufferLen = 256
  RecordLen = 6
  RowLines <- SomeRowLines
  RecordLines <- SomeRecordLines
  Paras <- SomeParas
INVARIANTS
  RowsArrive
  LengthIsTrue
  RecordsOfLine
