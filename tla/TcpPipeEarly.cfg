SPECIFICATION PipeSpec
CONSTANTS
  SegLens = {1, 2}
  Wnd = 2
  PassMark = 2
  ReadMark = 1
  AckMax = 1
  MaxBytes = 6
  MaxPauses = 1
  MayBreak = FALSE
  SndBuf = 2
  ChunkLens = {3}
INVARIANTS HandedOver
CHECK_DEADLOCK FALSE
