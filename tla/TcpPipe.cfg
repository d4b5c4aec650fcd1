SPECIFICATION PipeSpec
CONSTANTS
  SegLens = {1, 2}
  Wnd = 2
  PassMark = 2
  ReadMark = 1
  AckMax = 1
  MaxBytes = 6
  MaxPauses = 1
  MayBreak = TRUE
  SndBuf = 2
  ChunkLens = {3}
INVARIANTS TypeOK NothingLost WindowConserved
PROPERTIES ImplementsByteSource EndReported CatchesUp
CHECK_DEADLOCK FALSE
