SPECIFICATION Spec
CONSTANTS
  SndBuf = 3
  MaxWrite = 2
  ChunkLens = {1, 3}
  MaxBytes = 4
  TcpWriteFails = TRUE
  PeerResets = FALSE
INVARIANTS CallbackMeansTaken
