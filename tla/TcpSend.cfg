SPECIFICATION FairSpec
CONSTANTS
  SndBuf = 3
  MaxWrite = 2
  ChunkLens = {0, 1, 4}
  MaxBytes = 6
  TcpWriteFails = FALSE
  PeerResets = TRUE
INVARIANTS TypeOK NoLostWakeup OneSendInFlight AcksConserved
PROPERTIES ImplementsByteSink WriteCompletes
