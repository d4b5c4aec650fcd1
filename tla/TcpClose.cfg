SPECIFICATION FairSpec
CONSTANTS
  Attempts = 1
  MaxConnects = 2
  Origins = {"client", "accepted", "dropped"}
INVARIANTS TypeOK NeverCrashes FinishMeansOver
PROPERTIES CloseReported ConnectSettles
CHECK_DEADLOCK FALSE
