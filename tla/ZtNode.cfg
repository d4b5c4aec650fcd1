SPECIFICATION FairSpec
CONSTANTS
  MaxEvents = 3
  MaxJoins = 2
  MayFail = TRUE
INVARIANTS TypeOK ListenerLive RefHoldsProcess
PROPERTIES EventsEnd CallsSettle EndFrees
