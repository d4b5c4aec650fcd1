SPECIFICATION FairSpec
CONSTANTS
  Conns = {c1, c2}
  c1 = c1
  c2 = c2
  MaxListens = 2
  MaxCloses = 2
  AnyLimits = {}
  OrderlyLimits = {1}
PROPERTIES CallbackCalled
