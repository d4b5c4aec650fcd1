SPECIFICATION FairSpec
CONSTANTS
  Conns = {c1, c2}
  c1 = c1
  c2 = c2
  MaxListens = 2
  MaxCloses = 2
  AnyLimits = {2}
  OrderlyLimits = {1, 2}
INVARIANTS TypeOK HandlesAgree ConnAmountIsOpen
PROPERTIES FirstCloseDrained ImplementsLifecycle CloseCompletes BacklogReleased
