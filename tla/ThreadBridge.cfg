SPECIFICATION FairSpec
CONSTANTS
  Calls = {c1, c2, c3}
  MaxBuffers = 4
  MailboxSize = 2
INVARIANTS TypeOK
PROPERTIES CallsSettle BuffersReturn
CHECK_DEADLOCK FALSE
