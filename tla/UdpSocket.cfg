SPECIFICATION FairSpec
CONSTANTS
  MaxCalls = 4
  MaxDatagrams = 2
  Uses = {"any", "patient"}
INVARIANTS TypeOK PbufsAccounted NeverCrashes FlagsAgree
PROPERTIES NoMessageAfterClose CloseReported PortStays
