SPECIFICATION FairSpec
CONSTANTS
  Attempts = 0
  MaxConnects = 0
  Origins = {"accepted"}
PROPERTIES BothFinsClose
CHECK_DEADLOCK FALSE
