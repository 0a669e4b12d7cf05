\* Any ACS, a transport that may fail, sessions one after the other.
SPECIFICATION FairSpec
CONSTANTS
  AcsMethods <- OneOfEachKind
  MaxCalls = 3
  SendMayFail = TRUE
  MaxCookies = 2
  CookieLengths <- ShortAndLong
INVARIANTS
  OneExchange
  InStep
PROPERTIES
  CleanEnd
  
\* A session whose behaviour is undefined, and one whose first POST failed, stop.
CHECK_DEADLOCK FALSE
