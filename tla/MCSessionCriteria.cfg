\* A session ends "well" although its Inform was never answered.
SPECIFICATION Spec
CONSTANTS
  AcsMethods <- OneOfEachKind
  MaxCalls = 1
  SendMayFail = FALSE
  MaxCookies = 0
  CookieLengths <- NoLengths
PROPERTIES
  TerminationCriteria
CHECK_DEADLOCK FALSE
