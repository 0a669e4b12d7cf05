\* Session and DNS cache in place of what Cpe assumes of them.
SPECIFICATION FairSpec
CONSTANTS
  Periodic = TRUE
  MaxRetry = 1
  MaxEvents = 1
  PrepareMayFail = TRUE
  AcsMethods <- OneMethod
  MaxCalls = 1
  SendMayFail = TRUE
  MaxCookies = 0
  CookieLengths <- NoCookieLengths
  a = a
  NoHost = NoHost
  Host <- OneName
  Literal <- NoLiteral
  Proxy <- NoProxy
INVARIANTS
  SessionIsSound
PROPERTIES
  Implements
  DeletedByResponse
  ComesBack
\* A session that is undefined stops the model.
CHECK_DEADLOCK FALSE
