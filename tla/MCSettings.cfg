\* ACS and proxy on one name, on two, on a literal address, and no proxy.
SPECIFICATION SettingsSpec
CONSTANTS
  Null = Null
  NoHost = Null
  Decimal <- MCDecimal
  Host <- MCHost
  Literal <- MCLiteral
  Proxy <- MCProxy
  Delivered <- MCDelivered
  Settable <- MCSettable
  Parts <- MCParts
  MaxSets = 2
INVARIANTS
  OneRound
  UsableRuns
  TakenAsMeant
PROPERTIES
  AddressKept
  SessionHostFound
