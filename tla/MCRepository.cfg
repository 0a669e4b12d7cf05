\* Two objects at most, three in all: one place is used again.
SPECIFICATION Spec
CONSTANTS
  Schema <- Schemas
  Extension <- Extensions
  ListAttr <- File
  NumberAttr <- Count
  Numeral <- Numerals
  MaxValue = 2
  Paths <- AllPaths
  SetLists <- SomeSetLists
  Limit = 2
  MaxMade = 3
INVARIANTS
  PathsResolve
  ListedLocates
  HandlersAgree
PROPERTIES
  StaysPut
  ChangesHeard
  SetReadsBack
