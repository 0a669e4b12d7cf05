\* The InstanceNumber of an AddObjectResponse does not locate the object.
SPECIFICATION ListSpec
CONSTANTS
  Limit = 0
  MaxMade = 2
  MaxValue = 1
INVARIANTS
  ToldLocates
