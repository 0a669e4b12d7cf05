SPECIFICATION DataModelSpec
CONSTANTS
  Number <- MCNumber
  Bounds <- MCBounds
  Dates = {}
  Inputs <- MCInputs
  Texts = {"1", " x", "<"}
  MaxSchemas = 3
  MaxRoots = 2
  MaxChanges = 3
  Boots <- MCBoots
INVARIANTS
  TreeFitsModel
  ObjectsCanBeMade
  CarefulIsMade
PROPERTIES
  AcceptedBoots
  RestartKeeps
  CutIsPart
CHECK_DEADLOCK FALSE
