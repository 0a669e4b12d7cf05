\* Any document of two parameters.
SPECIFICATION Spec
CONSTANTS
  ListTexts <- FewTexts
  MaxItems = 2
  MaxDepth = 6
INVARIANTS
  DataMatches
  ReadBack
  AcceptedIsWhole
\* A reader that followed a pointer it never set stops the model.
CHECK_DEADLOCK FALSE
