\* Three parameters of three values, so that a cut file differs from the tree
\* at its end; writes that fail at every step.
SPECIFICATION FairSpec
CONSTANTS
  Params = 3
  MaxValue = 2
  WriteFaults <- AllWriteFaults
INVARIANTS
  SavedOrScheduled
  NeverMixed
PROPERTIES
  RestComesBack
  ChangesAreSaved
\* A torn file keeps the agent from starting.
CHECK_DEADLOCK FALSE
