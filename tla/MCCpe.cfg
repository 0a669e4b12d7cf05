\* Every start failure, periodic informs, and a count that runs past the last
\* row of the back-off table.
SPECIFICATION FairSpec
CONSTANTS
  Periodic = TRUE
  MaxRetry = 11
  MaxEvents = 2
  StartFaults <- AllStartFaults
INVARIANTS
  NextSessionScheduled
  BootUntilAcked
  StoredWasReported
  RetryWaitBounds
PROPERTIES
  OnlyAckedDeleted
  CreqHonoured
  BootDelivered
