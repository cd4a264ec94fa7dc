SPECIFICATION FairSpec
CONSTANTS
  MaxName = 3
  MaxCount = 2
  None = None
  Scenarios <- Lives
INVARIANTS LifecycleTypeOK OneRecord ActivationCounted
CHECK_DEADLOCK FALSE
PROPERTIES ApprovedServed AccessRevoked DeactivatedInTime
