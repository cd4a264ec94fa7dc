SPECIFICATION FairSpec
CONSTANTS
  t1 = t1
  t2 = t2
  None = None
  Templates = {t1}
  MaxRevs = 3
  Contents = {"a", "b"}
  Disciplined = TRUE
  First = "a"
  MaxEdits = 1
  MaxFaults = 1
INVARIANTS TypeOK PublishedExists
PROPERTIES  TierSettles UnusedCollected
\* The edits and faults of the bounds end.
CHECK_DEADLOCK FALSE
