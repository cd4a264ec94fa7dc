SPECIFICATION FairSpec
CONSTANTS
  t1 = t1
  t2 = t2
  t3 = t3
  m1 = m1
  m2 = m2
  MaxNames = 2
  Scenarios <- TakenOrBehind
  Specs = {t1, t2}
  Unknown = {t3}
  Home = t1
  Clusters = {m1, m2}
  First = m1
  None = None
  Other = Other
  MaxLag = 2
INVARIANTS TypeOK OneSubSpace
PROPERTIES ImplementsOwnership RequestSettles RequestDeletionCompletes
\* The edits and faults of the bounds end.
CHECK_DEADLOCK FALSE
