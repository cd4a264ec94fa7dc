SPECIFICATION FairSpec
CONSTANTS
  m1 = m1
  m2 = m2
  x1 = x1
  Home = m1
  None = None
  Clusters = {m1, m2}
  Unknown = {x1}
  SkipAutoCreateSpace = FALSE
  MemberLag = TRUE
  MaxEdits = 2
  MaxFaults = 0
PROPERTIES AccountsConverge RecordDeletionCompletes
\* The edits and faults of the bounds end.
CHECK_DEADLOCK FALSE
