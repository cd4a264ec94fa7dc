SPECIFICATION FairSpec
CONSTANTS
  m1 = m1
  m2 = m2
  x1 = x1
  Home = m1
  None = None
  Clusters = {m1, m2}
  Unknown = {x1}
  SkipAutoCreateSpace = FALSE
  MemberLag = FALSE
  MaxEdits = 2
  MaxFaults = 1
INVARIANTS TypeOK
PROPERTIES ImplementsOwnership AccountsConverge
\* The edits and faults of the bounds end.
CHECK_DEADLOCK FALSE
