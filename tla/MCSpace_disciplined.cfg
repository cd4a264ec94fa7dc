\* Targets change only when the Space has settled: two members, one failed or
\* lost call or crash anywhere, and one other Space on each member.
SPECIFICATION Spec
CONSTANTS
  m1 = m1
  m2 = m2
  x1 = x1
  base = base
  pro = pro
  u1 = u1
  none = none
  Clusters = {m1, m2}
  Unknown = {}
  Tiers = {base}
  DefaultTier = base
  Users = {}
  None = none
  Others = 1
  MaxRev = 0
  MaxEdits = 3
  MaxFaults = 1
  Disciplined = TRUE
  Labelled = FALSE
  MemberLag = FALSE
INVARIANTS TypeOK Recorded
PROPERTIES ImplementsPlacement CountFollows
\* The behaviour ends when the edits and faults of the bounds are used up.
CHECK_DEADLOCK FALSE
