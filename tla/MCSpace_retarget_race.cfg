\* A Space retargeted and deleted at any time.
SPECIFICATION Spec
CONSTANTS
  m1 = m1
  m2 = m2
  x1 = x1
  base = base
  pro = pro
  u1 = u1
  none = none
  Clusters = {m1, m2}
  Unknown = {}
  Tiers = {base}
  DefaultTier = base
  Users = {}
  None = none
  Others = 0
  MaxRev = 0
  MaxEdits = 3
  MaxFaults = 0
  Disciplined = FALSE
  Labelled = FALSE
  MemberLag = FALSE
INVARIANTS DeletedLeavesNothing
\* The behaviour ends when the edits and faults of the bounds are used up.
CHECK_DEADLOCK FALSE
