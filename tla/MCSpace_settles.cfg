\* Two edits of any kind and one failed or lost call, failed template or crash, then
\* the system is left alone; tiers are updated when the Space was provisioned from them.
SPECIFICATION FairSpec
CONSTANTS
  m1 = m1
  m2 = m2
  x1 = x1
  base = base
  pro = pro
  u1 = u1
  none = none
  Clusters = {m1, m2}
  Unknown = {}
  Tiers = {base}
  DefaultTier = base
  Users = {u1}
  None = none
  Others = 0
  MaxRev = 1
  MaxEdits = 2
  MaxFaults = 1
  Disciplined = TRUE
  Labelled = TRUE
  MemberLag = FALSE
PROPERTIES Settles DeletionCompletes
\* The behaviour ends when the edits and faults of the bounds are used up.
CHECK_DEADLOCK FALSE
