\* One change of a cluster or its memory, one deletion, one restart.
SPECIFICATION FairSpec
CONSTANTS
  m1 = m1
  m2 = m2
  m3 = m3
  s1 = s1
  s2 = s2
  s3 = s3
  s4 = s4
  s5 = s5
  s6 = s6
  s7 = s7
  none = none
  tenant = tenant
  gpu = gpu
  Clusters = {m1}
  None = none
  Tenant = tenant
  Batch = 2
  MaxNumberOfSpaces <- One
  PlacementRoles <- AllTenant
  Spaces = {s1, s2}
  Signups = {}
  RoleSets = {{}}
  Preferences = {none}
  QuietStart = FALSE
  MaxInFlight = 2
  MaxEdits = 1
  MaxDeletes = 1
  MaxRestarts = 1
PROPERTIES ReadinessConverges PendingServed
