\* Six Spaces, placed one after the other by either controller.
SPECIFICATION Spec
CONSTANTS
  m1 = m1
  m2 = m2
  m3 = m3
  s1 = s1
  s2 = s2
  s3 = s3
  s4 = s4
  s5 = s5
  s6 = s6
  s7 = s7
  none = none
  tenant = tenant
  gpu = gpu
  Clusters = {m1, m2}
  None = none
  Tenant = tenant
  Batch = 2
  MaxNumberOfSpaces <- TwoAndFour
  PlacementRoles <- AllTenant
  Spaces = {s1, s2, s3, s4, s5, s6}
  Signups = {s1, s2, s3, s4, s5}
  RoleSets = {{}}
  Preferences = {none}
  QuietStart = TRUE
  MaxInFlight = 1
  MaxEdits = 0
  MaxDeletes = 0
  MaxRestarts = 0

SYMMETRY SameOrigin

PROPERTIES ChosenLeastUsed
 
