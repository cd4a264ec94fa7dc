SPECIFICATION FairSpec
CONSTANTS
  r1 = r1
  r2 = r2
  admin = admin
  view = view
  root = root
  Requests = {r1, r2}
  First = r1
  FirstRole = view
  Roles = {admin, view}
  Admin = admin
  Unknown = {root}
  None = None
  MaxLag = 2
  Scenarios <- Smallest
INVARIANTS TypeOK
PROPERTIES ImplementsOwnership RequestsServed AccessEnds KeepsBound RequestDeletionCompletes
\* The edits and faults of the bounds end.
CHECK_DEADLOCK FALSE
