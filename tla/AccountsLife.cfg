SPECIFICATION Spec
CONSTANTS
  Tenants = {t1}
  Users = {u1, u2}
  Tokens = {s1}
  Keys = {k1}
  Requests = {r1, r2}
  Console = Console
  None = None
  Unborn = Unborn
  Gone = Gone
  MaxAuthFailures = 2
  MaxCounted = 1
INVARIANTS NoOrphanCredentials LockedOut ThrottleBound
CHECK_DEADLOCK FALSE
SYMMETRY Symmetry
