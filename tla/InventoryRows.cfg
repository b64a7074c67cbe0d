SPECIFICATION Spec
CONSTANTS
  Tenants = {t1, t2}
  Sites = {s1, s2}
  Tests = {x1}
  Agents = {a1, a2}
  Devices = {d1}
  Requests = {r1, r2}
  None = None
  Unborn = Unborn
  Gone = Gone
  MaxPlain = 1
  MaxGone = 1
INVARIANTS NoOrphans TenantsApart ClaimConsumesRow
CHECK_DEADLOCK FALSE
SYMMETRY Symmetry
