SPECIFICATION Spec
CONSTANTS
  w1 = w1
  w2 = w2
  u1 = u1
  u2 = u2
  NoTenant = NoTenant
  Claims = {"a", "b", "c"}
  Tenants = {"t", "s"}
  TenantOf <- TenantOfEach
  Writers = {w1, w2}
  Upgraders = {u1, u2}
  Legacy <- TwoOld
  MaxEvents = 5
SYMMETRY Symmetric
INVARIANTS OnlyRawRowsAreSkipped
PROPERTIES HashesAreFinal
CHECK_DEADLOCK FALSE
