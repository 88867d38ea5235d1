SPECIFICATION Spec
CONSTANTS
  s1 = s1
  s2 = s2
  t1 = t1
  t2 = t2
  Tenants = {t1, t2}
  Scans = {s1, s2}
  TenantOf <- TenantOfTwo
  Legacy = {s2}
  Callers = {c1, c2}
  MaxMonth = 2
  None = None
SYMMETRY Symmetry
INVARIANTS TypeOK SettledOnce
PROPERTIES OlderSumsOverlap OverviewInWindow ClosedMonthSettles
CHECK_DEADLOCK FALSE
