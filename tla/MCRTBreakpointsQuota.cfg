SPECIFICATION Spec
CONSTANTS
  f1 = f1  f2 = f2  c1 = c1  c2 = c2  t1 = t1  t2 = t2  tid1 = tid1
  None = None
  Fds = {f1, f2}
  Callers = {c1, c2}
  Tasks = {t1}
  PidOf <- OneTid
  Addrs = {a1}
  MaxBreakpoints = 1
  MaxGlobal = 1
  MaxHits = 1
  MaxIds = 2
SYMMETRY Symmetry
INVARIANTS
  ReferencesBalanced
  EventsWithinQuota
  ClosedIsClean
