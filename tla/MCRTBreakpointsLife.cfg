SPECIFICATION Spec
CONSTANTS
  f1 = f1  f2 = f2  c1 = c1  c2 = c2  t1 = t1  t2 = t2  tid1 = tid1
  None = None
  Fds = {f1}
  Callers = {c1, c2}
  Tasks = {t1, t2}
  PidOf <- SameTid
  Addrs = {a1, a2}
  MaxBreakpoints = 2
  MaxGlobal = 2
  MaxHits = 1
  MaxIds = 3
SYMMETRY CallerSymmetry
INVARIANTS
  TypeOK
  AttachedAsAuthorized
  HitsAuthorized
  CallbackHasItsEntry
  OneHitPerRegistration
  UniqueRegistrations
