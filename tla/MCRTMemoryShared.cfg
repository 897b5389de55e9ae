SPECIFICATION Spec
CONSTANTS
  c1 = c1  c2 = c2
  Callers = {c1, c2}
  Threads = {}
  NumPages = 3
  PageSize = 2
  Width = 16
  MaxTransfer = 4
  Layouts <- Few
  Addrs = {3}
  Sizes = {2}
  AccessErrors = {"ESRCH", "EPERM"}
  PinErrors = {"ENOMEM"}
  MaxMms = 2
SYMMETRY CallerSymmetry
INVARIANTS
  NothingLeaked
