SPECIFICATION Spec
CONSTANTS
  c1 = c1  c2 = c2
  Callers = {c1}
  Threads = {}
  NumPages = 4
  PageSize = 2
  Width = 16
  MaxTransfer = 4
  Layouts <- Varied
  Addrs = {0, 1, 2, 3, 5, 6, 14}
  Sizes = {0, 1, 2, 3, 4, 6}
  AccessErrors = {"EINVAL", "ESRCH", "EPERM", "EACCES", "EINTR"}
  PinErrors = {"EFAULT", "ENOMEM", "EINTR", "EHWPOISON"}
  MaxMms = 2
INVARIANTS
  TypeOK
  OnlyPermitted
  RefusedForAReason
  FailedWriteTouchesNothing
  CompleteOnSuccess
  PagesFit
  BaseIsLowest
