SPECIFICATION FairSpec
CONSTANTS
  c1 = c1  c2 = c2
  Callers = {c1, c2}
  Threads = {c1}
  NumPages = 3
  PageSize = 2
  Width = 16
  MaxTransfer = 4
  Layouts <- Two
  Addrs = {3}
  Sizes = {2}
  AccessErrors = {"ESRCH"}
  PinErrors = {"EFAULT"}
  MaxMms = 1
PROPERTIES
  CallReturns
  MapperProceeds
