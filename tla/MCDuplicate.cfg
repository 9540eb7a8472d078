SPECIFICATION Spec
CONSTANTS
  Daemons = {d1, d2}
  Servers = {s1, s2}
  Strangers = {}
  NoPid = NoPid
  NoProc = NoProc
  Linger = Linger
  PidOf <- OwnPid
  Events = {"overlap"}
  MaxSignals = 0
INVARIANTS NoDuplicateServer
CHECK_DEADLOCK FALSE
