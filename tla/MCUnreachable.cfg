SPECIFICATION Spec
CONSTANTS
  Daemons = {d1, d2}
  Servers = {s1}
  Strangers = {}
  NoPid = NoPid
  NoProc = NoProc
  Linger = Linger
  PidOf <- OwnPid
  Events = {"kill"}
  MaxSignals = 0
INVARIANTS StopReachesDaemon
CHECK_DEADLOCK FALSE
