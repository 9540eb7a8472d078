SPECIFICATION Spec
CONSTANTS
  Daemons = {d1}
  Servers = {s1, s2}
  Strangers = {}
  NoPid = NoPid
  NoProc = NoProc
  Linger = Linger
  PidOf <- OwnPid
  Events = {"term"}
  MaxSignals = 1
INVARIANTS StoppedServerIsDown
CHECK_DEADLOCK FALSE
