SPECIFICATION FairSpec
CONSTANTS
  Daemons = {d1}
  Servers = {s1, s2}
  Strangers = {x1}
  NoPid = NoPid
  NoProc = NoProc
  Linger = Linger
  PidOf <- RecycledServerPid
  Events = {"flap", "linger", "term"}
  MaxSignals = 2
PROPERTIES StopEnds
CHECK_DEADLOCK FALSE
