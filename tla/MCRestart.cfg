SPECIFICATION FairSpec
CONSTANTS
  Daemons = {d1}
  Servers = {s1, s2, s3}
  Strangers = {}
  NoPid = NoPid
  NoProc = NoProc
  Linger = Linger
  PidOf <- OwnPid
  Events = {"flap"}
  MaxSignals = 0
PROPERTIES RestartsWhenDown
CHECK_DEADLOCK FALSE
