SPECIFICATION Spec
CONSTANTS
  Daemons = {d1}
  Servers = {s1, s2, s3}
  Strangers = {}
  NoPid = NoPid
  NoProc = NoProc
  Linger = Linger
  PidOf <- OwnPid
  Events = {"flap", "killBoot", "term", "int", "cli"}
  MaxSignals = 2
INVARIANTS TypeOK NoDuplicateServer SlotInv PidFileNamesWatched WatchedIsTailed StopInv
PROPERTIES ImplementsSlot OnlyARestartSurvivesStop
CHECK_DEADLOCK FALSE
