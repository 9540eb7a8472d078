SPECIFICATION FairSpec
CONSTANTS
  Daemons = {d1, d2}
  Servers = {s1, s2, s3}
  Strangers = {}
  NoPid = NoPid
  NoProc = NoProc
  Linger = Linger
  PidOf <- OwnPid
  Events = {"crash", "killBoot", "reboot"}
  MaxSignals = 0
INVARIANTS NoDuplicateServer TakeoverInv StartSucceeds BootInv
PROPERTIES ImplementsSlot StartSupervises Recovers
CHECK_DEADLOCK FALSE
