SPECIFICATION FairSpec
CONSTANTS
  Runs = {r1, r2}
  Seconds = {s1}
  Retries = 1
  FailureRetries = 1
  ActiveRuns = 1
  MaxVersion = 1
  MaxFaults = 2
  NoRun = NoRun
INVARIANTS WritesAreBounded FaultsPay JobInv
PROPERTIES RunEnds
CHECK_DEADLOCK FALSE
