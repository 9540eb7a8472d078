SPECIFICATION FairSpec
CONSTANTS
  Runs = {r1, r2}
  Seconds = {s1}
  Retries = 1
  FailureRetries = 1
  ActiveRuns = 2
  MaxVersion = 2
  MaxFaults = 1
  NoRun = NoRun
INVARIANTS TypeOK GreenMeansDone SensorWatchesOwn JobInv
PROPERTIES ImplementsTableJob RunEnds
CHECK_DEADLOCK FALSE
