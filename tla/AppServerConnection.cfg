SPECIFICATION FairSpec
CONSTANTS
  c1 = c1  c2 = c2
  Callers = {c1, c2}
  Targets = {"external", "stdio"}
  Attempts = 2
  MaxTurns = 1
  MaxEpoch = 5
  Trouble = 2
INVARIANTS TypeOK ReadyMeansRestored OneConnectionOpen LossIsHandledFirst StaysOnItsConnection NobodyWaitsInVain CloseIsFinal
PROPERTIES EveryCallEnds RestoredInBackground
CHECK_DEADLOCK FALSE
