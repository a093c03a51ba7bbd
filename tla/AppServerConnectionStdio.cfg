SPECIFICATION Spec
CONSTANTS
  c1 = c1  c2 = c2
  Callers = {c1}
  Targets = {"stdio"}
  Attempts = 1
  MaxTurns = 2
  MaxEpoch = 4
  Trouble = 2
INVARIANTS NeverFrozen
CHECK_DEADLOCK FALSE
