SPECIFICATION Spec
CONSTANTS
  Messages = {m1}
  Callers = {c1}
  Background = bg
  MaxStamp = 2
  MaxRevision = 2
  MaxCrashes = 1
  MaxCancels = 2
INVARIANTS
  CleanMarkersAreDurable
