SPECIFICATION Spec
CONSTANTS
  Messages = {m1, m2}
  Callers = {c1}
  Background = bg
  MaxStamp = 3
  MaxRevision = 4
  MaxCrashes = 1
  MaxCancels = 1
INVARIANTS
  DurabilityInv
  ReportedIsDurable
  CleanMarkersAreDurable
PROPERTIES
  DiskNeverRegresses
  RefinesDurableStore
  SaveSettles
  FlushAnswers
