SPECIFICATION Spec
CONSTANTS
  None = None
  t1 = t1  t2 = t2  c1 = c1  c2 = c2  r1 = r1  r2 = r2
  Threads = {t1}
  Commands = {c1, c2}
  RouteOf <- OneRoute
  Wants <- OneSwitch
  Limit = 1
  Own = {FALSE}
  MaxWire = 3
  Budget <- Several
  Trouble = 2
INVARIANTS GateInv NothingLost InWireOrder ProjectedOnce
PROPERTIES AnswerComesFirst HandoffIsComplete
CHECK_DEADLOCK FALSE
