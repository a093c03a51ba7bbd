SPECIFICATION Spec
CONSTANTS
  None = None
  t1 = t1  t2 = t2  c1 = c1  c2 = c2  r1 = r1  r2 = r2
  Threads = {t1}
  Commands = {c1, c2}
  RouteOf <- TwoRoutes
  Wants <- SameThread
  Limit = 1
  Own = {FALSE, TRUE}
  MaxWire = 2
  Budget <- EveryFault
  Trouble = 1
INVARIANTS NothingLost
PROPERTIES EverythingIsShown
CHECK_DEADLOCK FALSE
