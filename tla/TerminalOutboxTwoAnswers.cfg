SPECIFICATION Spec
CONSTANTS
  None = None
  r1 = r1  r2 = r2  x1 = x1  x2 = x2  t1 = t1  t2 = t2  a1 = a1  a2 = a2
  Routes = {r1}
  Threads = {x1}
  Turns = {t1}
  ThreadOf <- OneTurn
  AnswersOf <- TwoAnswers
  Failing = {}
  Reopening = {}
  Replays = {"running"}
  DeadRoutes = {}
  Start <- AllBound
  Budget <- EveryFault
  Trouble = 4
PROPERTIES SettledStaysSettled
CHECK_DEADLOCK FALSE
