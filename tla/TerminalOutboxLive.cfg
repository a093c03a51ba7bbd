SPECIFICATION Spec
CONSTANTS
  None = None
  r1 = r1  r2 = r2  x1 = x1  x2 = x2  t1 = t1  t2 = t2  a1 = a1  a2 = a2
  Routes = {r1, r2}
  Threads = {x1, x2}
  Turns = {t1, t2}
  ThreadOf <- TwoThreads
  AnswersOf <- AnswerThenSilence
  Failing = {}
  Reopening = {}
  Replays = {"done"}
  DeadRoutes = {r2}
  Start <- AllBound
  Budget <- Interruption
  Trouble = 1
PROPERTIES StagedIsDelivered
CHECK_DEADLOCK FALSE
