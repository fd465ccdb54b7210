CONSTANTS
  Scenarios = {"suspension", "inheritance", "slumber", "life", "death"}
  Main = Main
  Threads = {Main, t1, t2}
  Mutexes = {m1, m2}
  WaitQueues = {q1}
  Priorities <- PrioritiesMC
  NoThread = NoThread
  NoQueue = NoQueue
  Calls = {}
  HandlerCalls = {}
  MaxSuspend = 2
  MaxLock = 1
  MaxDepth = 6
SPECIFICATION ScenarioSpec
CHECK_DEADLOCK FALSE
SYMMETRY Symmetry
INVARIANTS TypeOK ControlSound PendingExact RunQueueSound LinkedOnce NoLostThread
  SuspendedNeverRuns WaitersServed MutexesAgree UrgencyExact
  NobodyForgotten
