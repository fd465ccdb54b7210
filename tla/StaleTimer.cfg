CONSTANTS
  Main = Main
  Threads = {Main, t1, t2}
  Mutexes = {}
  WaitQueues = {}
  Priorities <- PrioritiesMC
  NoThread = NoThread
  NoQueue = NoQueue
  Calls = {"sleepTicks", "resume"}
  HandlerCalls = {}
  MaxSuspend = 1
  MaxLock = 1
  MaxDepth = 5
SPECIFICATION Spec
CHECK_DEADLOCK FALSE
SYMMETRY Symmetry
PROPERTY DueTimerIsCurrent
