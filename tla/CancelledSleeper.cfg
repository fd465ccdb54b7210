CONSTANTS
  Main = Main
  Threads = {Main, t1, t2}
  Mutexes = {}
  WaitQueues = {}
  Priorities <- PrioritiesMC
  NoThread = NoThread
  NoQueue = NoQueue
  Calls = {"sleepTicks", "resume", "cancel", "detach"}
  HandlerCalls = {}
  MaxSuspend = 1
  MaxLock = 1
  MaxDepth = 4
SPECIFICATION Spec
CHECK_DEADLOCK FALSE
SYMMETRY Symmetry
PROPERTY OnlySleepersForced
