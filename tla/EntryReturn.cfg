CONSTANTS
  Main = Main
  Threads = {Main, t1, t2}
  Mutexes = {}
  WaitQueues = {}
  Priorities <- PrioritiesMC
  NoThread = NoThread
  NoQueue = NoQueue
  Calls = {"resume", "return", "detach"}
  HandlerCalls = {}
  MaxSuspend = 1
  MaxLock = 1
  MaxDepth = 6
SPECIFICATION Spec
CHECK_DEADLOCK FALSE
INVARIANTS ListedUntilDead
