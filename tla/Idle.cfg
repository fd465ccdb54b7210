CONSTANTS
  Scenarios = {"idleness"}
  Main = Main
  Threads = {Main, t1}
  Mutexes = {}
  WaitQueues = {q1}
  Priorities <- PrioritiesMC
  NoThread = NoThread
  NoQueue = NoQueue
  Calls = {}
  HandlerCalls = {}
  MaxSuspend = 1
  MaxLock = 1
  MaxDepth = 4
SPECIFICATION FairIdleness
CHECK_DEADLOCK FALSE
PROPERTY IdleServesSleepers
