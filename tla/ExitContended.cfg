CONSTANTS
  Main = Main
  Threads = {Main, t1, t2}
  Mutexes = {m1}
  WaitQueues = {}
  Priorities <- PrioritiesMC
  NoThread = NoThread
  NoQueue = NoQueue
  Calls = {"resume", "exit", "join", "lock", "unlock"}
  HandlerCalls = {}
  MaxSuspend = 1
  MaxLock = 1
  MaxDepth = 6
SPECIFICATION Spec
CHECK_DEADLOCK FALSE
SYMMETRY Symmetry
INVARIANTS JoinersWoken
