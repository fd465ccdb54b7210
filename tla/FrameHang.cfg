SPECIFICATION Spec
CONSTANTS
  Cases = {"frames"}
  Small = FALSE
  AlarmThreads = {hi, lo}  Urgency <- UrgencyMC  Alarms = {a1, a2}  Offsets = {0, 1}
  AlarmBatch = 2  MaxTime = 2  Threads = {m, t, u}  Addresses = {m, t, u}
  Callbacks = {}  Main = m  Contexts = {s, c1, c2}  Scheduler = s  NoGuest = NoGuest
  NoContext = NoContext  NoEntry = NoEntry  Fresh = Fresh  Starting = Starting
  NoAlarm = NoAlarm  NoFrame = NoFrame  Gone = Gone  NoThread = NoThread
  JobSlots = {j1, j2}  MaxJobs = 4  DoneSize = 1  NoJob = NoJob  Fibers = {f1, f2}
  First = f1  CommandBlocks = {b1}  Batch = 1  MaxReads = 2  MaxCalls = 2
  MaxDepth = 2  Requests = {r1, r2, r3}  NoRequest = NoRequest  DiBatch = 4
  MaxCommands = 2  MaxDone = 2  Closes = FALSE  MaxDraws = 3  MaxFrames = 3
  MaxSplits = 1  MaxShifts = 1  Joins = FALSE  Hashes = {h1, h2}  Clears = {}
  Cached <- CachedMC  Deferred <- DeferredMC  Builders = {w1, w2}  Cap = 1
  MaxBack = 1  PerFrame = 1  MaxFinds = 2  MayFail = TRUE  NetThreads = {n1}
  Fds = {fd}  NetKinds = {"dns", "poll", "recv", "connect"}  NetRequests = 2
  MaxOpens = 2  NoCaller = NoCaller  PoolSlots = 2  ViInterpolates = FALSE
  MaxShown = 3  MaxScans = 5  MaxTurns = 1  FSTBlocks = 1  MaxBlock = 6
  CardNames = {p, q}  DirSlots = {1, 2}  MaxCount = 2  MaxUpdates = 4
  MaxBlockWrites = 1  MaxTears = 2
  hi = hi  lo = lo  a1 = a1  f1 = f1  f2 = f2  n1 = n1  fd = fd  m = m  t = t  r1 = r1
  r2 = r2  r3 = r3  h1 = h1  h2 = h2
INVARIANT NoCircularWait
VIEW Read
CHECK_DEADLOCK FALSE
