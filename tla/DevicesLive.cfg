SPECIFICATION FairSpec
CONSTANTS
  Cases = {"card", "remote", "pixel", "video", "loop", "audio", "playback", "readbacks", "mixer"}
  Small = TRUE
  Credits = 1  MaxLinks = 2  MaxModes = 1  MaxTimeouts = 1  DrawThreads = {t1, t2}
  MaxDraws = 1  MaxTokens = 0  MaxFinishes = 3  VideoThreads = {t1}  Pictures = {p1}
  Wrap = 3  MaxDue = 1  CatchUp = 1  IdleLoop = IdleLoop  AudioEvery = 1
  AsyncEvery = 1  MaxDepth = 1  Raising = {"finish", "audio"}  Limit = 3  Cushion = 2
  Lens = {1}  Request = 1  Numbers = 5  Failures = 0  Dests = {d1}  Cap = 1
  DepthSlots = 2  MaxCopied = 3  MaxPeeks = 1  MaxSplits = 1  MapsMayFail = FALSE
  AuxBlocks = {b1}  NoBlock = NoBlock  Lists <- ShortLists  MaxShadow = 3
  MaxLists = 1  MaxTitleWrites = 0  MaxMails = 2  CardPages = 2  PerBlock = 1
  MaxCardWrites = 2  CardMayFail = FALSE  BlockLens = {1}  Titles <- OneTitle
  MaxClock <- ShortClocks  MaxPrograms <- OneProgram  MaxCredit = 0  MaxReplay = 2
  HostAnswers = {"ok"}  NandPaths = {p, q}  Existing = {p}  InfoSlots = {i1}
  Parts = {x}  NoPath = NoPath  Blank = Blank  MaxFds = 1  MaxInodes = 4
  t1 = t1  t2 = t2  p1 = p1  p2 = p2  d1 = d1  d2 = d2  b1 = b1  b2 = b2
PROPERTIES DevicesGetTheirTurn
CHECK_DEADLOCK FALSE
