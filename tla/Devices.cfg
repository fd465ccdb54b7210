SPECIFICATION Spec
CONSTANTS
  Cases = {"nand", "card", "remote", "pixel", "video", "loop", "native loop", "playback", "audio", "readbacks", "mixer"}
  Small = FALSE
  Credits = 2  MaxLinks = 2  MaxModes = 2  MaxTimeouts = 2  DrawThreads = {t1, t2}
  MaxDraws = 2  MaxTokens = 3  MaxFinishes = 3  VideoThreads = {t1, t2}
  Pictures = {p1, p2}  Wrap = 3  MaxDue = 2  CatchUp = 2  IdleLoop = IdleLoop
  AudioEvery = 2  AsyncEvery = 2  MaxDepth = 2
  Raising = {"finish", "audio", "vi", "alarm"}  Limit = 6  Cushion = 3
  Lens = {1, 2, 3}  Request = 2  Numbers = 9  Failures = 1  Dests = {d1, d2}  Cap = 2
  DepthSlots = 2  MaxCopied = 3  MaxPeeks = 2  MaxSplits = 1  MapsMayFail = TRUE
  AuxBlocks = {b1, b2}  NoBlock = NoBlock  Lists <- CommandLists  MaxShadow = 3
  MaxLists = 2  MaxTitleWrites = 1  MaxMails = 2  CardPages = 4  PerBlock = 2
  MaxCardWrites = 2  CardMayFail = TRUE  BlockLens = {0, 1, 2}  Titles <- TitleKinds
  MaxClock <- Clocks  MaxPrograms <- Programs  MaxCredit = 1  MaxReplay = 3
  HostAnswers = {"ok", "absent", "fails"}  NandPaths = {p, q}  Existing = {p}
  InfoSlots = {i1, i2}  Parts = {x}  NoPath = NoPath  Blank = Blank  MaxFds = 2
  MaxInodes = 4
  t1 = t1  t2 = t2  p1 = p1  p2 = p2  d1 = d1  d2 = d2  b1 = b1  b2 = b2
INVARIANTS TypeOK RemoteKeepsToLink SignalsInOrder MixesAsInline RetracesExact
   LoopsAreSafe PlaybackInOrder
PROPERTIES FilesSurvive CardKeepsSaves AudioExact ReadbacksInOrder
VIEW Read
SYMMETRY Sessions
CHECK_DEADLOCK FALSE
