\* The parts of the server side by side; each has bounds of its own.
CONSTANTS
  Nothing = Nothing
  PerSecond = 2
  PerMinute = 3
  Second = 2
  Minute = 5
  Every = 4
  Silence = 2
  MinGap = 1
  MaxTries = 2
  MaxSkew = 1
  Horizon = 6
  a = a  u = u  b1 = b1  b2 = b2  o1 = o1  o2 = o2  f1 = f1  f2 = f2  g = g  Film = Film  Other = Other
  j1 = j1  s1 = s1  s2 = s2  r1 = r1  r2 = r2  r3 = r3
  Users = {a, u}
  Browsers = {b1, b2}
  Urls = {s1, s2}
  Keys = {"sign_in", "manage"}
  MaxAttempts = 2
  Defaults = {{}}
  Backup <- MCBackup
  NoSession = NoSession
  NoUrl = NoUrl
  MaxTurns = 3
  Viewers = {u}
  Films = {f1, f2, g}
  TitleOf <- MCTitleOf
  Starts = {1, 2}
  Jellystat <- MCJellystat
  NoPlayRow = NoPlayRow
  NoSource = NoSource
  MaxRows = 4
  MaxDeeds = 3
  Owners = {o1, o2}
  Seerrs = {s1, s2}
  Requests = {r1, r2, r3}
  AtFirst <- MCAtFirst
  MaxServices = 1
  Page = 2
  SmallPage = 1
  MaxPages = 3
  Overlap = 1
  Nowhere = Nowhere
  NoRow = NoRow
  MaxIds = 3
  MaxClock = 5
  MaxChanges = 2
  SafetyNet = 3
  Interval = 2
  MaxTick = 4
  MaxByHand = 2
  k1 = k1  k2 = k2
  Instances = {s1, s2}
  Awaits <- MCAwaits
  PartsOf <- MCPartsOf
  HasId = {k1}
  Sizes = {1, 3}
  WATCHED_EVERY_S = 1
  IDLE_EVERY_S = 3
  EMPTY_EVERY_S = 5
  WATCHING_FOR_S = 2
  PER_SERVICE_TIMEOUT = 1
  Nearest = 1
  Furthest = 3
  NoAnswer = NoAnswer
  NotThere = NotThere
  MaxMoment = 4
  MaxDoings = 3
SYMMETRY MCSymmetry
CHECK_DEADLOCK FALSE
SPECIFICATION ServerSpec
INVARIANTS
  ServerTypeOK
  ReadsArePaced WaitingIsEnough
  AttemptsHold ServedWhileEntitled AccessComesFromAdministrators SignedInMeansSetUp
  ActiveWhileFollowed 
  
  NoScanStaysUnread NobodyWaitsInVain
PROPERTIES
   RemovedForAReason
