\* Reading: two libraries, three items of which two are films, pages of two.
\* Telling: two people, a film and a show, up to three of six plays over four days; a day is two instants, a week two days.
CONSTANTS
  a = a  b = b  u = u  i1 = i1  i2 = i2  i3 = i3
  l1 = l1  l2 = l2  m = m  sh = sh  e1 = e1  e2 = e2  x = x  c1 = c1  c2 = c2  ac = ac
  s1 = s1  s2 = s2  nm = nm  ns = ns  hq = hq  mid = mid  far = far
  Null = Null  NoRow = NoRow  NoLib = NoLib  Last12 = Last12
  Libs = {a, b}
  Items = {i1, i2, i3}
  Titles = {i1, i2}
  Page = 2
  EmptyFloor = 3
  WipeFloor = 2
  Share = 2
  AllowShrink = FALSE
  MaxChanges = 2
  MaxBroken = 1
  MaxErrors = 1
  MaxStops = 1
  Accounts = {a, u}
  Shelves = {l1, l2}
  Catalog <- MCCatalog
  Rowid <- MCRowid
  PlayedFlags <- MCFlags
  PlaysToCome <- MCPlays
  DayLength = 2
  WeekLength = 2
  MonthLength = 1
  YearLength = 2
  LongSpan = 1
  MinPlay = 1
  MostNames = 1
  DaysAsked = {0, 2}
  PerPage = 1
  LastDay = 3
  MostPlays = 3
  StopsPerPage = 1
  GroupWindow = 1
  MinOverlap = 1
  BingeFrom = 2
  SittingFrom = 1
  FinishedTenths = 9
  SeenTenths = 8
  LastSpecial = 0
  Markers = {u}
  MaxPagesTurned = 3
  NumbersOf <- MCNumbers
  Services = {s1, s2}
  RequestsToCome <- MCRequests
  CalendarToCome <- MCCalendar
  GrabsToCome <- MCGrabs
  Behind = 1
  Ahead = 1
  FollowDays = 1
  SettledDays = 1
  ShortestPlay = 2
  MaxHeard = 1
  MaxNews = 3
  Log <- MCLog
  PlaceOf <- MCPlaceOf
  Home = hq
  CountryOf <- MCCountryOf
  Km <- MCKm
  Speed = 1
  MinKm = 2
  PairQuiet = 2
  BurstWindow = 2
  BurstMin = 2
  BurstLookback = 3
  MaxPlaced = 1
  MaxAnswers = 1
CHECK_DEADLOCK FALSE
SPECIFICATION ReportsSpec
INVARIANTS ReportsTypeOK  TheirOwn TimelineIsWhole TravelIsNoticed BurstsApart
PROPERTIES ProofOfRemoval NeverAllAtOnce LibraryEventuallyAgrees
