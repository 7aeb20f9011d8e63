SPECIFICATION MCSpec
CONSTANTS
  v1 = v1
  v2 = v2
  pic = pic
  film = film
  doc = doc
  u = u
  bob = bob
  b1 = b1
  b2 = b2
  p1 = p1
  p2 = p2
  Photos = {pic, film}
  Files = {doc}
  Videos = {film}
  Proxied = {film}
  Owners = {u}
  Admins = {}
  Readable <- MCReadable
  Offers <- MCOffers
  Caps <- MCCaps
  Passwords = {FALSE}
  Visits = {v1, v2}
  Visitors = {bob}
  MaxId = 1
  MaxToken = 2
  MaxCount = 2
  MaxEdits = 1
  PerIp = 1
  PerToken = 1
  UserNames = {"admin", "kim"}
  Seed = "admin"
  Browsers = {b1, b2}
  WebThreads = {b1, b2}
  MaxUser = 2
  MaxHash = 3
  Threshold = 1
  PerAddress = 1
  MaxFails = 1
  RootPhotos = {p1, p2}
  PathOf <- MCPathOf
  Mine = {p2}
  RuleFolders <- MCRuleFolders
  Levels = {"hidden", "manage"}
  Similar <- MCSimilar
  TaggedPhotos = {p1}
  Coordinates = {"here"}
  Times = {"noon", "dusk"}
  Turns = {1}
  Editors = {b1, b2}
  MaxVersion = 2
  MaxPhoto = 5
  Origin <- MCOrigin
  Me = "me"
  Filters <- MCFilters
  MaxZoom = 1
  Margin = 1
  PageSize = 1
  CellLimit = 2
  NearbyLimit = 2
  MarkerLimit = 2
  Tables <- MCTables
  GivenPlaces = {2}
  MaxCalls = 2
  MaxStarts = 1
  MaxChanges = 1
  SeenPhotos = {p1}
  Walk <- MCWalk
  Ocr = "ocr"
  Asks = {{"objects", "faces"}, {"ocr"}}
  Retries <- MCRetries
  Threads = {b1, b2}
  MaxRequests = 2
  MaxFaults = 1
ACTION_CONSTRAINT Bound
SYMMETRY Symmetry
INVARIANTS
  TypesOK
  CapHolds
  LocationsStay
  GuessesBounded
  AdminRemains
  SignedInKnow
  AnswersHeld
  TagsAgree
  PagesAgree
  CountsAgree
  StagesSettle
PROPERTIES
  PurgeSpares
  GuessesYield
CHECK_DEADLOCK FALSE
