SPECIFICATION MCSpec
CONSTANTS
  r1 = r1
  r2 = r2
  w1 = w1
  w2 = w2
  w3 = w3
  p1 = p1
  p2 = p2
  Requests = {r1, r2}
  Workers = {w1}
  Paths <- MCPaths
  Folders <- MCFolders
  Disks <- MCDisks
  MaxId = 2
  MaxMade = 2
  Dirs = {"a", "b"}
  FileNames = {"x", "y"}
  Sent = {"x"}
  Stamped <- MCStamped
  Users = {"u", "v"}
  FolderUser <- MCFolderUser
  Copies <- MCCopies
  Sha <- MCSha
  Rank <- MCRank
  PageSize = 1
  ReadOnly = {2}
  Admins = {r1, r2}
  Cleaners = {w2, w3}
  MaxJob = 2
  Days = {1, 2}
  Photos = {p1, p2}
  Shown <- MCShown
  Small <- MCSmall
  FaceLabels = {"mum"}
  FirstFaces <- MCFirstFaces
  FirstClusters <- MCFirstClusters
  MaxFace = 4
  MaxCluster = 4
  MaxTurns = 3
CONSTRAINT FewLate
ACTION_CONSTRAINT Bound
SYMMETRY Symmetry
INVARIANTS
  TypesOK
  DocumentsSurvive
  IndexedIsCurrent
  PicturesSurvive
  CopyStays
  FacesCounted
PROPERTIES
  ScanRepairs
  OwnersUploaded
  CleanupCleans
  RebuildRepairs
CHECK_DEADLOCK FALSE
