SPECIFICATION ServerSpec
CONSTANTS
  c1 = c1
  c2 = c2
  Conns = {c1, c2}
  RequestsOf <- ByConn
  plain = plain
  fams = fams
  twin = twin
  disk1 = disk1
  disk2 = disk2
  default = default
  a = a
  b = b
  k1 = k1
  k2 = k2
  v1 = v1
  v2 = v2
  Unparsed = Unparsed
  Empty = Empty
  Unknown = Unknown
  Bad = Bad
  NotFound = NotFound
  Nothing = Nothing
  NoFamilies = NoFamilies
  Default = default
  Names <- Both2
  Paths = {disk1, disk2}
  path <- OneEach
  Families = {default, a, b}
  FamilyLists <- SameLists
  CreateMissing = {plain}
  Keys = {k1, k2}
  Values = {v1, v2}
  Requests <- Asked
  MaxCrashes = 1
  MaxStarts = 2
INVARIANT OpensUnlessKilled
PROPERTY AssertionHolds
PROPERTY ImplementsService
CHECK_DEADLOCK FALSE
