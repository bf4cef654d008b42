SPECIFICATION Spec
CONSTANTS
  plain = plain
  fams = fams
  twin = twin
  disk1 = disk1
  disk2 = disk2
  default = default
  a = a
  b = b
  k1 = k1
  k2 = k2
  v1 = v1
  v2 = v2
  Unparsed = Unparsed
  Empty = Empty
  Unknown = Unknown
  Bad = Bad
  NotFound = NotFound
  Nothing = Nothing
  NoFamilies = NoFamilies
  Default = default
  Names <- JustFams
  Paths = {disk1, disk2}
  path <- FamsDisk
  Families = {default, a, b}
  FamilyLists <- Fixed
  CreateMissing = {}
  Keys = {k1, k2}
  Values = {v1, v2}
  Requests <- FamsRequests
  MaxCrashes = 1
  MaxStarts = 2
INVARIANT AlwaysOpens
CHECK_DEADLOCK FALSE
