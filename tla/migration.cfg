SPECIFICATION MigrationSpec
CONSTANTS
  None = None
  Absent = Absent
  c1 = c1
  c2 = c2
  c3 = c3
  c4 = c4
  m1 = m1
  m2 = m2
  m3 = m3
  m4 = m4
  m5 = m5
  m6 = m6
  Request = {c1, c2, m1, m2, m3, m4, m5, m6}
  Tenant = {"icicle"}
  Username = {"alice", "bob"}
  Collection = {"biology", "Biology", "chemistry", "physics"}
  SlugText = {"biology", "chemistry", "physics"}
  Slug <- MCSlug
  Dim = {1, 2}
  Topic = {}
  MetaKey = {}
  MetaValue = {}
  Limit = {2}
  IndexField = {}
  IndexFields <- NoIndexFields
  DropEmpty = TRUE
  Workload <- MigrationWorkload
  MaxInFlight = 2
  Failing = {}
  LegacyNames <- MCLegacyNames
  Legacy <- MCLegacy
  SortedUsers <- MCSortedUsers
  MigrationTenant = "icicle"
  SCROLL_PAGE = 2
  MaxRuns = 2
INVARIANTS
  MigratedGoHome
  RunCopiesAll
  RestoredNeedsRerun
