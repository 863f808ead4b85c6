SPECIFICATION PurgeSpec
CONSTANTS
  None = None
  Absent = Absent
  c1 = c1
  c2 = c2
  c3 = c3
  c4 = c4
  Request = {c1, c2, c3}
  Tenant = {"icicle", "designsafe"}
  Username = {"alice"}
  Collection = {"biology", "Biology", "chemistry"}
  SlugText = {"biology", "chemistry"}
  Slug <- MCSlug
  Dim = {1}
  Topic = {}
  MetaKey = {}
  MetaValue = {}
  Limit = {1}
  IndexField = {"user_id"}
  IndexFields <- NoIndexFields
  DropEmpty = TRUE
  Workload <- PurgeWorkload
  MaxInFlight = 2
  Failing = {c3}
  Purge = {s1}
  PurgeOwner <- PurgeByAlice
  ListConcurrency = 1
  FailingPurge = {s1}
INVARIANTS
  PurgeTypeOK
  SweepsOwnPoints
  NothingOldSurvives
  OnlyFailedPurgesLinger
  PurgeReportsAll
