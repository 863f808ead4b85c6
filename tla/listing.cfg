SPECIFICATION ListingSpec
CONSTANTS
  None = None
  Absent = Absent
  c1 = c1
  c2 = c2
  c3 = c3
  c4 = c4
  Request = {c1, c2, c3, c4}
  Tenant = {"icicle", "designsafe"}
  Username = {"alice"}
  Collection = {"biology", "Biology", "chemistry", "physics"}
  SlugText = {"biology", "chemistry", "physics"}
  Slug <- MCSlug
  Dim = {1}
  Topic = {}
  MetaKey = {}
  MetaValue = {}
  Limit = {1}
  IndexField = {"user_id"}
  IndexFields <- NoIndexFields
  DropEmpty = TRUE
  Workload <- ListingWorkload
  MaxInFlight = 1
  Failing = {}
  Walk = {w1}
  WalkOwner <- WalkByAlice
  PageSize = 1
  Rank <- Alphabetical
  StatsCalls = 2
INVARIANTS
  SkipsNeedADrop
  RepeatsNeedACreation
  ErrsNeedADrop
