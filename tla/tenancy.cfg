SPECIFICATION Spec
CONSTANTS
  None = None
  Absent = Absent
  c1 = c1
  c2 = c2
  c3 = c3
  c4 = c4
  Request = {c1, c2, c3}
  Tenant = {"icicle", "designsafe"}
  Username = {"alice", "bob"}
  Collection = {"biology", "Biology"}
  SlugText = {"biology"}
  Slug <- MCSlug
  Dim = {1, 2}
  Topic = {}
  MetaKey = {}
  MetaValue = {}
  Limit = {1, 2}
  IndexField = {"user_id"}
  IndexFields <- MCIndexFields
  DropEmpty = TRUE
  Workload <- TenancyWorkload
  MaxInFlight = 3
  Failing = {c3}
INVARIANTS
  TypeOK
  StoredForItsOwner
  AnswersStayInTenancy
  MismatchIsOwnChoice
PROPERTIES
  OnlyOwnersTouchPoints
