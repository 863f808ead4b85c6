SPECIFICATION Spec
CONSTANTS
  None = None
  Absent = Absent
  c1 = c1
  c2 = c2
  c3 = c3
  c4 = c4
  Request = {c1, c2, c3}
  Tenant = {"icicle"}
  Username = {"alice"}
  Collection = {"biology", "Biology", "---"}
  SlugText = {"biology"}
  Slug <- MCSlug
  Dim = {1, 2}
  Topic = {"plant"}
  MetaKey = {"kind"}
  MetaValue = {"m", "n"}
  Limit = {1, 2}
  IndexField = {}
  IndexFields <- NoIndexFields
  DropEmpty = TRUE
  Workload <- SequentialWorkload
  MaxInFlight = 1
  Failing = {}
INVARIANTS
  DropDeletesSomething
