SPECIFICATION Spec
CONSTANTS
  None = None
  Absent = Absent
  c1 = c1
  c2 = c2
  c3 = c3
  c4 = c4
  Request = {c1, c2, c3, c4}
  Tenant = {"icicle"}
  Username = {"alice"}
  Collection = {"biology", "Biology"}
  SlugText = {"biology"}
  Slug <- MCSlug
  Dim = {1, 2}
  Topic = {"plant"}
  MetaKey = {}
  MetaValue = {}
  Limit = {}
  IndexField = {}
  IndexFields <- NoIndexFields
  DropEmpty = TRUE
  Workload <- DeletionWorkload
  MaxInFlight = 2
  Failing = {}
PROPERTIES
  OnlyAskedForIsRemoved
