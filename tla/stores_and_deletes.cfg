SPECIFICATION Spec
CONSTANTS
  None = None
  Absent = Absent
  c1 = c1
  c2 = c2
  c3 = c3
  c4 = c4
  Request = {c1, c2, c3, c4}
  Tenant = {"icicle"}
  Username = {"alice"}
  Collection = {"biology", "Biology"}
  SlugText = {"biology"}
  Slug <- MCSlug
  Dim = {1, 2}
  Topic = {}
  MetaKey = {}
  MetaValue = {}
  Limit = {3}
  IndexField = {}
  IndexFields <- NoIndexFields
  DropEmpty = TRUE
  Workload <- FirstStoreWorkload
  MaxInFlight = 3
  Failing = {c2}
INVARIANTS
  UniformWidth
  AcknowledgedIsVisible
  LossNeedsARace
  MiscountNeedsARace
  ReturnNeedsAnUpdate
  StoreErrNeedsARace
  EmptyIsExplained
