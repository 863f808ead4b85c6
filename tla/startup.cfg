SPECIFICATION LifespanSpec
CONSTANTS
  None = None
  Absent = Absent
  c1 = c1
  c2 = c2
  c3 = c3
  c4 = c4
  Request = {c1, c2}
  Tenant = {"icicle"}
  Username = {"alice"}
  Collection = {"biology", "Biology", "chemistry"}
  SlugText = {"biology", "chemistry"}
  Slug <- MCSlug
  Dim = {1}
  Topic = {}
  MetaKey = {}
  MetaValue = {}
  Limit = {}
  IndexField = {"user_id", "topic"}
  IndexFields <- TwoIndexFields
  DropEmpty = TRUE
  Workload <- LifespanWorkload
  MaxInFlight = 2
  Failing = {c1}
  Pod = {p1, p2}
  Old <- OldCollections
  MaxStarts = 3
INVARIANTS
  MissingIndexIsOwed
PROPERTIES
  EveryPodServes
  IndexesConverge
