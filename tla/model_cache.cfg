SPECIFICATION Spec
CONSTANTS
  None = None
  Request = {r1, r2, r3}
  Preloader = preloader
  Model = {base, mini}
  Default = mini
  Allowed = {base, mini}
  Preload = TRUE
  Workers = 2
  MaxRestarts = 1
INVARIANTS
  TypeOK
  OneLoadAtATime
  LoadedAtMostOnce
  OneInstance
PROPERTIES
  EveryRerankEnds
