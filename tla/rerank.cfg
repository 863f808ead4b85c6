SPECIFICATION Spec
CONSTANTS
  None = None
  Zero = 6
  Vector = {0, 1, 3, 6}
  Sim <- MCSim
  One = 2
  Score <- MCScore
  Lambda = {0, 1, 2}
  TopK = {2, 4}
  FetchK = {4}
  Relevance = {0, 1}
  MaxCandidates = 2
INVARIANTS
  RerankTypeOK
  FollowsMMR
  ScoresFall
  LambdaEnds
  FullAnswer
  TiesKeepOrder
