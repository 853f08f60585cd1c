CONSTANTS
  a = a
  b = b
  c = c
  d = d
  Node = {a, b, c, d}
  Scenes <- Graphs
  RunTypes = {"plan", "scene"}
  Executions <- LastId
  FloatUp <- Known
SPECIFICATION FairSpec
INVARIANTS
  TypeOK
  RoundInv
  RunsAfterPredecessors
  NothingBehindAMiss
  FullWeightReports
PROPERTIES
  JoinsItsNodes
  SceneReturns
