CONSTANTS
  Layers = {dense, relu, sigmoid}
  Null = Null
  Chain = TRUE
  MaxPasses = 3
  Models <- MCAllModels
  Batches = {1, 2}
  Losses = {"MSE", "CrossEntropy"}
  TokenPatterns <- MCTokens
  MaxCalls = 2
  MaxInits = 2
  MaxGrads = 1
  Shapes <- MCShapes
  NewShapes <- MCNewShapes
  MaxNumel = 8
  MaxOps = 4
SPECIFICATION MCSpec
INVARIANTS
  NodeIdsOrdered
  GradientsOfThisPass
  TracesOfOnePass
  GradientsAreAdjoint
  EveryOutputComputed
  OnlyOwnSampleAndPast
  BufferIsArray
PROPERTY RebuildKeepsWeights
CHECK_DEADLOCK FALSE
