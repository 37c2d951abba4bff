CONSTANTS
  Layers = {dense}
  Null = Null
  Chain = TRUE
  MaxPasses = 0
  Models <- MCNormModels
  Batches = {1, 2}
  Losses = {"MSE"}
  TokenPatterns <- MCTokens
  MaxCalls = 2
  MaxInits = 2
  MaxGrads = 1
  Shapes <- MCShapes
  NewShapes <- MCNewShapes
  MaxNumel = 8
  MaxOps = 0
SPECIFICATION MCSpec
INVARIANT EvalIgnoresTheBatch
CHECK_DEADLOCK FALSE
