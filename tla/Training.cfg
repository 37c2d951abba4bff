CONSTANTS
  Null = Null
  Losses = {1, 3, 4}
  Patience = 2
  MinDelta = 1
  Batches = 2
  Epochs = 2
  MaxCalls = 8
  NoValue = NoValue
  Off = Off
  Fresh = Fresh
  N = 2
  Frozen = {}
  Kind = "Adam"
  Addresses = {a1, a2, a3}
  MaxSteps = 2
  LossValues = {1, 2, 4}
  NaN = 100
  Inf = 99
  patience = 2
  min_delta = 1
  Monitors = {"loss", "val_loss"}
  MaxEpochs = 4
  MaxFits = 2
  Kinds = {"kserve", "tf_serving", "openai", "triton", "onnx"}
  Endpoints = {"e1", "e2"}
  Malformed = {"bad"}
  Models = {"m1"}
  Versions = {0, 1}
  MaxChanges = 2
SPECIFICATION MCSpec
INVARIANTS
  OwnGradientsOnly
  BestIsBest
  ResumesTheRun
  StopsWhenStalled
  SavedIsBest
  AnswersFromTheEndpoint
  LoadedIsServed
PROPERTY WeightsAllOrNothing
SYMMETRY Symmetry
CHECK_DEADLOCK FALSE
