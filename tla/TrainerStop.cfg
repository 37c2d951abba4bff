CONSTANTS
  Null = Null
  Losses = {1, 3, 4}
  Patience = 2
  MinDelta = 1
  Batches = 3
  Epochs = 2
  MaxCalls = 6
SPECIFICATION TrainerSpec
INVARIANT StopEndsTraining
