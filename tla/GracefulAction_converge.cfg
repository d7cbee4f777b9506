SPECIFICATION FairSpec
CONSTANTS
  Brokers = {1, 2}
  OpIds = {1, 2}
  Scenes <- ScenesConverge
INVARIANT OneOperationPerBroker UpscaledByCruiseControl
PROPERTY Converges
CHECK_DEADLOCK FALSE
