SPECIFICATION Spec
CONSTANTS
  Brokers = {1, 2}
  OpIds = {1, 2, 3}
  Scenes <- ScenesTurmoil
INVARIANT TypeOK RefMatchesWork
PROPERTY NoDataLost
CHECK_DEADLOCK FALSE
