SPECIFICATION Spec
CONSTANTS
  Brokers = {1, 2, 3}
  Paths = {1, 2}
  OpIds = {1, 2, 3, 4}
  Ingresses = {"a", "b"}
  Scenes <- Scenes2
INVARIANT RestartsWithinLimit
