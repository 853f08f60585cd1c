CONSTANTS
  Goroutine = {g1, g2, g3}
  ChanCap = 1
  SceneSize = 1
  KafkaFails = FALSE
  ControlModes <- Both
  Messages <- Handled
  MaxMessages = 2
  Concurrency = 2
  RoundNum = 2
  MaxConcurrency = 3
SPECIFICATION Spec
SYMMETRY Symmetric
INVARIANTS
  TypeOK
  OneWorkerPerId
  RoundsAreAsAsked
PROPERTIES
  JoinsItsWorkers
