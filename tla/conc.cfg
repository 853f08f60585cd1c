CONSTANTS
  Goroutine = {g1, g2, g3}
  ChanCap = 1
  SceneSize = 1
  KafkaFails = FALSE
  ControlModes <- Both
  Messages <- Handled
  MaxMessages = 2
  Concurrency = 2
  Duration = 1
  MaxDuration = 2
SPECIFICATION Spec
SYMMETRY Symmetric
INVARIANTS
  TypeOK
  PoolInv
  NoSendOnClosedChannel
  StreamIsComplete
  IdsAndWorkersAgree
PROPERTIES
  CentralStopIsFinal
  JoinsItsWorkers
