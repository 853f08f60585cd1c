CONSTANTS
  Goroutine = {g1, g2, g3}
  ChanCap = 1
  SceneSize = 0
  KafkaFails = FALSE
  ControlModes <- Both
  Messages <- Handled
  MaxMessages = 1
  Modes <- FourModes
  Event = {e1, e2}
  Reports <- AnyReport
  StartConcurrency = 1
  Step = 1
  MaxConcurrency = 2
  StepRunTime = 1
  Duration = 2
  MaxLevel = 3
  MaxDuration = 2
SPECIFICATION Spec
SYMMETRY Symmetric
INVARIANTS
  TypeOK
  OneSceneAtATime
  EveryRung
PROPERTIES
  JoinsItsWorkers
