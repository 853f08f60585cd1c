CONSTANTS
  Goroutine = {g1, g2, g3}
  ChanCap = 1
  SceneSize = 1
  KafkaFails = FALSE
  ControlModes <- Alone
  Messages <- Quiet
  MaxMessages = 0
  Modes = {"ladder"}
  Event = {e1}
  Reports <- NoReport
  StartConcurrency = 1
  Step = 1
  MaxConcurrency = 2
  StepRunTime = 1
  Duration = 1
  MaxLevel = 2
  MaxDuration = 1
SPECIFICATION Spec
SYMMETRY Symmetric
INVARIANTS
  EndSealsTheStream
