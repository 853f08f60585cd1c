CONSTANTS
  Goroutine = {g1, g2}
  ChanCap = 1
  SceneSize = 1
  KafkaFails = TRUE
  ControlModes = {"Centralized", "Alone"}
  Messages <- AnyMessage
  MaxMessages = 1
  Concurrency = 1
  Duration = 1
  RoundNum = 1
  StartConcurrency = 1
  Step = 1
  MaxConcurrency = 2
  StepRunTime = 1
  MaxDuration = 1
  MaxLevel = 2
  Event = {e1}
  Reports <- AnyReport
  Tasks <- AnyTask
SPECIFICATION FairSpec
PROPERTIES
  TaskIsEnded
  IdsAreServed
CHECK_DEADLOCK FALSE
