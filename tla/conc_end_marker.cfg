CONSTANTS
  Goroutine = {g1, g2}
  ChanCap = 2
  SceneSize = 1
  KafkaFails = FALSE
  ControlModes <- Central
  Messages <- Quiet
  MaxMessages = 0
  Concurrency = 2
  Duration = 1
  MaxDuration = 2
SPECIFICATION Spec
PROPERTIES
  EndMarksTheLastRecord
