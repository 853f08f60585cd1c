CONSTANTS
  Requests <- AnyRequest
  MaxMessages = 2
  MaxDials = 3
  MaxFailedReads = 2
SPECIFICATION FairSpec
INVARIANTS
  TypeOK
  StopMarksTheEnd
  ClosesItsSockets
  SurvivesItsPeer
PROPERTIES
  DurationEndsTheConnection
CHECK_DEADLOCK FALSE
