SPECIFICATION Spec
CONSTANTS
  w1 = w1
  w2 = w2
  Workers <- MCWorkers
  Plans <- MCPlans
  Responses <- MCResponses
  DubboAnswers <- MCDubboAnswers
  Tables <- MCTables
  NumberOf <- MCNumbers
SYMMETRY MCSymmetry
INVARIANTS
  TypeOK
  RowsAreDealtInTurn
  UndisturbedSceneHasItsRow
  OwnHeaderWins
  AssertionsOfEveryLevelCount
  ReferencesAreShared
CHECK_DEADLOCK FALSE
