SPECIFICATION Spec
CONSTANTS
  w1 = w1
  w2 = w2
  Workers <- MCWorkers
  Plans <- MCCodePlans
  Responses <- MCResponses
  DubboAnswers <- MCDubboAnswers
  Tables <- MCTables
  NumberOf <- MCNumbers
SYMMETRY MCSymmetry
INVARIANT NoAnswerIsNoSuccess
CHECK_DEADLOCK FALSE
