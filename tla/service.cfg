SPECIFICATION Spec
CONSTANTS
  r1 = r1
  r2 = r2
  Requests <- MCRequests
  Plans <- MCPlans
INVARIANTS
  TypeOK
  CasesRunInOrder
  ReportedWhenAllRan
  ClientsOutliveTheirUse
PROPERTIES
  RequestsEnd
CHECK_DEADLOCK FALSE
