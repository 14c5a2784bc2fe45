SPECIFICATION Spec
CONSTANTS
  v1 = v1
  v2 = v2
  Windows = {v1, v2}
  First = v1
  Retries = 1
  Budget <- LiveBudget
CHECK_DEADLOCK FALSE
PROPERTIES
  CatchesUp
  ClickSurvives
