SPECIFICATION Spec
CONSTANTS
  v1 = v1
  v2 = v2
  Windows = {v1, v2}
  First = v1
  Retries = 1
  Budget <- SessionBudget
CHECK_DEADLOCK FALSE
INVARIANTS
  TypeOK
  ReportIsMine
  OneResolver
