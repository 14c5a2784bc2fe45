SPECIFICATION Spec
CONSTANTS
  w1 = w1
  Windows = {w1}
  Asides <- ThreeNames
  Budget <- UninstallBudget
CHECK_DEADLOCK FALSE
INVARIANT UninstallRestores
