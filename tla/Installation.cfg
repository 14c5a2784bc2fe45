SPECIFICATION Spec
CONSTANTS
  w1 = w1
  Windows = {w1}
  Asides <- ThreeNames
  Budget <- MachineBudget
CHECK_DEADLOCK FALSE
INVARIANTS
  TypeOK
  QueueSpares
  ProgramStays
  LentHasBackup
  UninstallGivesBack
PROPERTIES
  SetupRegistersAFile
  RemovalIsComplete
