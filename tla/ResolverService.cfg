SPECIFICATION Spec
CONSTANTS
  b = b
  n1 = n1
  n2 = n2
  Addrs = {b, n1, n2}
  BuiltIn = {b}
  Announced = {n1}
  MaxRetired = 2
  Threshold = 2
  Tries = 1
  Cooldown = 2
  Short = 1
  Back = 1
  Homes <- Round
  Watching = TRUE
  Budget <- ServiceBudget
INVARIANTS
  TypeOK
  FlagMeansSearch
PROPERTIES
  RescueSpaced
  ManifestForward
  NothingForgotten
