SPECIFICATION LiveSpec
CONSTANTS
  b = b
  n1 = n1
  n2 = n2
  Addrs = {b, n1}
  BuiltIn = {b}
  Announced = {b}
  MaxRetired = 3
  Threshold = 2
  Tries = 1
  Cooldown = 2
  Short = 1
  Back = 1
  Homes <- ThereAndBack
  Watching = FALSE
  Budget <- WindowBudget
PROPERTIES
  LoneStubFollows
