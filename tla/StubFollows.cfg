SPECIFICATION LiveSpec
CONSTANTS
  b = b
  n1 = n1
  n2 = n2
  Addrs = {b, n1}
  BuiltIn = {b}
  Announced = {n1}
  MaxRetired = 3
  Threshold = 2
  Tries = 3
  Cooldown = 2
  Short = 1
  Back = 1
  Homes <- OneMove
  Watching = TRUE
  Budget <- FollowBudget
PROPERTIES
  StubFollowsMove
