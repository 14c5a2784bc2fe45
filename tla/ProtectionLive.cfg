SPECIFICATION LiveSpec
CONSTANTS
  a1 = a1
  a2 = a2
  s1 = s1
  s2 = s2
  m1 = m1
  m2 = m2
  Adapters = {a1}
  Vpn = {}
  ListA = ListA
  HeadA = HeadA
  Lists = {ListA, HeadA}
  Heads <- HeadsOf
  Servers = {}
  Sets = {m1}
  Members <- MembersOf
  Dhcp = Dhcp
  Loopback = Loopback
  Empty = Empty
  None = None
  Wishes <- BothModes
  Recommended <- StubOn
  NativeDoh = FALSE
  Budget <- LiveBudget
INVARIANTS
  NothingLost
PROPERTIES
  DriftReclaimed
  AppliedInTheEnd
  StopCompletes
  RevertFinishes
