SPECIFICATION Spec
CONSTANTS
  a1 = a1
  a2 = a2
  s1 = s1
  s2 = s2
  m1 = m1
  m2 = m2
  Adapters = {a1, a2}
  Vpn = {a2}
  ListA = ListA
  HeadA = HeadA
  Lists = {ListA}
  Heads <- HeadsOf
  Servers = {s1}
  Sets = {m1}
  Members <- MembersOf
  Dhcp = Dhcp
  Loopback = Loopback
  Empty = Empty
  None = None
  Wishes <- StubKinds
  Recommended <- StubOn
  NativeDoh = TRUE
  Budget <- StubBudget
INVARIANTS
  TypeOK
  Recoverable
PROPERTIES
  StubFirst
  StopGivesBack
  AdaptersAreLent
