SPECIFICATION Spec
CONSTANTS
  u = u
  t = t
  Clients = {u, t}
  Garbled = {t}
  Via <- Doors
  Families = {"v4"}
  N = 4
  Tries = 3
  Limit = 3
  Contested <- OneSocket
  Answering = {{}, {0}, {3}}
INVARIANTS
  TypeOK
  StoppedMeansFree
  StopIsPrompt
PROPERTIES
  SilenceIsExcused
  QueriesEnd
  WalkFinds
