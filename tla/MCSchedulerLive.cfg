\* Liveness: every provider call ends
SPECIFICATION FairSpec
CONSTANTS
  MaxId = 1
  Plugins = {p1}
  Registered = {p1}
  TokenEnds = {p1}
  FetchEnds = {p1}
  Configs = {c1}
  NumShapes = 0
  Loops = {l1, l2}
  Admins = {a1}
  Main = main
  None = none
  NoRow = noRow
  NoJob = noJob
  Empty = empty
PROPERTIES
  EnabledIsServed
  ReloadReturns
  SignalEndsProgram
