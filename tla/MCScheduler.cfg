\* Safety: one admin at a time, one row id (reused), two loops
SPECIFICATION Spec
CONSTANTS
  MaxId = 1
  Plugins = {p1, p2}
  Registered = {p1}
  TokenEnds = {p1, p2}
  FetchEnds = {p1, p2}
  Configs = {c1, c2}
  NumShapes = 1
  Loops = {l1, l2}
  Admins = {a1}
  Main = main
  None = none
  NoRow = noRow
  NoJob = noJob
  Empty = empty
SYMMETRY Symmetry
INVARIANTS
  TypeOK
  FetchUsesOwnConfig
  PluginExclusive
  NoLeakedLoop
  StopCancelsAll
  NoOrphanRows
  RunningMatchesDatabase
