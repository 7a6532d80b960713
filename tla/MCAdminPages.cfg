\* One visit to each page: two requests in flight, four or three things done
SPECIFICATION Spec
CONSTANTS
  Calls = {x1, x2}
  MaxEdits = 4
  None = none
  NoCall = noCall
  Values = {v1, v2}
  Passwords = {p1}
  Events = {e1, e2}
  People = {a, b}
  MaxKeys = 3
  TabCost = 2
  MaxTokens = 3
  Names = {n1, n2}
  Times = {t1}
  ScreenIds = {1, 2, 3, 4}
  Messages = {m1, m2}
  Unreadable = {m2}
  Options = {o1, o2}
  Urls = {u1, u2}
  k1 = k1
  f1 = f1
  Colours = {k1, k2}
  Fonts = {f1, f2}
  Default <- Builtin
  MaxLines = 3
  Blank = blank
  Absent = absent
  Full = 3
  Steps = 2
  Opaque = 2
  Word = word
  White = white
  Dark = dark
  Width = 4
  MaxStops = 4
SYMMETRY Symmetry
INVARIANTS
  TypeOK
  PagesTellTruth
  ShownFactorWorks
  
  ConsentFollowsAdd
  ColourIsKept
PROPERTIES
  OnlyTheEditedChanges
  SessionEndsForCause
CHECK_DEADLOCK FALSE
