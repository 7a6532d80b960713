\* Safety: two pairing codes, two calls in flight
SPECIFICATION Spec
CONSTANTS
  Codes = {k1, k2}
  Displays = {d1}
  Calls = {x1, x2}
  MaxBirths = 2
  NoCode = noCode
  NoRow = noRow
  NoDisplay = noDisplay
  Idle = idle
SYMMETRY Symmetry
INVARIANTS
  CookieMatchesPage
  AnnouncedOnce
  ShowsOwnDisplay
